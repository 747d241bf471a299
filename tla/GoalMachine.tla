----------------------------- MODULE GoalMachine -----------------------------
(***************************************************************************)
(* The goal state machine as the schema declares it: the transitions of    *)
(* GoalState, and a goal that takes them one after another.  This is what  *)
(* every writer of gamification_goals.state promises to follow.            *)
(***************************************************************************)

CONSTANT Goals

VARIABLE state   (* per goal, its state *)

GoalStates == {"draft", "inprogress", "reached", "failed", "canceled"}

Transitions == {"start", "evaluate_met", "manual_reach", "window_close", "cancel"}

target_state ==
  [t \in Transitions |->
     CASE t = "start" -> "inprogress"
       [] t \in {"evaluate_met", "manual_reach"} -> "reached"
       [] t = "window_close" -> "failed"
       [] t = "cancel" -> "canceled"]

can_transition(s, t) ==
  \/ s = "draft" /\ t \in {"start", "cancel"}
  \/ s = "inprogress" /\ t \in Transitions \ {"start"}
  \/ s = "reached" /\ t = "cancel"

(* transition_to_state: some transition leads from one state to the other.  *)
transition_to_state(s, n) ==
  \E t \in Transitions : can_transition(s, t) /\ n = target_state[t]

MachineInit == state = [g \in Goals |-> "draft"]

(* One transition, or the first evaluation of a draft that meets its        *)
(* condition: it starts the goal and reaches it in the same write.          *)
Transition(g) ==
  \E n \in GoalStates :
    /\ \/ transition_to_state(state[g], n)
       \/ state[g] = "draft" /\ n = "reached"
    /\ state' = [state EXCEPT ![g] = n]

MachineSpec == MachineInit /\ [][\E g \in Goals : Transition(g)]_state
=============================================================================
