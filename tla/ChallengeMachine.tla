--------------------------- MODULE ChallengeMachine ---------------------------
(***************************************************************************)
(* The challenge state machine as the schema declares it.  This is what    *)
(* every writer of gamification_challenges.state promises to follow.       *)
(***************************************************************************)

VARIABLE state

ChallengeStates == {"draft", "inprogress", "done"}

(* The declared transition out of each state.                               *)
target_state == [draft |-> "inprogress", inprogress |-> "done", done |-> "draft"]

MachineInit == state = "draft"

(* start, close or reset; a challenge whose end date passed before it was   *)
(* started is started and closed by one commit of the daily check.          *)
Transition ==
  \/ state' = target_state[state]
  \/ state = "draft" /\ state' = "done"

MachineSpec == MachineInit /\ [][Transition]_state
=============================================================================
