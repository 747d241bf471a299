---------------------------- MODULE GoalLifecycle ----------------------------
(***************************************************************************)
(* The verbs that write gamification_goals: evaluate_goal (alone or as one *)
(* row of the daily check), set_goal_current, manual_reach, cancel_goal,   *)
(* and the two sweeps a challenge runs over its goals.  Each call is one   *)
(* READ COMMITTED transaction: it reads the committed row without a lock,  *)
(* and its UPDATEs wait for the row lock and then write over the latest    *)
(* version of the row, whatever the call had read.  A trigger refuses an   *)
(* undeclared change of state and thereby aborts the transaction.          *)
(*                                                                         *)
(* A goal's definition (mode, condition), target and window are constants: *)
(* no verb of this group writes them.  Reminder flags are left out.        *)
(***************************************************************************)
EXTENDS Integers

CONSTANTS
  Goals,      (* goal ids                                                    *)
  Calls,      (* [id, verb, goal, value]: value is what enter is given       *)
  Mode,       (* per goal, its definition's computation_mode                 *)
  Condition,  (* per goal, its definition's condition                        *)
  Target,     (* per goal, its target                                        *)
  End,        (* per goal, the last day of its window, or Open               *)
  Open,       (* a window without an end                                     *)
  Values,     (* values the metrics compute                                  *)
  NoCall,     (* no call                                                     *)
  MaxDay      (* bound on the calendar                                       *)

GoalStates == {"draft", "inprogress", "reached", "failed", "canceled"}

Verbs == {"evaluate", "enter", "reach", "cancel", "leave", "close"}

ASSUME GoalAssumption ==
  /\ \A c \in Calls : c.verb \in Verbs /\ c.goal \in Goals /\ c.value \in Int
  /\ Mode \in [Goals -> {"manual", "registered_metric"}]
  /\ Condition \in [Goals -> {"higher", "lower"}]
  /\ Target \in [Goals -> Int]
  /\ End \in [Goals -> Int \cup {Open}]
  /\ Open \notin Int
  /\ Values \subseteq Int
  /\ NoCall \notin Calls
  /\ MaxDay \in Nat

VARIABLES
  day,     (* today                                                          *)
  row,     (* per goal, the committed row                                    *)
  work,    (* per goal, its latest version, committed or not                 *)
  lock,    (* per goal, the call that holds the row lock                     *)
  pc,      (* per call, the last statement it completed                      *)
  seen,    (* per call, the state it read                                    *)
  value    (* per call, the value it computed, was given or read             *)

vars == <<day, row, work, lock, pc, seen, value>>

Row == [state : GoalStates, current : Int]

Ended == {"refused", "aborted", "committed"}

Steps == {"idle", "found", "written", "started", "landed"} \cup Ended

Goto(c, step) == pc' = [pc EXCEPT ![c] = step]

condition_met(g, v) ==
  \/ Condition[g] = "higher" /\ v >= Target[g]
  \/ Condition[g] = "lower" /\ v <= Target[g]

(* The moves the trigger lets through: the declared ones, and none at all.  *)
Declared ==
  {<<"draft", "canceled">>, <<"draft", "inprogress">>,
   <<"inprogress", "canceled">>, <<"inprogress", "failed">>, <<"inprogress", "reached">>,
   <<"reached", "canceled">>} \cup {<<s, s>> : s \in GoalStates}

Reads(c) == c.verb \in {"evaluate", "enter", "reach", "cancel"}

(* The verbs that write a value before they decide on the state.            *)
Measures(c) ==
  \/ c.verb \in {"evaluate", "enter"}
  \/ c.verb = "reach" /\ Mode[c.goal] = "registered_metric"

-----------------------------------------------------------------------------
Init ==
  /\ day = 0
  /\ row = [g \in Goals |-> [state |-> "draft", current |-> 0]]
  /\ work = row
  /\ lock = [g \in Goals |-> NoCall]
  /\ pc = [c \in Calls |-> "idle"]
  /\ seen = [c \in Calls |-> "draft"]
  /\ value = [c \in Calls |-> 0]

NextDay ==
  /\ day < MaxDay
  /\ day' = day + 1
  /\ UNCHANGED <<row, work, lock, pc, seen, value>>

(* What each verb asks of the row it read.                                  *)
Admissible(c, s) ==
  \/ /\ c.verb = "evaluate" /\ Mode[c.goal] = "registered_metric"
     /\ s \in {"draft", "inprogress"}
  \/ /\ c.verb = "enter" /\ Mode[c.goal] = "manual"
     /\ s \in {"draft", "inprogress"}
  \/ c.verb = "reach" /\ s = "inprogress"
  \/ c.verb = "cancel" /\ s \in {"inprogress", "reached"}

(* The value a verb goes on with: a metric answers whatever it likes.       *)
Inputs(c) ==
  IF c.verb = "enter" THEN {c.value}
  ELSE IF Mode[c.goal] = "registered_metric" THEN Values
  ELSE {row[c.goal].current}

(* find_goal and find_goal_definition, the verb's checks and its metric.    *)
Find(c) ==
  /\ Reads(c)
  /\ pc[c] = "idle"
  /\ seen' = [seen EXCEPT ![c] = row[c.goal].state]
  /\ \E v \in Inputs(c) : value' = [value EXCEPT ![c] = v]
  /\ Goto(c, IF Admissible(c, row[c.goal].state) THEN "found" ELSE "refused")
  /\ UNCHANGED <<day, row, work, lock>>

(* Mutant of WriteCurrent: the UPDATE runs outside the transaction.         *)
WriteCurrentAtOnce(c) ==
  /\ pc[c] = "found"
  /\ Measures(c)
  /\ lock[c.goal] = NoCall
  /\ row' = [row EXCEPT ![c.goal].current = value[c]]
  /\ work' = [work EXCEPT ![c.goal].current = value[c]]
  /\ Goto(c, "written")
  /\ UNCHANGED <<day, lock, seen, value>>

(* The repository's set_goal_current: no condition on the state it writes   *)
(* over.                                                                    *)
WriteCurrent(c) ==
  /\ pc[c] = "found"
  /\ Measures(c)
  /\ lock[c.goal] = NoCall
  /\ lock' = [lock EXCEPT ![c.goal] = c]
  /\ work' = [work EXCEPT ![c.goal].current = value[c]]
  /\ Goto(c, "written")
  /\ UNCHANGED <<day, row, seen, value>>

(* Mutant of Release: a transaction that ends keeps its row lock.              *)
KeepRowLock(c) == UNCHANGED lock

(* A transaction that ends gives up the row it wrote.                       *)
Release(c) == lock' = [g \in Goals |-> IF lock[g] = c THEN NoCall ELSE lock[g]]

(* An error, a lost connection or the trigger's exception: nothing is kept. *)
Abort(c) ==
  /\ Goto(c, "aborted")
  /\ work' = [g \in Goals |-> IF lock[g] = c THEN row[g] ELSE work[g]]
  /\ Release(c)
  /\ UNCHANGED <<day, row, seen, value>>

(* Mutant of set_goal_state: the table has no transition trigger.           *)
set_goal_state_unchecked(c, s, step) ==
  /\ lock[c.goal] \in {NoCall, c}
  /\ lock' = [lock EXCEPT ![c.goal] = c]
  /\ work' = [work EXCEPT ![c.goal].state = s]
  /\ Goto(c, step)
  /\ UNCHANGED <<day, row, seen, value>>

(* The repository's set_goal_state, with the trigger: the version written   *)
(* over is the latest, not the one that was read.                           *)
set_goal_state(c, s, step) ==
  /\ lock[c.goal] \in {NoCall, c}
  /\ \/ /\ <<work[c.goal].state, s>> \in Declared
        /\ lock' = [lock EXCEPT ![c.goal] = c]
        /\ work' = [work EXCEPT ![c.goal].state = s]
        /\ Goto(c, step)
        /\ UNCHANGED <<day, row, seen, value>>
     \/ /\ <<work[c.goal].state, s>> \notin Declared
        /\ Abort(c)

(* The first evaluation of a goal that was read as a draft starts it.       *)
Start(c) ==
  /\ pc[c] = "written"
  /\ seen[c] = "draft"
  /\ set_goal_state(c, "inprogress", "started")

(* The verb has written all it writes before it looks at the condition.     *)
Decides(c) ==
  \/ pc[c] = "started"
  \/ pc[c] = "written" /\ seen[c] # "draft"
  \/ pc[c] = "found" /\ c.verb = "reach" /\ ~Measures(c)

Land(c) ==
  /\ Decides(c)
  /\ condition_met(c.goal, value[c])
  /\ set_goal_state(c, "reached", "landed")

(* GoalCriteriaUnmet: the value just written is rolled back with it.        *)
Unmet(c) ==
  /\ Decides(c)
  /\ c.verb = "reach"
  /\ ~condition_met(c.goal, value[c])
  /\ Abort(c)

Cancel(c) ==
  /\ pc[c] = "found"
  /\ c.verb = "cancel"
  /\ set_goal_state(c, "canceled", "landed")

-----------------------------------------------------------------------------
(* cancel_goals_of_users and window_close_passed_goals: one UPDATE whose    *)
(* WHERE is evaluated on the committed row, and again on the version it     *)
(* finds once it holds the lock.                                            *)
Swept(c) ==
  \/ c.verb = "leave" /\ row[c.goal].state \in {"draft", "inprogress", "reached"}
  \/ /\ c.verb = "close" /\ row[c.goal].state = "inprogress"
     /\ End[c.goal] # Open /\ End[c.goal] < day

Sweep(c) ==
  /\ pc[c] = "idle"
  /\ Swept(c)
  /\ lock[c.goal] = NoCall
  /\ set_goal_state(c, IF c.verb = "leave" THEN "canceled" ELSE "failed", "landed")

(* The WHERE does not match: no row is written and nobody is waited for.    *)
Skip(c) ==
  /\ pc[c] = "idle"
  /\ c.verb \in {"leave", "close"}
  /\ ~Swept(c)
  /\ Goto(c, "refused")
  /\ UNCHANGED <<day, row, work, lock, seen, value>>

-----------------------------------------------------------------------------
(* tx.commit(): an evaluation whose condition is unmet commits its value.   *)
Commit(c) ==
  /\ \/ pc[c] = "landed"
     \/ Decides(c) /\ c.verb # "reach" /\ ~condition_met(c.goal, value[c])
  /\ Goto(c, "committed")
  /\ row' = [row EXCEPT ![c.goal] = work[c.goal]]
  /\ Release(c)
  /\ UNCHANGED <<day, work, seen, value>>

Rollback(c) ==
  /\ pc[c] \notin {"idle"} \cup Ended
  /\ Abort(c)

Statement(c) ==
  \/ Find(c) \/ WriteCurrent(c) \/ Start(c) \/ Land(c) \/ Unmet(c) \/ Cancel(c)
  \/ Sweep(c) \/ Skip(c) \/ Commit(c)

Next == NextDay \/ \E c \in Calls : Statement(c) \/ Rollback(c)

Spec == Init /\ [][Next]_vars

(* A call that began runs on and a waiter gets the row it waits for; nobody *)
(* is obliged to call, and no transaction is obliged to fail.               *)
Fairness == \A c \in Calls : WF_vars(pc[c] # "idle" /\ Statement(c))

FairSpec == Spec /\ Fairness

-----------------------------------------------------------------------------
(* The variables keep their types; a locked row belongs to a transaction    *)
(* that is still open, and an unlocked row has no uncommitted version.      *)
TypeOK ==
  /\ day \in Nat
  /\ row \in [Goals -> Row]
  /\ work \in [Goals -> Row]
  /\ lock \in [Goals -> Calls \cup {NoCall}]
  /\ pc \in [Calls -> Steps]
  /\ seen \in [Calls -> GoalStates]
  /\ value \in [Calls -> Int]
  /\ \A g \in Goals :
       IF lock[g] = NoCall THEN work[g] = row[g]
       ELSE lock[g].goal = g /\ pc[lock[g]] \in {"written", "started", "landed"}

Machine == INSTANCE GoalMachine WITH state <- [g \in Goals |-> row[g].state]

(* "Both state machines move only through transition verbs": whatever a     *)
(* call had read before it wrote, the committed state of a goal follows the *)
(* declared machine, and failed and canceled goals stay what they are.      *)
FollowsTheMachine == Machine!MachineSpec

(* "The goal's window passed with the condition unmet": no goal that runs,  *)
(* or was failed by its window, holds a value that meets its condition, not *)
(* even one that a slower evaluation wrote over it.                         *)
UnmetUntilReached ==
  \A g \in Goals : row[g].state \in {"inprogress", "failed"} =>
    ~condition_met(g, row[g].current)

(* A reach that was answered is kept: the goal stays reached unless it is   *)
(* canceled, whatever older reads are still on their way to be written.     *)
ReachIsKept ==
  \A c \in Calls :
    pc[c] = "committed" /\ c.verb \in {"evaluate", "enter", "reach"}
        /\ condition_met(c.goal, value[c]) =>
      row[c.goal].state \in {"reached", "canceled"}

(* "Reached when current >= target" and "never a silent revert": the value  *)
(* of a reached goal meets its condition.                                   *)
ReachedMeansMet ==
  \A g \in Goals : row[g].state = "reached" => condition_met(g, row[g].current)

(* A call that began ends: no row lock is left behind.                      *)
EveryCallEnds == \A c \in Calls : pc[c] = "found" ~> pc[c] \in Ended
=============================================================================
