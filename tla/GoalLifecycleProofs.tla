------------------------- MODULE GoalLifecycleProofs -------------------------
(***************************************************************************)
(* Proofs about GoalLifecycle for any goals, calls, metrics and days: type *)
(* correctness, that a goal's committed state follows the declared         *)
(* machine, that no running or failed goal holds a value that meets its    *)
(* condition, and that an answered reach is kept.                          *)
(***************************************************************************)
EXTENDS GoalLifecycle, TLAPS

(* What a call knows of the row it has locked.                              *)
Wrote(c) ==
  /\ pc[c] \in {"written", "started"} => work[c.goal].current = value[c]
  /\ pc[c] = "written" => work[c.goal].state = row[c.goal].state
  /\ pc[c] = "started" =>
       work[c.goal].state = "inprogress" /\ row[c.goal].state \in {"draft", "inprogress"}

(* A call that is about to commit has moved the row along the machine.      *)
Landed(c) ==
  pc[c] = "landed" =>
    /\ c.verb \in {"evaluate", "enter", "reach"} =>
         /\ work[c.goal].state = "reached"
         /\ row[c.goal].state \in {"draft", "inprogress", "reached"}
    /\ c.verb \in {"cancel", "leave"} =>
         /\ work[c.goal].state = "canceled"
         /\ row[c.goal].state \in {"draft", "inprogress", "reached", "canceled"}
    /\ c.verb = "close" =>
         /\ work[c.goal].state = "failed"
         /\ row[c.goal].state = "inprogress"
         /\ work[c.goal].current = row[c.goal].current

Holding(c) == pc[c] \in {"written", "started", "landed"} => lock[c.goal] = c

Measured(c) == pc[c] \in {"written", "started"} => Measures(c)

CallInv == \A c \in Calls : Holding(c) /\ Measured(c) /\ Wrote(c) /\ Landed(c)

GoalInv == CallInv /\ UnmetUntilReached /\ ReachIsKept

-----------------------------------------------------------------------------
LEMMA InitTypeOK == Init => TypeOK
  BY GoalAssumption DEF Init, TypeOK, Row, GoalStates, Steps, Ended

LEMMA AbortTypeOK ==
  ASSUME TypeOK, NEW c \in Calls, Abort(c) PROVE TypeOK'
  BY GoalAssumption DEF TypeOK, Abort, Release, Goto, Steps, Ended

LEMMA SetTypeOK ==
  ASSUME TypeOK, NEW c \in Calls, NEW s \in GoalStates, NEW step \in {"started", "landed"},
         set_goal_state(c, s, step)
  PROVE  TypeOK'
<1>1. CASE Abort(c)
  BY <1>1, AbortTypeOK
<1>2. CASE ~Abort(c)
  <2>1. c.goal \in Goals /\ c # NoCall
    BY GoalAssumption
  <2>2. /\ lock[c.goal] \in {NoCall, c}
        /\ lock' = [lock EXCEPT ![c.goal] = c]
        /\ work' = [work EXCEPT ![c.goal].state = s]
        /\ pc' = [pc EXCEPT ![c] = step]
        /\ UNCHANGED <<day, row, seen, value>>
    BY <1>2 DEF set_goal_state, Goto
  <2>3. work' \in [Goals -> Row]
    BY <2>1, <2>2 DEF TypeOK, Row
  <2>4. ASSUME NEW g \in Goals
        PROVE  IF lock'[g] = NoCall THEN work'[g] = row'[g]
               ELSE lock'[g].goal = g /\ pc'[lock'[g]] \in {"written", "started", "landed"}
    <3>1. CASE g = c.goal
      BY <2>1, <2>2, <3>1 DEF TypeOK
    <3>2. CASE g # c.goal
      BY <2>1, <2>2, <3>2 DEF TypeOK
    <3>3. QED BY <3>1, <3>2
  <2>5. QED BY <2>1, <2>2, <2>3, <2>4 DEF TypeOK, Steps
<1>3. QED BY <1>1, <1>2

LEMMA NextTypeOK == TypeOK /\ [Next]_vars => TypeOK'
<1> SUFFICES ASSUME TypeOK, [Next]_vars PROVE TypeOK'
  OBVIOUS
<1>1. CASE UNCHANGED vars
  BY <1>1 DEF vars, TypeOK
<1>2. CASE NextDay
  BY <1>2 DEF NextDay, TypeOK
<1>3. ASSUME NEW c \in Calls, Statement(c) \/ Rollback(c) PROVE TypeOK'
  <2>0. c.goal \in Goals /\ c.value \in Int /\ c # NoCall /\ Values \subseteq Int
    BY GoalAssumption
  <2>1. CASE Find(c)
    <3>1. row[c.goal].state \in GoalStates /\ row[c.goal].current \in Int
      BY <2>0 DEF TypeOK, Row
    <3>2. Inputs(c) \subseteq Int
      BY <2>0, <3>1 DEF Inputs
    <3>3. \A g \in Goals : lock[g] # c
      BY <2>0, <2>1 DEF Find, TypeOK
    <3>4. QED BY <2>1, <3>1, <3>2, <3>3 DEF Find, TypeOK, Goto, Steps, Ended
  <2>2. CASE WriteCurrent(c)
    <3>1. value[c] \in Int
      BY DEF TypeOK
    <3>2. work' \in [Goals -> Row]
      <4>1. work \in [Goals -> Row] /\ work' = [work EXCEPT ![c.goal].current = value[c]]
        BY <2>2 DEF WriteCurrent, TypeOK
      <4>2. QED BY <2>0, <3>1, <4>1 DEF Row
    <3>3. \A g \in Goals : g # c.goal => work'[g] = work[g] /\ lock'[g] = lock[g] /\ lock[g] # c
      BY <2>0, <2>2 DEF WriteCurrent, TypeOK
    <3>4. lock'[c.goal] = c /\ pc'[c] = "written"
      BY <2>0, <2>2 DEF WriteCurrent, TypeOK, Goto
    <3>5. QED BY <2>0, <2>2, <3>2, <3>3, <3>4 DEF WriteCurrent, TypeOK, Goto, Steps
  <2>3. CASE Start(c)
    BY <2>3, SetTypeOK DEF Start, GoalStates
  <2>4. CASE Land(c)
    BY <2>4, SetTypeOK DEF Land, GoalStates
  <2>5. CASE Unmet(c)
    BY <2>5, AbortTypeOK DEF Unmet
  <2>6. CASE Cancel(c)
    BY <2>6, SetTypeOK DEF Cancel, GoalStates
  <2>7. CASE Sweep(c)
    BY <2>7, SetTypeOK DEF Sweep, GoalStates
  <2>8. CASE Skip(c)
    <3>1. \A g \in Goals : lock[g] # c
      BY <2>0, <2>8 DEF Skip, TypeOK
    <3>2. QED BY <2>8, <3>1 DEF Skip, TypeOK, Goto, Steps, Ended
  <2>9. CASE Commit(c)
    BY <2>0, <2>9 DEF Commit, Decides, Measures, Release, TypeOK, Goto, Steps, Ended
  <2>10. CASE Rollback(c)
    BY <2>10, AbortTypeOK DEF Rollback
  <2>11. QED BY <1>3, <2>1, <2>2, <2>3, <2>4, <2>5, <2>6, <2>7, <2>8, <2>9, <2>10 DEF Statement
<1>4. QED BY <1>1, <1>2, <1>3 DEF Next

(* Every variable keeps its type, and no row lock outlives its transaction. *)
THEOREM TypeCorrect == Spec => []TypeOK
  BY InitTypeOK, NextTypeOK, PTL DEF Spec

-----------------------------------------------------------------------------
LEMMA InitGoalInv == Init => GoalInv
  BY GoalAssumption
  DEF Init, GoalInv, CallInv, Holding, Measured, Wrote, Landed, UnmetUntilReached, ReachIsKept

(* What c writes is its own row, or nobody's: the others keep what they     *)
(* know.                                                                    *)
LEMMA OtherCalls ==
  ASSUME TypeOK, CallInv, NEW c \in Calls, NEW x, pc' = [pc EXCEPT ![c] = x],
         \A d \in Calls : d # c => value'[d] = value[d],
         \A d \in Calls : d # c /\ lock[d.goal] = d =>
           lock'[d.goal] = d /\ work'[d.goal] = work[d.goal] /\ row'[d.goal] = row[d.goal]
  PROVE  \A d \in Calls : d # c => (Holding(d) /\ Measured(d) /\ Wrote(d) /\ Landed(d))'
<1> TAKE d \in Calls
<1> HAVE d # c
<1>1. pc'[d] = pc[d] /\ value'[d] = value[d]
  BY DEF TypeOK
<1>2. Holding(d) /\ Measured(d) /\ Wrote(d) /\ Landed(d)
  BY DEF CallInv
<1>3. CASE pc[d] \in {"written", "started", "landed"}
  <2>1. lock[d.goal] = d
    BY <1>2, <1>3 DEF Holding
  <2>2. lock'[d.goal] = d /\ work'[d.goal] = work[d.goal] /\ row'[d.goal] = row[d.goal]
    BY <2>1
  <2>3. QED BY <1>1, <1>2, <2>2 DEF Holding, Measured, Measures, Wrote, Landed
<1>4. CASE pc[d] \notin {"written", "started", "landed"}
  BY <1>1, <1>4 DEF Holding, Measured, Wrote, Landed
<1>5. QED BY <1>3, <1>4

(* A step that commits nothing disturbs nothing that is committed.          *)
LEMMA NothingCommitted ==
  ASSUME TypeOK, GoalInv, NEW c \in Calls, NEW x, x # "committed",
         pc' = [pc EXCEPT ![c] = x], row' = row,
         \A d \in Calls : d # c => value'[d] = value[d]
  PROVE  UnmetUntilReached' /\ ReachIsKept'
<1>1. UnmetUntilReached'
  BY DEF GoalInv, UnmetUntilReached, condition_met
<1>2. ReachIsKept'
  <2> SUFFICES ASSUME NEW d \in Calls, pc'[d] = "committed",
                      d.verb \in {"evaluate", "enter", "reach"},
                      condition_met(d.goal, value[d])'
               PROVE  row'[d.goal].state \in {"reached", "canceled"}
    BY DEF ReachIsKept
  <2>1. d # c /\ pc[d] = "committed" /\ value'[d] = value[d]
    BY DEF TypeOK
  <2>2. condition_met(d.goal, value[d])
    BY <2>1 DEF condition_met
  <2>3. QED BY <2>1, <2>2 DEF GoalInv, ReachIsKept
<1>3. QED BY <1>1, <1>2

(* A transaction that is undone leaves no trace.                            *)
LEMMA AbortGoalInv ==
  ASSUME TypeOK, GoalInv, NEW c \in Calls, Abort(c) PROVE GoalInv'
<1>1. pc' = [pc EXCEPT ![c] = "aborted"] /\ UNCHANGED <<day, row, seen, value>>
  BY DEF Abort, Goto
<1>2. \A d \in Calls : d # c /\ lock[d.goal] = d =>
        lock'[d.goal] = d /\ work'[d.goal] = work[d.goal] /\ row'[d.goal] = row[d.goal]
  BY GoalAssumption DEF Abort, Release
<1>3. (Holding(c) /\ Measured(c) /\ Wrote(c) /\ Landed(c))'
  BY <1>1 DEF TypeOK, Holding, Measured, Wrote, Landed
<1>4. CallInv'
  BY <1>1, <1>2, <1>3, OtherCalls DEF CallInv, GoalInv
<1>5. UnmetUntilReached' /\ ReachIsKept'
  BY <1>1, NothingCommitted
<1>6. QED BY <1>4, <1>5 DEF GoalInv

(* A declared move of the latest version, by the only writer of the row.    *)
LEMMA SetGoalInv ==
  ASSUME TypeOK, GoalInv, NEW c \in Calls, NEW s \in GoalStates,
         NEW step \in {"started", "landed"}, set_goal_state(c, s, step),
         ~Abort(c) => (Measured(c) /\ Wrote(c) /\ Landed(c))'
  PROVE  GoalInv'
<1>1. CASE Abort(c)
  BY <1>1, AbortGoalInv
<1>2. CASE ~Abort(c)
  <2>1. /\ lock[c.goal] \in {NoCall, c}
        /\ lock' = [lock EXCEPT ![c.goal] = c]
        /\ work' = [work EXCEPT ![c.goal].state = s]
        /\ pc' = [pc EXCEPT ![c] = step]
        /\ UNCHANGED <<day, row, seen, value>>
    BY <1>2 DEF set_goal_state, Goto
  <2>2. \A d \in Calls : d # c /\ lock[d.goal] = d =>
          lock'[d.goal] = d /\ work'[d.goal] = work[d.goal] /\ row'[d.goal] = row[d.goal]
    BY <2>1, GoalAssumption DEF TypeOK
  <2>3. Holding(c)'
    BY <2>1, GoalAssumption DEF TypeOK, Holding
  <2>4. CallInv'
    BY <1>2, <2>1, <2>2, <2>3, OtherCalls DEF CallInv, GoalInv
  <2>5. UnmetUntilReached' /\ ReachIsKept'
    BY <2>1, NothingCommitted
  <2>6. QED BY <2>4, <2>5 DEF GoalInv
<1>3. QED BY <1>1, <1>2

(* What set_goal_state does when the trigger lets it through.               *)
LEMMA SetEffect ==
  ASSUME TypeOK, NEW c \in Calls, NEW s \in GoalStates, NEW step,
         set_goal_state(c, s, step), ~Abort(c)
  PROVE  /\ <<work[c.goal].state, s>> \in Declared
         /\ pc'[c] = step /\ value' = value /\ row' = row
         /\ work'[c.goal].state = s
         /\ work'[c.goal].current = work[c.goal].current
         /\ lock[c.goal] \in {NoCall, c}
<1>0. c.goal \in Goals /\ work \in [Goals -> Row] /\ pc \in [Calls -> Steps]
  BY GoalAssumption DEF TypeOK
<1>1. /\ lock[c.goal] \in {NoCall, c}
      /\ <<work[c.goal].state, s>> \in Declared
      /\ work' = [work EXCEPT ![c.goal].state = s]
      /\ Goto(c, step) /\ UNCHANGED <<row, value>>
  BY DEF set_goal_state
<1>2. pc'[c] = step
  BY <1>0, <1>1 DEF Goto
<1>3. work'[c.goal].state = s /\ work'[c.goal].current = work[c.goal].current
  BY <1>0, <1>1 DEF Row
<1>4. QED BY <1>1, <1>2, <1>3

(* A call that holds no lock yet writes over the committed row.             *)
LEMMA UnlockedIsCommitted ==
  ASSUME TypeOK, NEW c \in Calls, pc[c] \in {"idle", "found"}, lock[c.goal] \in {NoCall, c}
  PROVE  lock[c.goal] = NoCall /\ work[c.goal] = row[c.goal]
  BY GoalAssumption DEF TypeOK

LEMMA StartGoalInv ==
  ASSUME TypeOK, GoalInv, NEW c \in Calls, Start(c) PROVE GoalInv'
<1>1. set_goal_state(c, "inprogress", "started") /\ pc[c] = "written"
  BY DEF Start
<1>2. Measured(c) /\ Wrote(c)
  BY DEF GoalInv, CallInv
<1>3. ASSUME ~Abort(c) PROVE (Measured(c) /\ Wrote(c) /\ Landed(c))'
  BY <1>1, <1>2, <1>3, SetEffect
  DEF Measured, Measures, Wrote, Landed, Declared, GoalStates
<1>4. QED BY <1>1, <1>3, SetGoalInv DEF GoalStates

LEMMA LandGoalInv ==
  ASSUME TypeOK, GoalInv, NEW c \in Calls, Land(c) PROVE GoalInv'
<1>1. set_goal_state(c, "reached", "landed") /\ Decides(c)
  BY DEF Land
<1>2. Measured(c) /\ Wrote(c)
  BY DEF GoalInv, CallInv
<1>3. c.verb \in {"evaluate", "enter", "reach"}
  BY <1>1, <1>2 DEF Decides, Measured, Measures
<1>4. ASSUME ~Abort(c) PROVE (Measured(c) /\ Wrote(c) /\ Landed(c))'
  <2>1. /\ <<work[c.goal].state, "reached">> \in Declared /\ pc'[c] = "landed"
        /\ row' = row /\ work'[c.goal].state = "reached" /\ lock[c.goal] \in {NoCall, c}
    BY <1>1, <1>4, SetEffect DEF GoalStates
  <2>2. row[c.goal].state \in {"draft", "inprogress", "reached"}
    <3>1. CASE pc[c] \in {"written", "started"}
      BY <1>2, <2>1, <3>1 DEF Wrote, Declared
    <3>2. CASE pc[c] = "found"
      BY <2>1, <3>2, UnlockedIsCommitted DEF Declared
    <3>3. QED BY <1>1, <3>1, <3>2 DEF Decides
  <2>3. QED BY <1>3, <2>1, <2>2 DEF Measured, Wrote, Landed
<1>5. QED BY <1>1, <1>4, SetGoalInv DEF GoalStates

LEMMA CancelGoalInv ==
  ASSUME TypeOK, GoalInv, NEW c \in Calls, Cancel(c) PROVE GoalInv'
<1>1. set_goal_state(c, "canceled", "landed") /\ pc[c] = "found" /\ c.verb = "cancel"
  BY DEF Cancel
<1>2. ASSUME ~Abort(c) PROVE (Measured(c) /\ Wrote(c) /\ Landed(c))'
  <2>1. /\ <<work[c.goal].state, "canceled">> \in Declared /\ pc'[c] = "landed"
        /\ row' = row /\ work'[c.goal].state = "canceled" /\ lock[c.goal] \in {NoCall, c}
    BY <1>1, <1>2, SetEffect DEF GoalStates
  <2>2. work[c.goal] = row[c.goal]
    BY <1>1, <2>1, UnlockedIsCommitted
  <2>3. QED BY <1>1, <2>1, <2>2 DEF Measured, Wrote, Landed, Declared
<1>3. QED BY <1>1, <1>2, SetGoalInv DEF GoalStates

LEMMA SweepGoalInv ==
  ASSUME TypeOK, GoalInv, NEW c \in Calls, Sweep(c) PROVE GoalInv'
<1> DEFINE s == IF c.verb = "leave" THEN "canceled" ELSE "failed"
<1>1. set_goal_state(c, s, "landed") /\ pc[c] = "idle" /\ Swept(c) /\ s \in GoalStates
  BY DEF Sweep, GoalStates
<1>2. ASSUME ~Abort(c) PROVE (Measured(c) /\ Wrote(c) /\ Landed(c))'
  <2>1. /\ pc'[c] = "landed" /\ row' = row /\ work'[c.goal].state = s
        /\ work'[c.goal].current = work[c.goal].current /\ lock[c.goal] \in {NoCall, c}
    BY <1>1, <1>2, SetEffect
  <2>2. work[c.goal] = row[c.goal]
    BY <1>1, <2>1, UnlockedIsCommitted
  <2>3. QED BY <1>1, <2>1, <2>2 DEF Measured, Wrote, Landed, Swept
<1>3. QED BY <1>1, <1>2, SetGoalInv

LEMMA WriteGoalInv ==
  ASSUME TypeOK, GoalInv, NEW c \in Calls, WriteCurrent(c) PROVE GoalInv'
<1>1. /\ pc[c] = "found" /\ Measures(c) /\ lock[c.goal] = NoCall
      /\ lock' = [lock EXCEPT ![c.goal] = c]
      /\ work' = [work EXCEPT ![c.goal].current = value[c]]
      /\ pc' = [pc EXCEPT ![c] = "written"]
      /\ UNCHANGED <<day, row, seen, value>>
  BY DEF WriteCurrent, Goto
<1>2. \A d \in Calls : d # c /\ lock[d.goal] = d =>
        lock'[d.goal] = d /\ work'[d.goal] = work[d.goal] /\ row'[d.goal] = row[d.goal]
  BY <1>1, GoalAssumption DEF TypeOK
<1>3. Holding(c)' /\ Measured(c)' /\ Wrote(c)' /\ Landed(c)'
  BY <1>1, GoalAssumption DEF TypeOK, Row, Holding, Measured, Measures, Wrote, Landed
<1>4. CallInv'
  BY <1>1, <1>2, <1>3, OtherCalls DEF CallInv, GoalInv
<1>5. UnmetUntilReached' /\ ReachIsKept'
  BY <1>1, NothingCommitted
<1>6. QED BY <1>4, <1>5 DEF GoalInv

(* A read, or an UPDATE that matches nothing.                               *)
LEMMA ReadGoalInv ==
  ASSUME TypeOK, GoalInv, NEW c \in Calls, Find(c) \/ Skip(c) PROVE GoalInv'
<1>1. PICK x \in {"found", "refused"} : pc' = [pc EXCEPT ![c] = x]
  BY DEF Find, Skip, Goto
<1>2. /\ UNCHANGED <<row, work, lock>>
      /\ \A d \in Calls : d # c => value'[d] = value[d]
  BY DEF Find, Skip, TypeOK
<1>3. (Holding(c) /\ Measured(c) /\ Wrote(c) /\ Landed(c))'
  BY <1>1 DEF TypeOK, Holding, Measured, Wrote, Landed
<1>4. CallInv'
  BY <1>1, <1>2, <1>3, OtherCalls DEF CallInv, GoalInv
<1>5. UnmetUntilReached' /\ ReachIsKept'
  BY <1>1, <1>2, NothingCommitted
<1>6. QED BY <1>4, <1>5 DEF GoalInv

LEMMA CommitGoalInv ==
  ASSUME TypeOK, GoalInv, NEW c \in Calls, Commit(c) PROVE GoalInv'
<1> DEFINE g == c.goal
<1>1. /\ pc' = [pc EXCEPT ![c] = "committed"]
      /\ row' = [row EXCEPT ![g] = work[g]]
      /\ \A h \in Goals : lock'[h] = (IF lock[h] = c THEN NoCall ELSE lock[h])
      /\ UNCHANGED <<day, work, seen, value>>
  BY DEF Commit, Goto, Release
<1>2. g \in Goals /\ Holding(c) /\ Measured(c) /\ Wrote(c) /\ Landed(c)
  BY GoalAssumption DEF GoalInv, CallInv
<1>3. pc[c] = "landed" \/ (pc[c] \in {"written", "started"} /\ ~condition_met(g, value[c]))
  BY DEF Commit, Decides
<1>4. lock[g] = c /\ row'[g] = work[g] /\ \A h \in Goals : h # g => row'[h] = row[h]
  BY <1>1, <1>2, <1>3 DEF Holding, TypeOK
<1>5. CallInv'
  <2>1. \A d \in Calls : d # c /\ lock[d.goal] = d =>
          lock'[d.goal] = d /\ work'[d.goal] = work[d.goal] /\ row'[d.goal] = row[d.goal]
    BY <1>1, <1>4, GoalAssumption
  <2>2. (Holding(c) /\ Measured(c) /\ Wrote(c) /\ Landed(c))'
    BY <1>1 DEF TypeOK, Holding, Measured, Wrote, Landed
  <2>3. QED BY <1>1, <2>1, <2>2, OtherCalls DEF CallInv, GoalInv
<1>6. UnmetUntilReached'
  <2>1. work[g].state \in {"inprogress", "failed"} => ~condition_met(g, work[g].current)
    <3>1. CASE pc[c] = "landed"
      <4>1. c.verb \in Verbs
        BY GoalAssumption
      <4>2. work[g].state = "failed" =>
              row[g].state = "inprogress" /\ work[g].current = row[g].current
        BY <1>2, <3>1, <4>1 DEF Landed, Verbs
      <4>3. work[g].state # "inprogress"
        BY <1>2, <3>1, <4>1 DEF Landed, Verbs
      <4>4. QED BY <1>2, <4>2, <4>3 DEF GoalInv, UnmetUntilReached
    <3>2. CASE pc[c] \in {"written", "started"}
      BY <1>2, <1>3, <3>2 DEF Wrote
    <3>3. QED BY <1>3, <3>1, <3>2
  <2>2. QED BY <1>4, <2>1 DEF GoalInv, UnmetUntilReached, condition_met
<1>7. ReachIsKept'
  <2>1. row[g].state \in {"reached", "canceled"} => work[g].state \in {"reached", "canceled"}
    BY <1>2, <1>3, GoalAssumption DEF Wrote, Landed, Verbs
  <2>2. c.verb \in {"evaluate", "enter", "reach"} /\ condition_met(g, value[c]) =>
          work[g].state = "reached"
    BY <1>2, <1>3 DEF Landed
  <2>3. ASSUME NEW d \in Calls, pc'[d] = "committed",
               d.verb \in {"evaluate", "enter", "reach"}, condition_met(d.goal, value[d])'
        PROVE  row'[d.goal].state \in {"reached", "canceled"}
    <3>1. condition_met(d.goal, value[d])
      BY <1>1, <2>3 DEF condition_met
    <3>2. CASE d = c
      BY <1>4, <2>2, <2>3, <3>1, <3>2
    <3>3. CASE d # c
      <4>1. row[d.goal].state \in {"reached", "canceled"} /\ d.goal \in Goals
        BY <1>1, <2>3, <3>1, <3>3, GoalAssumption DEF GoalInv, ReachIsKept, TypeOK
      <4>2. QED BY <1>4, <2>1, <4>1
    <3>4. QED BY <3>2, <3>3
  <2>4. QED BY <2>3 DEF ReachIsKept
<1>8. QED BY <1>5, <1>6, <1>7 DEF GoalInv

LEMMA NextGoalInv == TypeOK /\ GoalInv /\ [Next]_vars => GoalInv'
<1> SUFFICES ASSUME TypeOK, GoalInv, [Next]_vars PROVE GoalInv'
  OBVIOUS
<1>1. CASE NextDay \/ UNCHANGED vars
  BY <1>1 DEF NextDay, vars, GoalInv, CallInv, Holding, Measured, Measures, Wrote, Landed,
              UnmetUntilReached, ReachIsKept, condition_met
<1>2. ASSUME NEW c \in Calls, Statement(c) \/ Rollback(c) PROVE GoalInv'
  <2>1. CASE Unmet(c) \/ Rollback(c)
    BY <2>1, AbortGoalInv DEF Unmet, Rollback
  <2>2. QED BY <1>2, <2>1, ReadGoalInv, WriteGoalInv, StartGoalInv, LandGoalInv,
               CancelGoalInv, SweepGoalInv, CommitGoalInv DEF Statement
<1>3. QED BY <1>1, <1>2 DEF Next

LEMMA Invariance == Spec => [](TypeOK /\ GoalInv)
  BY InitTypeOK, NextTypeOK, InitGoalInv, NextGoalInv, PTL DEF Spec

(* No running or failed goal holds a value that meets its condition.        *)
THEOREM RunningGoalsAreUnmet == Spec => []UnmetUntilReached
  BY Invariance, PTL DEF GoalInv

(* A goal whose reach was answered is reached for good, or canceled.        *)
THEOREM AnsweredReachIsKept == Spec => []ReachIsKept
  BY Invariance, PTL DEF GoalInv

-----------------------------------------------------------------------------
(* The state component a commit moves, and no other step.                   *)
LEMMA CommitFollows ==
  ASSUME TypeOK, GoalInv, NEW c \in Calls, Commit(c)
  PROVE  \/ row'[c.goal].state = row[c.goal].state
         \/ Machine!transition_to_state(row[c.goal].state, row'[c.goal].state)
         \/ row[c.goal].state = "draft" /\ row'[c.goal].state = "reached"
<1> DEFINE from == row[c.goal].state
           to == row'[c.goal].state
<1>1. Wrote(c) /\ Landed(c) /\ c.verb \in Verbs /\ c.goal \in Goals
  BY GoalAssumption DEF GoalInv, CallInv
<1>2. to = work[c.goal].state
  BY <1>1 DEF Commit, TypeOK
<1>3. pc[c] \in {"written", "started", "landed"}
  BY DEF Commit, Decides
<1>4. /\ Machine!transition_to_state("draft", "inprogress")
      /\ Machine!transition_to_state("draft", "canceled")
      /\ Machine!transition_to_state("inprogress", "reached")
      /\ Machine!transition_to_state("inprogress", "failed")
      /\ Machine!transition_to_state("inprogress", "canceled")
      /\ Machine!transition_to_state("reached", "canceled")
  BY DEF Machine!transition_to_state, Machine!can_transition, Machine!Transitions,
         Machine!target_state
<1>5. \/ to = from
      \/ from = "draft" /\ to \in {"inprogress", "reached", "canceled"}
      \/ from = "inprogress" /\ to \in {"reached", "failed", "canceled"}
      \/ from = "reached" /\ to = "canceled"
  BY <1>1, <1>2, <1>3 DEF Wrote, Landed, Verbs
<1>6. QED BY <1>4, <1>5

LEMMA StepFollows ==
  TypeOK /\ GoalInv /\ [Next]_vars =>
    [\E g \in Goals : Machine!Transition(g)]_([g \in Goals |-> row[g].state])
<1> SUFFICES ASSUME TypeOK, GoalInv, [Next]_vars
             PROVE  [\E g \in Goals : Machine!Transition(g)]_([g \in Goals |-> row[g].state])
  OBVIOUS
<1>1. ASSUME row' = row
      PROVE  [\E g \in Goals : Machine!Transition(g)]_([g \in Goals |-> row[g].state])
  BY <1>1
<1>2. ASSUME NEW c \in Calls, Commit(c)
      PROVE  [\E g \in Goals : Machine!Transition(g)]_([g \in Goals |-> row[g].state])
  <2>1. c.goal \in Goals /\ row'[c.goal].state \in GoalStates
    BY <1>2, NextTypeOK, GoalAssumption DEF TypeOK, Row
  <2>2. [g \in Goals |-> row'[g].state] =
          [[g \in Goals |-> row[g].state] EXCEPT ![c.goal] = row'[c.goal].state]
    BY <1>2, <2>1 DEF Commit, TypeOK
  <2>3. CASE row'[c.goal].state = row[c.goal].state
    <3>1. [g \in Goals |-> row'[g].state] = [g \in Goals |-> row[g].state]
      BY <2>1, <2>2, <2>3
    <3>2. QED BY <3>1
  <2>4. CASE row'[c.goal].state # row[c.goal].state
    <3>1. Machine!Transition(c.goal)
      BY <1>2, <2>1, <2>2, <2>4, CommitFollows DEF Machine!Transition, Machine!GoalStates, GoalStates
    <3>2. QED BY <2>1, <3>1
  <2>5. QED BY <2>3, <2>4
<1>3. ASSUME NEW c \in Calls, (Statement(c) \/ Rollback(c)) /\ ~Commit(c) PROVE row' = row
  BY <1>3
  DEF Statement, Rollback, Abort, Find, WriteCurrent, Start, Land, Unmet, Cancel, Sweep, Skip,
      set_goal_state
<1>4. CASE NextDay \/ UNCHANGED vars
  BY <1>1, <1>4 DEF NextDay, vars
<1>5. QED BY <1>1, <1>2, <1>3, <1>4 DEF Next, Statement

(* The verbs implement the declared goal machine: a committed state only    *)
(* ever moves along it, whatever the writer had read.                       *)
THEOREM GoalsFollowTheMachine == Spec => FollowsTheMachine
<1>1. Init => Machine!MachineInit
  BY DEF Init, Machine!MachineInit
<1>2. QED BY <1>1, Invariance, StepFollows, PTL DEF Spec, FollowsTheMachine, Machine!MachineSpec
=============================================================================
