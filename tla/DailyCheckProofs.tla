--------------------------- MODULE DailyCheckProofs ---------------------------
(***************************************************************************)
(* Proofs about DailyCheck: for any challenges, runs, dates, frequencies   *)
(* and calendars the reports keep their cadence and a run that returns     *)
(* leaves nothing overdue but what another run held.  Both follow from one *)
(* inductive invariant:                                                    *)
(*   - Turns: a claimed challenge is one the run processed, the row its    *)
(*     turn read is still the row, and only processed challenges report;   *)
(*   - Clock: a report leaves next_report_date a whole cadence after it,   *)
(*     and only the stamp of an overtaken start sets it back;              *)
(*   - Handled: what a run processed and committed is not overdue at its   *)
(*     date, whatever other runs commit later.                             *)
(***************************************************************************)
EXTENDS DailyCheck, TLAPS

Turns ==
  /\ \A w \in Runs : pc[w] = "claimed" => turn[w] \in processed[w]
  /\ \A w \in Runs : pc[w] = "claimed" => seen[w] = Row(state[turn[w]], next[turn[w]])
  /\ \A w \in Runs : pc[w] = "idle" => processed[w] = {}
  /\ \A w \in Runs, c \in Challenges :
       <<w, c>> \in reported => c \in processed[w] /\ Frequency[c] # "never"

Clock ==
  \A w \in Runs, c \in Challenges \ rewound :
    <<w, c>> \in reported => next[c] \in Nat /\ Advanced(today[w], Frequency[c]) <= next[c]

(* Run w is between claiming c and the end of c's turn, or failed on it.    *)
AtWork(w, c) == pc[w] \in {"claimed", "failed"} /\ turn[w] = c

Handled ==
  \A w \in Runs, c \in Challenges \ edited :
    c \in processed[w] /\ ~AtWork(w, c) => ~Overdue(c, today[w])

Inv == TypeOK /\ Turns /\ Clock /\ CadenceHolds /\ Handled /\ SweepIsComplete

-----------------------------------------------------------------------------
(* The next report date is a day after the one it advances from.            *)
LEMMA AdvancedIsLater ==
  ASSUME NEW d \in Days, NEW f \in Frequencies \ {"never"}
  PROVE  Advanced(d, f) \in Nat /\ d < Advanced(d, f)
<1>1. d \in Nat
  BY DailyAssumption DEF Days
<1>2. CASE f = "daily"
  BY <1>1, <1>2 DEF Advanced
<1>3. CASE f = "weekly"
  BY <1>1, <1>3, DailyAssumption DEF Advanced
<1>4. CASE f = "monthly"
  <2>1. PICK m \in Firsts : m > d /\ \A n \in Firsts : n > d => m <= n
    BY DailyAssumption
  <2>2. FirstAfter(d, Firsts) \in Firsts /\ FirstAfter(d, Firsts) > d
    BY <2>1 DEF FirstAfter
  <2> QED BY <1>1, <1>4, <2>2, DailyAssumption DEF Advanced
<1>5. CASE f = "yearly"
  <2>1. PICK m \in NewYears : m > d /\ \A n \in NewYears : n > d => m <= n
    BY DailyAssumption
  <2>2. FirstAfter(d, NewYears) \in NewYears /\ FirstAfter(d, NewYears) > d
    BY <2>1 DEF FirstAfter
  <2> QED BY <1>1, <1>5, <2>2, DailyAssumption DEF Advanced
<1> QED BY <1>2, <1>3, <1>4, <1>5 DEF Frequencies

(* A later day has no earlier next report date.                             *)
LEMMA FirstAfterIsMonotone ==
  ASSUME NEW days \in SUBSET Nat, NEW d \in Nat, NEW e \in Nat, d <= e,
         \E m \in days : m > d /\ \A n \in days : n > d => m <= n,
         \E m \in days : m > e /\ \A n \in days : n > e => m <= n
  PROVE  FirstAfter(d, days) <= FirstAfter(e, days)
<1>1. /\ FirstAfter(d, days) \in days
      /\ \A n \in days : n > d => FirstAfter(d, days) <= n
  BY DEF FirstAfter
<1>2. FirstAfter(e, days) \in days /\ FirstAfter(e, days) > e
  BY DEF FirstAfter
<1>3. FirstAfter(e, days) \in Nat
  BY <1>2
<1>4. FirstAfter(e, days) > d
  BY <1>2, <1>3
<1> QED BY <1>1, <1>2, <1>4

LEMMA AdvancedIsMonotone ==
  ASSUME NEW d \in Days, NEW e \in Days, d <= e, NEW f \in Frequencies \ {"never"}
  PROVE  Advanced(d, f) <= Advanced(e, f)
<1>1. d \in Nat /\ e \in Nat
  BY DailyAssumption DEF Days
<1>2. CASE f = "daily"
  BY <1>1, <1>2 DEF Advanced
<1>3. CASE f = "weekly"
  BY <1>1, <1>3, DailyAssumption DEF Advanced
<1>4. CASE f = "monthly"
  <2>1. FirstAfter(d, Firsts) <= FirstAfter(e, Firsts)
    BY <1>1, DailyAssumption, FirstAfterIsMonotone
  <2> QED BY <1>4, <2>1 DEF Advanced
<1>5. CASE f = "yearly"
  <2>1. FirstAfter(d, NewYears) <= FirstAfter(e, NewYears)
    BY <1>1, DailyAssumption, FirstAfterIsMonotone
  <2> QED BY <1>5, <2>1 DEF Advanced
<1> QED BY <1>2, <1>3, <1>4, <1>5 DEF Frequencies

(* What a turn leaves its challenge in is not overdue at the turn's date,   *)
(* and a challenge that was not overdue at a date is not afterwards.        *)
LEMMA TurnSettles ==
  ASSUME Inv, NEW w \in Runs, NEW c \in Challenges, pc[w] = "claimed", turn[w] = c,
         state' = [state EXCEPT ![c] = Swept(w)]
  PROVE  /\ state' \in [Challenges -> {"draft", "inprogress", "done"}]
         /\ \A d \in Days : d <= today[w] => ~Overdue(c, d)'
         /\ \A d \in Days : ~Overdue(c, d) => ~Overdue(c, d)'
         /\ \A e \in Challenges \ {c}, d \in Days : Overdue(e, d)' <=> Overdue(e, d)
<1>1. seen[w].state = state[c] /\ today[w] \in Nat /\ today[w] \in Days
  BY DailyAssumption DEF Inv, Turns, TypeOK, Row, Days
<1>2. state[c] \in {"draft", "inprogress", "done"} /\ state \in [Challenges -> {"draft", "inprogress", "done"}]
  BY <1>1 DEF Inv, TypeOK
<1>3. state'[c] = Swept(w) /\ \A e \in Challenges \ {c} : state'[e] = state[e]
  BY <1>1, <1>2
<1>4. Swept(w) \in {"draft", "inprogress", "done"}
  BY <1>1, <1>2 DEF Swept, Started
<1>5. Start[c] \in Nat \cup {Null} /\ End[c] \in Nat \cup {Null} /\ Null \notin Nat
  BY <1>1, DailyAssumption
<1>6. \/ state'[c] = "draft" /\ ~Arrived(c, today[w])
      \/ state'[c] = "inprogress" /\ ~Passed(c, today[w])
      \/ state'[c] = "done"
  <2>1. Started(w) = "draft" => ~Arrived(c, today[w])
    BY <1>1, <1>2 DEF Started, Arrived
  <2>2. Swept(w) = "inprogress" => ~Passed(c, today[w])
    BY <1>1, <1>2 DEF Swept, Passed
  <2>3. Swept(w) = "draft" => Started(w) = "draft"
    BY DEF Swept
  <2> QED BY <1>3, <1>4, <2>1, <2>2, <2>3
<1>7. ASSUME NEW d \in Days, d <= today[w] PROVE ~Overdue(c, d)'
  <2>1. d \in Nat
    BY DailyAssumption DEF Days
  <2> QED BY <1>1, <1>5, <1>6, <1>7, <2>1 DEF Overdue, Arrived, Passed
<1>8. ASSUME NEW d \in Days, ~Overdue(c, d) PROVE ~Overdue(c, d)'
  <2>1. d \in Nat
    BY DailyAssumption DEF Days
  <2>2. CASE d <= today[w]
    BY <1>7, <2>2
  <2>3. CASE today[w] < d /\ state[c] = "draft"
    <3>1. Start[c] = Null \/ Start[c] > d
      BY <1>5, <1>8, <2>1, <2>3 DEF Overdue
    <3>2. ~Arrived(c, today[w])
      BY <1>1, <1>5, <2>1, <2>3, <3>1 DEF Arrived
    <3>3. state'[c] = "draft"
      BY <1>1, <1>3, <2>3, <3>2 DEF Swept, Started
    <3> QED BY <1>5, <2>1, <3>1, <3>3 DEF Overdue
  <2>4. CASE today[w] < d /\ state[c] = "inprogress"
    <3>1. state'[c] \in {"inprogress", "done"}
      BY <1>1, <1>3, <2>4 DEF Swept, Started
    <3> QED BY <1>8, <2>4, <3>1 DEF Overdue
  <2>5. CASE state[c] = "done"
    <3>1. state'[c] = "done"
      BY <1>1, <1>3, <2>5 DEF Swept, Started
    <3> QED BY <3>1 DEF Overdue
  <2>6. d <= today[w] \/ today[w] < d
    BY <1>1, <2>1
  <2> QED BY <1>2, <2>2, <2>3, <2>4, <2>5, <2>6
<1>9. state' \in [Challenges -> {"draft", "inprogress", "done"}]
  BY <1>2, <1>4
<1> QED BY <1>3, <1>7, <1>8, <1>9 DEF Overdue

-----------------------------------------------------------------------------
LEMMA InitInv == Init => Inv
  BY DailyAssumption
  DEF Init, Inv, TypeOK, OpenOK, Turns, Clock, CadenceHolds, Handled, SweepIsComplete, Row, Days, Ended

(* Two runs are never at work on one challenge.                             *)
LEMMA OneRunHolds ==
  ASSUME Inv, NEW v \in Runs, NEW w \in Runs \ {v}, pc[v] = "claimed", pc[w] = "claimed"
  PROVE  turn[v] # turn[w]
<1>1. turn[v] \in Challenges /\ turn[w] \in Challenges
  BY DEF Inv, TypeOK, Turns
<1>2. lock[turn[v]] = v /\ lock[turn[w]] = w
  BY <1>1 DEF Inv, TypeOK
<1> QED BY <1>2

(* What the steps of a verb called by hand leave alone, and what its commit *)
(* writes: only a start stamps, over no later report or as a setting back.  *)
LEMMA CommitWrites ==
  ASSUME Inv, NEW e \in open, CommitVerb(e)
  PROVE  /\ UNCHANGED <<day, edits, edited, lock, pc, today, processed, turn, seen, told, reported>>
         /\ lock[e.on] = Null
         /\ state' = [state EXCEPT ![e.on] = To[e.verb]]
         /\ \/ UNCHANGED <<next, rewound>>
            \/ /\ Frequency[e.on] # "never"
               /\ next' = [next EXCEPT ![e.on] = Advanced(e.today, Frequency[e.on])]
               /\ rewound' = IF Overtaken(e) THEN rewound \cup {e.on} ELSE rewound
<1>1. lock[e.on] = Null
  BY DEF Inv, TypeOK, OpenOK, CommitVerb
<1>2. CASE Stamps(e)
  BY <1>1, <1>2 DEF CommitVerb, Stamps
<1>3. CASE ~Stamps(e)
  BY <1>1, <1>3 DEF CommitVerb
<1> QED BY <1>2, <1>3

LEMMA VerbWrites ==
  ASSUME Inv, NEW e \in open, Verb(e)
  PROVE  /\ UNCHANGED <<day, edits, edited, lock, pc, today, processed, turn, seen, told, reported>>
         /\ e.on \in edited /\ e.on \in Challenges
         /\ \/ UNCHANGED <<state, next, rewound>>
            \/ /\ lock[e.on] = Null
               /\ state' = [state EXCEPT ![e.on] = To[e.verb]]
               /\ \/ UNCHANGED <<next, rewound>>
                  \/ /\ Frequency[e.on] # "never"
                     /\ next' = [next EXCEPT ![e.on] = Advanced(e.today, Frequency[e.on])]
                     /\ rewound' = IF Overtaken(e) THEN rewound \cup {e.on} ELSE rewound
<1>1. e.on \in edited /\ e.on \in Challenges
  BY DEF Inv, TypeOK, OpenOK
<1>2. CASE ReferTo(e)
  BY <1>1, <1>2 DEF ReferTo
<1>3. CASE WriteState(e)
  BY <1>1, <1>3 DEF WriteState
<1>4. CASE AbandonVerb(e)
  BY <1>1, <1>4 DEF AbandonVerb
<1>5. CASE CommitVerb(e)
  BY <1>1, <1>5, CommitWrites
<1> QED BY <1>2, <1>3, <1>4, <1>5 DEF Verb

LEMMA NextOpen == Inv /\ [Next]_vars => OpenOK'
<1> SUFFICES ASSUME Inv, [Next]_vars PROVE OpenOK'
  OBVIOUS
<1>1. OpenOK /\ lock \in [Challenges -> Runs \cup {Null}] /\ day \in Days
  BY DEF Inv, TypeOK
<1>2. CASE UNCHANGED <<open, edited, lock>>
  BY <1>1, <1>2 DEF OpenOK
<1>3. ASSUME NEW c \in Challenges, BeginVerb(c) PROVE OpenOK'
  <2>1. edits \in 0..MaxEdits
    BY DEF Inv, TypeOK
  <2> QED BY <1>1, <1>3, <2>1 DEF BeginVerb, Call, VerbCalls, OpenOK
<1>4. ASSUME NEW e \in open, NEW step \in {"read", "referred", "wrote"}, Proceed(e, step),
             lock[e.on] = Null, UNCHANGED <<edited, lock>>
      PROVE  OpenOK'
  <2>1. [e EXCEPT !.step = step] \in VerbCalls /\ [e EXCEPT !.step = step].on = e.on
    BY <1>1 DEF OpenOK, VerbCalls
  <2> QED BY <1>1, <1>4, <2>1 DEF OpenOK, Proceed
<1>5. ASSUME NEW e \in open, Verb(e) PROVE OpenOK'
  <2>1. CASE ReferTo(e)
    BY <1>4, <2>1 DEF ReferTo
  <2>2. CASE WriteState(e)
    BY <1>4, <2>2 DEF WriteState
  <2>3. CASE AbandonVerb(e)
    BY <1>1, <2>3 DEF AbandonVerb, OpenOK
  <2>4. CASE CommitVerb(e)
    BY <1>1, <2>4 DEF CommitVerb, OpenOK
  <2> QED BY <1>5, <2>1, <2>2, <2>3, <2>4 DEF Verb
<1>6. ASSUME NEW w \in Runs, Claim(w) PROVE OpenOK'
  <2>1. PICK c \in Challenges : lock' = [lock EXCEPT ![c] = w] /\ ~Locked(c)
    BY <1>6 DEF Claim, Claimable
  <2> QED BY <1>1, <1>6, <2>1 DEF Claim, Locked, OpenOK
<1>7. ASSUME NEW w \in Runs, NEW step, Leave(w, step), UNCHANGED <<open, edited>> PROVE OpenOK'
  BY <1>1, <1>7 DEF Leave, OpenOK, VerbCalls
<1>8. ASSUME NEW w \in Runs, CommitReport(w) \/ CommitSilent(w) \/ Fail(w) PROVE OpenOK'
  BY <1>7, <1>8 DEF CommitReport, CommitSilent, Fail
<1> QED BY <1>2, <1>3, <1>5, <1>6, <1>8 DEF Next, Step, Midnight, Begin, Return, vars

LEMMA NextTypeOK == Inv /\ [Next]_vars => TypeOK'
<1> SUFFICES ASSUME Inv, [Next]_vars PROVE TypeOK'
  OBVIOUS
<1>0. OpenOK'
  BY NextOpen
<1> USE DailyAssumption DEF Inv
<1>1. CASE Midnight
  BY <1>0, <1>1 DEF Midnight, TypeOK, Days
<1>2. ASSUME NEW c \in Challenges, BeginVerb(c) PROVE TypeOK'
  BY <1>0, <1>2 DEF BeginVerb, TypeOK
<1>a. ASSUME NEW e \in open, Verb(e) PROVE TypeOK'
  <2>1. e.verb \in DOMAIN From /\ e.today \in Days
    BY DEF TypeOK, OpenOK, VerbCalls
  <2>2. state' \in [Challenges -> {"draft", "inprogress", "done"}]
    BY <1>a, <2>1, VerbWrites DEF TypeOK, To, From
  <2>3. Frequency[e.on] # "never" => Advanced(e.today, Frequency[e.on]) \in Nat
    BY <1>a, <2>1, VerbWrites, AdvancedIsLater
  <2>4. next' \in [Challenges -> Nat \cup {Null}] /\ rewound' \subseteq Challenges
    <3>1. CASE UNCHANGED <<next, rewound>>
      BY <3>1 DEF TypeOK
    <3>2. CASE ~UNCHANGED <<next, rewound>>
      <4>1. /\ e.on \in Challenges /\ Frequency[e.on] # "never"
            /\ next' = [next EXCEPT ![e.on] = Advanced(e.today, Frequency[e.on])]
            /\ rewound' = IF Overtaken(e) THEN rewound \cup {e.on} ELSE rewound
        BY <1>a, <3>2, VerbWrites
      <4>2. next' \in [Challenges -> Nat \cup {Null}]
        BY <2>3, <4>1 DEF TypeOK
      <4>3. rewound' \subseteq Challenges
        <5>1. rewound \subseteq Challenges
          BY DEF TypeOK
        <5>2. CASE Overtaken(e)
          BY <4>1, <5>1, <5>2
        <5>3. CASE ~Overtaken(e)
          BY <4>1, <5>1, <5>3
        <5> QED BY <5>2, <5>3
      <4> QED BY <4>2, <4>3
    <3> QED BY <3>1, <3>2
  <2>5. UNCHANGED <<day, edits, edited, lock, pc, today, processed, turn, seen, told, reported>>
    BY <1>a, VerbWrites
  <2> QED BY <1>0, <2>2, <2>4, <2>5 DEF TypeOK
<1>3. ASSUME NEW w \in Runs, Begin(w) PROVE TypeOK'
  BY <1>0, <1>3 DEF Begin, TypeOK, Goto, Ended
<1>4. ASSUME NEW w \in Runs, Claim(w) PROVE TypeOK'
  BY <1>0, <1>4 DEF Claim, Claimable, Locked, TypeOK, Goto, Row, Ended
<1>5. ASSUME NEW w \in Runs, Return(w) PROVE TypeOK'
  BY <1>0, <1>5 DEF Return, TypeOK, Goto, Ended
<1>6. ASSUME NEW w \in Runs, CommitReport(w) PROVE TypeOK'
  <2>1. PICK c \in Challenges : turn[w] = c
    BY <1>6 DEF CommitReport, TypeOK, Turns
  <2>2. state' \in [Challenges -> {"draft", "inprogress", "done"}]
    BY <1>6, <2>1, TurnSettles DEF CommitReport
  <2>3. Advanced(today[w], Frequency[c]) \in Nat
    BY <1>6, <2>1, AdvancedIsLater DEF CommitReport, ReportDue, TypeOK
  <2>4. /\ lock' = [lock EXCEPT ![c] = Null] /\ lock \in [Challenges -> Runs \cup {Null}]
        /\ pc' = [pc EXCEPT ![w] = "looping"] /\ pc \in [Runs -> {"idle", "looping", "claimed"} \cup Ended]
        /\ pc[w] = "claimed"
    BY <1>6, <2>1 DEF CommitReport, Leave, Goto, TypeOK
  <2>5. \A d \in Challenges, v \in Runs :
          lock'[d] = v <=> pc'[v] = "claimed" /\ turn'[v] = d
    BY <1>6, <2>1, <2>4 DEF CommitReport, TypeOK
  <2>6. ASSUME NEW v \in Runs
        PROVE  told'[v] = IF pc'[v] = "failed" THEN {}
                          ELSE {d \in Challenges : <<v, d>> \in reported'}
    <3>1. /\ told' = [told EXCEPT ![w] = told[w] \cup {c}] /\ told \in [Runs -> SUBSET Challenges]
          /\ reported' = reported \cup {<<w, c>>}
          /\ told[v] = IF pc[v] = "failed" THEN {} ELSE {d \in Challenges : <<v, d>> \in reported}
      BY <1>6, <2>1 DEF CommitReport, TypeOK
    <3>2. CASE v = w
      <4>1. told'[w] = {d \in Challenges : <<w, d>> \in reported} \cup {c}
        BY <2>4, <3>1, <3>2
      <4>2. {d \in Challenges : <<w, d>> \in reported'} = {d \in Challenges : <<w, d>> \in reported} \cup {c}
        BY <3>1
      <4> QED BY <2>4, <3>2, <4>1, <4>2
    <3>3. CASE v # w
      <4>1. \A d \in Challenges : <<v, d>> \in reported' <=> <<v, d>> \in reported
        BY <3>1, <3>3
      <4> QED BY <2>4, <3>1, <3>3, <4>1
    <3> QED BY <3>2, <3>3
  <2>7. told' \in [Runs -> SUBSET Challenges] /\ reported' \subseteq Runs \X Challenges
    BY <1>6, <2>1 DEF CommitReport, TypeOK
  <2>8. next' \in [Challenges -> Nat \cup {Null}] /\ lock' \in [Challenges -> Runs \cup {Null}]
          /\ pc' \in [Runs -> {"idle", "looping", "claimed"} \cup Ended]
    BY <1>6, <2>1, <2>3, <2>4 DEF CommitReport, TypeOK
  <2>9. UNCHANGED <<day, edits, edited, open, rewound, today, processed, turn>>
    BY <1>6 DEF CommitReport
  <2>s. seen' \in [Runs -> [state : {"draft", "inprogress", "done"}, next : Nat \cup {Null}]]
    BY <1>6 DEF CommitReport, Leave, Row, TypeOK
  <2> QED BY <1>0, <2>2, <2>5, <2>6, <2>7, <2>8, <2>9, <2>s DEF TypeOK
<1>7. ASSUME NEW w \in Runs, CommitSilent(w) PROVE TypeOK'
  <2>1. PICK c \in Challenges : turn[w] = c
    BY <1>7 DEF CommitSilent, TypeOK, Turns
  <2>2. state' \in [Challenges -> {"draft", "inprogress", "done"}]
    BY <1>7, <2>1, TurnSettles DEF CommitSilent
  <2> QED BY <1>0, <1>7, <2>1, <2>2 DEF CommitSilent, Leave, Row, TypeOK, Goto, Ended
<1>8. ASSUME NEW w \in Runs, Fail(w) PROVE TypeOK'
  <2>1. PICK c \in Challenges : turn[w] = c
    BY <1>8 DEF Fail, TypeOK, Turns
  <2>4. /\ lock' = [lock EXCEPT ![c] = Null] /\ lock \in [Challenges -> Runs \cup {Null}]
        /\ pc' = [pc EXCEPT ![w] = "failed"] /\ pc \in [Runs -> {"idle", "looping", "claimed"} \cup Ended]
        /\ pc[w] = "claimed"
    BY <1>8, <2>1 DEF Fail, Leave, Goto, TypeOK
  <2>5. \A d \in Challenges, v \in Runs :
          lock'[d] = v <=> pc'[v] = "claimed" /\ turn'[v] = d
    BY <1>8, <2>1, <2>4 DEF Fail, TypeOK
  <2>6. ASSUME NEW v \in Runs
        PROVE  told'[v] = IF pc'[v] = "failed" THEN {}
                          ELSE {d \in Challenges : <<v, d>> \in reported'}
    <3>1. /\ told' = [told EXCEPT ![w] = {}] /\ told \in [Runs -> SUBSET Challenges]
          /\ reported' = reported
          /\ told[v] = IF pc[v] = "failed" THEN {} ELSE {d \in Challenges : <<v, d>> \in reported}
      BY <1>8 DEF Fail, TypeOK
    <3>2. CASE v = w
      BY <2>4, <3>1, <3>2
    <3>3. CASE v # w
      BY <2>4, <3>1, <3>3
    <3> QED BY <3>2, <3>3
  <2>7. told' \in [Runs -> SUBSET Challenges] /\ lock' \in [Challenges -> Runs \cup {Null}]
          /\ pc' \in [Runs -> {"idle", "looping", "claimed"} \cup Ended]
    BY <1>8, <2>1, <2>4 DEF Fail, TypeOK, Ended
  <2>8. UNCHANGED <<day, edits, edited, open, rewound, state, next, today, processed, turn, reported>>
    BY <1>8 DEF Fail
  <2>s. seen' \in [Runs -> [state : {"draft", "inprogress", "done"}, next : Nat \cup {Null}]]
    BY <1>8 DEF Fail, Leave, Row, TypeOK
  <2> QED BY <1>0, <2>5, <2>6, <2>7, <2>8, <2>s DEF TypeOK
<1>9. CASE UNCHANGED vars
  BY <1>0, <1>9 DEF vars, TypeOK
<1> QED BY <1>1, <1>2, <1>3, <1>4, <1>5, <1>6, <1>7, <1>8, <1>9, <1>a DEF Next, Step

LEMMA NextTurns == Inv /\ [Next]_vars => Turns'
<1> SUFFICES ASSUME Inv, [Next]_vars PROVE Turns'
  OBVIOUS
<1> USE DailyAssumption DEF Inv
<1>1. CASE Midnight
  BY <1>1 DEF Midnight, Turns
<1>2. ASSUME NEW c \in Challenges, BeginVerb(c) PROVE Turns'
  BY <1>2 DEF BeginVerb, Turns
<1>a. ASSUME NEW e \in open, Verb(e) PROVE Turns'
  <2>1. ASSUME lock[e.on] = Null, NEW w \in Runs, pc[w] = "claimed" PROVE turn[w] # e.on
    <3>1. turn[w] \in Challenges
      BY <2>1 DEF Turns, TypeOK
    <3>2. lock[turn[w]] = w
      BY <2>1, <3>1 DEF TypeOK
    <3> QED BY <2>1, <3>2, DailyAssumption
  <2>2. \A c \in Challenges \ {e.on} : state'[c] = state[c] /\ next'[c] = next[c]
    BY <1>a, VerbWrites DEF TypeOK
  <2>3. UNCHANGED <<pc, processed, turn, seen, reported>>
    BY <1>a, VerbWrites
  <2>4. UNCHANGED <<state, next>> \/ lock[e.on] = Null
    BY <1>a, VerbWrites
  <2>5. \A w \in Runs : pc[w] = "claimed" => turn[w] \in Challenges
    BY DEF Turns, TypeOK
  <2>6. \A w \in Runs : pc[w] = "claimed" => seen[w] = Row(state'[turn[w]], next'[turn[w]])
    BY <2>1, <2>2, <2>4, <2>5 DEF Turns
  <2> QED BY <2>3, <2>6 DEF Turns
<1>3. ASSUME NEW w \in Runs, Begin(w) PROVE Turns'
  BY <1>3 DEF Begin, Turns, TypeOK, Goto
<1>4. ASSUME NEW w \in Runs, Claim(w) PROVE Turns'
  BY <1>4 DEF Claim, Claimable, Locked, Turns, TypeOK, Goto
<1>5. ASSUME NEW w \in Runs, Return(w) PROVE Turns'
  BY <1>5 DEF Return, Turns, TypeOK, Goto
<1>6. ASSUME NEW w \in Runs, CommitReport(w) PROVE Turns'
  <2>1. pc[w] = "claimed" /\ turn[w] \in Challenges
    BY <1>6 DEF CommitReport, TypeOK, Turns
  <2>2. \A v \in Runs \ {w} : pc[v] = "claimed" => turn[v] # turn[w]
    BY <2>1, OneRunHolds
  <2> QED BY <1>6, <2>1, <2>2 DEF CommitReport, ReportDue, Leave, Turns, TypeOK, Goto, Row
<1>7. ASSUME NEW w \in Runs, CommitSilent(w) PROVE Turns'
  <2>1. pc[w] = "claimed" /\ turn[w] \in Challenges
    BY <1>7 DEF CommitSilent, TypeOK, Turns
  <2>2. \A v \in Runs \ {w} : pc[v] = "claimed" => turn[v] # turn[w]
    BY <2>1, OneRunHolds
  <2> QED BY <1>7, <2>1, <2>2 DEF CommitSilent, Leave, Turns, TypeOK, Goto, Row
<1>8. ASSUME NEW w \in Runs, Fail(w) PROVE Turns'
  BY <1>8 DEF Fail, Leave, Turns, TypeOK, Goto, Row
<1>9. CASE UNCHANGED vars
  BY <1>9 DEF vars, Turns
<1> QED BY <1>1, <1>2, <1>3, <1>4, <1>5, <1>6, <1>7, <1>8, <1>9, <1>a DEF Next, Step

(* A report is due a cadence after every earlier one and puts the clock a   *)
(* cadence after itself.                                                    *)
LEMMA NextCadence == Inv /\ [Next]_vars => Clock' /\ CadenceHolds'
<1> SUFFICES ASSUME Inv, [Next]_vars PROVE Clock' /\ CadenceHolds'
  OBVIOUS
<1> USE DailyAssumption DEF Inv
<1>1. CASE UNCHANGED <<next, today, reported, rewound>>
  BY <1>1 DEF Clock, CadenceHolds
<1>2. ASSUME NEW w \in Runs, Begin(w) PROVE Clock' /\ CadenceHolds'
  <2>1. \A v \in Runs, c \in Challenges : <<v, c>> \in reported => v # w
    BY <1>2 DEF Begin, Turns
  <2>2. \A v \in Runs : v # w => today'[v] = today[v]
    BY <1>2 DEF Begin, TypeOK
  <2> QED BY <1>2, <2>1, <2>2 DEF Begin, Clock, CadenceHolds
<1>3. ASSUME NEW w \in Runs, CommitReport(w) PROVE Clock' /\ CadenceHolds'
  <2>1. PICK c \in Challenges : turn[w] = c
    BY <1>3 DEF CommitReport, TypeOK, Turns
  <2>2. Frequency[c] \in Frequencies \ {"never"} /\ today[w] \in Days /\ today[w] \in Nat
    BY <1>3, <2>1 DEF CommitReport, ReportDue, TypeOK, Days
  <2>3. Advanced(today[w], Frequency[c]) \in Nat /\ today[w] < Advanced(today[w], Frequency[c])
    BY <2>2, AdvancedIsLater
  <2>4. seen[w].next = next[c]
    <3>1. seen[w] = Row(state[c], next[c])
      BY <1>3, <2>1 DEF CommitReport, Turns
    <3> QED BY <3>1 DEF Row
  <2>5. next[c] \in Nat => next[c] <= today[w]
    BY <1>3, <2>1, <2>4 DEF CommitReport, ReportDue
  <2>6. /\ next' = [next EXCEPT ![c] = Advanced(today[w], Frequency[c])]
        /\ reported' = reported \cup {<<w, c>>}
        /\ today' = today /\ rewound' = rewound
    BY <1>3, <2>1 DEF CommitReport
  <2>7. ASSUME c \notin rewound, NEW v \in Runs, <<v, c>> \in reported
        PROVE  Advanced(today[v], Frequency[c]) <= today[w]
    <3>1. today[v] \in Days
      BY DEF TypeOK
    <3>2. Advanced(today[v], Frequency[c]) \in Nat
      BY <2>2, <3>1, AdvancedIsLater
    <3>3. next[c] \in Nat /\ Advanced(today[v], Frequency[c]) <= next[c]
      BY <2>7 DEF Clock
    <3> QED BY <2>2, <2>5, <3>2, <3>3
  <2>8. Clock'
    <3> SUFFICES ASSUME NEW v \in Runs, NEW e \in Challenges \ rewound, <<v, e>> \in reported'
                 PROVE  next'[e] \in Nat /\ Advanced(today[v], Frequency[e]) <= next'[e]
      BY <2>6 DEF Clock
    <3>1. CASE e # c
      BY <2>6, <3>1 DEF Clock, TypeOK
    <3>2. CASE e = c /\ v = w
      BY <2>3, <2>6, <3>2 DEF TypeOK
    <3>3. CASE e = c /\ v # w
      <4>1. <<v, c>> \in reported
        BY <2>6, <3>3
      <4>2. today[v] \in Days
        BY DEF TypeOK
      <4>3. Advanced(today[v], Frequency[c]) \in Nat
        BY <2>2, <4>2, AdvancedIsLater
      <4> QED BY <2>2, <2>3, <2>6, <2>7, <3>3, <4>1, <4>3 DEF TypeOK
    <3> QED BY <3>1, <3>2, <3>3
  <2>9. CadenceHolds'
    BY <2>6, <2>7 DEF CadenceHolds
  <2> QED BY <2>8, <2>9
<1>4. ASSUME NEW e \in open, Verb(e) PROVE Clock' /\ CadenceHolds'
  <2>1. CASE UNCHANGED <<next, today, reported, rewound>>
    BY <1>1, <2>1
  <2>2. CASE /\ UNCHANGED <<today, reported>>
             /\ e.on \in Challenges
             /\ Frequency[e.on] # "never"
             /\ next' = [next EXCEPT ![e.on] = Advanced(e.today, Frequency[e.on])]
             /\ rewound' = IF Overtaken(e) THEN rewound \cup {e.on} ELSE rewound
    <3>1. rewound \subseteq rewound'
      BY <2>2
    <3>2. CadenceHolds'
      BY <2>2, <3>1 DEF CadenceHolds
    <3>3. ASSUME NEW w \in Runs, NEW c \in Challenges \ rewound', <<w, c>> \in reported
          PROVE  next'[c] \in Nat /\ Advanced(today[w], Frequency[c]) <= next'[c]
      <4>1. c \in Challenges \ rewound /\ next \in [Challenges -> Nat \cup {Null}]
        BY <3>1 DEF TypeOK
      <4>2. CASE c # e.on
        BY <2>2, <3>3, <4>1, <4>2 DEF Clock
      <4>3. CASE c = e.on
        <5>a. ~Overtaken(e)
          BY <2>2, <4>3
        <5>b. e.today \in Days /\ today[w] \in Days
          BY DEF TypeOK, OpenOK, VerbCalls
        <5>1. ~Overtaken(e) /\ today[w] \in Days /\ e.today \in Days /\ Frequency[c] \in Frequencies \ {"never"}
          BY <2>2, <4>3, <5>a, <5>b, DailyAssumption
        <5>2. today[w] <= e.today
          BY <3>3, <4>3, <5>1, DailyAssumption DEF Overtaken, Days
        <5>3. Advanced(today[w], Frequency[c]) <= Advanced(e.today, Frequency[c])
          BY <5>1, <5>2, AdvancedIsMonotone
        <5>4. Advanced(e.today, Frequency[c]) \in Nat
          BY <5>1, AdvancedIsLater
        <5> QED BY <2>2, <4>1, <4>3, <5>3, <5>4
      <4> QED BY <4>2, <4>3
    <3> QED BY <2>2, <3>2, <3>3 DEF Clock
  <2> QED BY <1>4, <2>1, <2>2, VerbWrites
<1> QED BY <1>1, <1>2, <1>3, <1>4
        DEF Next, Step, vars, Midnight, BeginVerb, Claim, Return, CommitSilent, Fail

-----------------------------------------------------------------------------
LEMMA NextHandled == Inv /\ [Next]_vars => Handled'
<1> SUFFICES ASSUME Inv, [Next]_vars PROVE Handled'
  OBVIOUS
<1> USE DailyAssumption DEF Inv
<1>1. CASE Midnight
  BY <1>1 DEF Midnight, Handled, AtWork, Overdue
<1>2. ASSUME NEW e \in Challenges, BeginVerb(e) PROVE Handled'
  BY <1>2 DEF BeginVerb, Handled, AtWork, Overdue
<1>a. ASSUME NEW e \in open, Verb(e) PROVE Handled'
  <2>1. \A c \in Challenges \ edited : state'[c] = state[c]
    BY <1>a, VerbWrites DEF TypeOK
  <2>2. UNCHANGED <<edited, pc, today, processed, turn>>
    BY <1>a, VerbWrites
  <2> QED BY <2>1, <2>2 DEF Handled, AtWork, Overdue
<1>3. ASSUME NEW v \in Runs, Begin(v) PROVE Handled'
  BY <1>3 DEF Begin, Goto, Handled, AtWork, Overdue, Turns, TypeOK
<1>4. ASSUME NEW v \in Runs, Claim(v) PROVE Handled'
  <2>1. PICK d \in Challenges : /\ processed' = [processed EXCEPT ![v] = processed[v] \cup {d}]
                              /\ turn' = [turn EXCEPT ![v] = d]
    BY <1>4 DEF Claim, Claimable
  <2>2. pc[v] = "looping" /\ pc' = [pc EXCEPT ![v] = "claimed"] /\ UNCHANGED <<edited, state, today>>
    BY <1>4 DEF Claim, Goto
  <2> SUFFICES ASSUME NEW w \in Runs, NEW c \in Challenges \ edited, c \in processed'[w], ~AtWork(w, c)'
               PROVE  ~Overdue(c, today[w])'
    BY <2>2 DEF Handled
  <2>3. c \in processed[w] /\ ~AtWork(w, c)
    BY <2>1, <2>2 DEF AtWork, TypeOK
  <2> QED BY <2>2, <2>3 DEF Handled, Overdue
<1>5. ASSUME NEW v \in Runs, Return(v) PROVE Handled'
  BY <1>5 DEF Return, Goto, Handled, AtWork, Overdue, TypeOK
<1>6. ASSUME NEW v \in Runs, CommitReport(v) PROVE Handled'
  <2>1. PICK d \in Challenges : turn[v] = d
    BY <1>6 DEF CommitReport, TypeOK, Turns
  <2>2. /\ pc[v] = "claimed" /\ today[v] \in Days /\ today[v] \in Nat
        /\ state' = [state EXCEPT ![d] = Swept(v)]
    BY <1>6, <2>1 DEF CommitReport, TypeOK, Days
  <2> SUFFICES ASSUME NEW w \in Runs, NEW c \in Challenges \ edited, c \in processed[w], ~AtWork(w, c)'
               PROVE  ~Overdue(c, today[w])'
    BY <1>6 DEF CommitReport, Handled
  <2>3. today' = today /\ today[w] \in Days
    BY <1>6 DEF CommitReport, TypeOK
  <2>4. /\ \A n \in Days : n <= today[v] => ~Overdue(d, n)'
        /\ \A n \in Days : ~Overdue(d, n) => ~Overdue(d, n)'
        /\ \A e \in Challenges \ {d}, n \in Days : Overdue(e, n)' <=> Overdue(e, n)
    BY <2>1, <2>2, TurnSettles
  <2>5. \A e \in Challenges : Overdue(e, today[w])' <=> \E n \in Days : n = today[w] /\ Overdue(e, n)'
    BY <2>3 DEF Overdue
  <2>6. CASE w = v /\ c = d
    <3>1. \A n \in Days : n = today[w] => n <= today[v]
      BY <2>2, <2>6
    <3>2. \A n \in Days : n = today[w] => ~Overdue(c, n)'
      BY <2>4, <2>6, <3>1
    <3> QED BY <2>5, <3>2
  <2>7. CASE ~(w = v /\ c = d)
    <3>1. ~AtWork(w, c)
      BY <1>6, <2>1, <2>2, <2>7 DEF CommitReport, Leave, AtWork, TypeOK, Goto
    <3>2. ~Overdue(c, today[w])
      BY <3>1 DEF Handled
    <3>3. CASE c = d
      BY <2>3, <2>4, <2>5, <3>2, <3>3
    <3>4. CASE c # d
      BY <2>3, <2>4, <2>5, <3>2, <3>4
    <3> QED BY <3>3, <3>4
  <2> QED BY <2>6, <2>7
<1>7. ASSUME NEW v \in Runs, CommitSilent(v) PROVE Handled'
  <2>1. PICK d \in Challenges : turn[v] = d
    BY <1>7 DEF CommitSilent, TypeOK, Turns
  <2>2. /\ pc[v] = "claimed" /\ today[v] \in Days /\ today[v] \in Nat
        /\ state' = [state EXCEPT ![d] = Swept(v)]
    BY <1>7, <2>1 DEF CommitSilent, TypeOK, Days
  <2> SUFFICES ASSUME NEW w \in Runs, NEW c \in Challenges \ edited, c \in processed[w], ~AtWork(w, c)'
               PROVE  ~Overdue(c, today[w])'
    BY <1>7 DEF CommitSilent, Handled
  <2>3. today' = today /\ today[w] \in Days
    BY <1>7 DEF CommitSilent, TypeOK
  <2>4. /\ \A n \in Days : n <= today[v] => ~Overdue(d, n)'
        /\ \A n \in Days : ~Overdue(d, n) => ~Overdue(d, n)'
        /\ \A e \in Challenges \ {d}, n \in Days : Overdue(e, n)' <=> Overdue(e, n)
    BY <2>1, <2>2, TurnSettles
  <2>5. \A e \in Challenges : Overdue(e, today[w])' <=> \E n \in Days : n = today[w] /\ Overdue(e, n)'
    BY <2>3 DEF Overdue
  <2>6. CASE w = v /\ c = d
    <3>1. \A n \in Days : n = today[w] => n <= today[v]
      BY <2>2, <2>6
    <3>2. \A n \in Days : n = today[w] => ~Overdue(c, n)'
      BY <2>4, <2>6, <3>1
    <3> QED BY <2>5, <3>2
  <2>7. CASE ~(w = v /\ c = d)
    <3>1. ~AtWork(w, c)
      BY <1>7, <2>1, <2>2, <2>7 DEF CommitSilent, Leave, AtWork, TypeOK, Goto
    <3>2. ~Overdue(c, today[w])
      BY <3>1 DEF Handled
    <3>3. CASE c = d
      BY <2>3, <2>4, <2>5, <3>2, <3>3
    <3>4. CASE c # d
      BY <2>3, <2>4, <2>5, <3>2, <3>4
    <3> QED BY <3>3, <3>4
  <2> QED BY <2>6, <2>7
<1>8. ASSUME NEW v \in Runs, Fail(v) PROVE Handled'
  BY <1>8 DEF Fail, Leave, Goto, Handled, AtWork, Overdue, TypeOK
<1>9. CASE UNCHANGED vars
  BY <1>9 DEF vars, Handled, AtWork, Overdue
<1> QED BY <1>1, <1>2, <1>3, <1>4, <1>5, <1>6, <1>7, <1>8, <1>9, <1>a DEF Next, Step

(* The commit of a turn settles its challenge for every date up to its own, *)
(* and excuses the runs of later dates that passed over it meanwhile.       *)
LEMMA TurnPasses ==
  ASSUME Inv, NEW v \in Runs, NEW d \in Challenges, pc[v] = "claimed", turn[v] = d,
         d \in processed[v], lock[d] = v,
         lock' = [lock EXCEPT ![d] = Null],
         pc' = [pc EXCEPT ![v] = "looping"],
         state' = [state EXCEPT ![d] = Swept(v)],
         UNCHANGED <<edited, processed, today, turn>>
  PROVE  SweepIsComplete'
<1> SUFFICES ASSUME NEW w \in Runs, NEW c \in Challenges \ edited,
                    pc'[w] = "returned", Overdue(c, today[w])'
             PROVE  \E u \in Runs : PassedOver(u, w, c)'
  BY DEF SweepIsComplete
<1> USE DEF Inv
<1>1. /\ \A n \in Days : n <= today[v] => ~Overdue(d, n)'
      /\ \A n \in Days : ~Overdue(d, n) => ~Overdue(d, n)'
      /\ \A e \in Challenges \ {d}, n \in Days : Overdue(e, n)' <=> Overdue(e, n)
  BY TurnSettles
<1>2. today[v] \in Days /\ today[w] \in Days /\ today[v] \in Nat /\ today[w] \in Nat
  BY DailyAssumption DEF TypeOK, Days
<1>3. \A n \in Days : n = today[w] => Overdue(c, n)'
  BY DEF Overdue
<1>4. pc[w] = "returned"
  BY DEF TypeOK
<1>5. CASE c = d
  <2>1. \A n \in Days : n = today[w] => ~(n <= today[v])
    BY <1>1, <1>3, <1>5
  <2>2. today[v] < today[w]
    BY <1>2, <2>1
  <2> QED BY <1>5, <2>2 DEF PassedOver
<1>6. CASE c # d
  <2>1. Overdue(c, today[w])
    BY <1>1, <1>2, <1>3, <1>6
  <2>2. PICK u \in Runs : PassedOver(u, w, c)
    BY <1>4, <2>1 DEF SweepIsComplete
  <2>3. PassedOver(u, w, c)'
    BY <1>6, <2>2 DEF PassedOver, TypeOK
  <2> QED BY <2>3
<1> QED BY <1>5, <1>6

LEMMA NextSweep == Inv /\ [Next]_vars => SweepIsComplete'
<1> SUFFICES ASSUME Inv, [Next]_vars PROVE SweepIsComplete'
  OBVIOUS
<1> USE DailyAssumption DEF Inv
<1>1. CASE Midnight
  BY <1>1 DEF Midnight, SweepIsComplete, PassedOver, Overdue
<1>2. ASSUME NEW e \in Challenges, BeginVerb(e) PROVE SweepIsComplete'
  BY <1>2 DEF BeginVerb, SweepIsComplete, PassedOver, Overdue
<1>a. ASSUME NEW e \in open, Verb(e) PROVE SweepIsComplete'
  <2>1. \A c \in Challenges \ edited : state'[c] = state[c]
    BY <1>a, VerbWrites DEF TypeOK
  <2>2. UNCHANGED <<edited, lock, pc, today, processed, turn>>
    BY <1>a, VerbWrites
  <2> SUFFICES ASSUME NEW w \in Runs, NEW c \in Challenges \ edited,
                      pc'[w] = "returned", Overdue(c, today[w])'
               PROVE  \E u \in Runs : PassedOver(u, w, c)'
    BY <2>2 DEF SweepIsComplete
  <2>3. pc[w] = "returned" /\ Overdue(c, today[w])
    BY <2>1, <2>2 DEF Overdue
  <2>4. PICK u \in Runs : PassedOver(u, w, c)
    BY <2>3 DEF SweepIsComplete
  <2>5. PassedOver(u, w, c)'
    BY <2>2, <2>4 DEF PassedOver
  <2> QED BY <2>5
<1>3. ASSUME NEW v \in Runs, Begin(v) PROVE SweepIsComplete'
  <2>1. \A u \in Runs : u # v => pc'[u] = pc[u] /\ today'[u] = today[u]
    BY <1>3 DEF Begin, Goto, TypeOK
  <2>2. processed[v] = {} /\ pc'[v] # "returned" /\ UNCHANGED <<edited, state, lock, processed, turn>>
    BY <1>3 DEF Begin, Goto, Turns, TypeOK
  <2> SUFFICES ASSUME NEW w \in Runs, NEW c \in Challenges \ edited,
                      pc'[w] = "returned", Overdue(c, today[w])'
               PROVE  \E u \in Runs : PassedOver(u, w, c)'
    BY <2>2 DEF SweepIsComplete
  <2>3. w # v /\ pc[w] = "returned" /\ Overdue(c, today[w])
    BY <2>1, <2>2 DEF Overdue
  <2>4. PICK u \in Runs : PassedOver(u, w, c)
    BY <2>3 DEF SweepIsComplete
  <2>5. u # v
    BY <2>2, <2>4 DEF PassedOver
  <2>6. PassedOver(u, w, c)'
    BY <2>1, <2>2, <2>3, <2>4, <2>5 DEF PassedOver
  <2> QED BY <2>6
<1>4. ASSUME NEW v \in Runs, Claim(v) PROVE SweepIsComplete'
  <2>1. PICK d \in Challenges : /\ d \in Claimable(v)
                              /\ processed' = [processed EXCEPT ![v] = processed[v] \cup {d}]
                              /\ turn' = [turn EXCEPT ![v] = d]
                              /\ lock' = [lock EXCEPT ![d] = v]
    BY <1>4 DEF Claim, Claimable
  <2>2. pc[v] = "looping" /\ pc' = [pc EXCEPT ![v] = "claimed"] /\ UNCHANGED <<edited, state, today>>
    BY <1>4 DEF Claim, Goto
  <2>3. lock[d] = Null
    BY <2>1 DEF Claimable, Locked
  <2> SUFFICES ASSUME NEW w \in Runs, NEW c \in Challenges \ edited,
                      pc'[w] = "returned", Overdue(c, today[w])'
               PROVE  \E u \in Runs : PassedOver(u, w, c)'
    BY <2>2 DEF SweepIsComplete
  <2>4. PICK u \in Runs : PassedOver(u, w, c)
    BY <2>2 DEF SweepIsComplete, Overdue, TypeOK
  <2>5. PassedOver(u, w, c)'
    BY <2>1, <2>2, <2>3, <2>4 DEF PassedOver, TypeOK
  <2> QED BY <2>5
<1>5. ASSUME NEW v \in Runs, Return(v) PROVE SweepIsComplete'
  <2>1. /\ pc[v] = "looping" /\ pc' = [pc EXCEPT ![v] = "returned"] /\ Claimable(v) = {}
        /\ UNCHANGED <<edited, state, lock, today, processed, turn>>
    BY <1>5 DEF Return, Goto
  <2> SUFFICES ASSUME NEW w \in Runs, NEW c \in Challenges \ edited,
                      pc'[w] = "returned", Overdue(c, today[w])
               PROVE  \E u \in Runs : PassedOver(u, w, c)'
    BY <2>1 DEF SweepIsComplete, Overdue
  <2>2. CASE w = v
    <3>1. Due(c, today[v])
      BY <2>2 DEF Overdue, Due, Arrived
    <3>2. ~(c \in processed[v])
      BY <2>1, <2>2 DEF Handled, AtWork
    <3>3. lock[c] # Null
      <4>1. \A e \in open : e.on # c
        BY DEF TypeOK, OpenOK
      <4> QED BY <2>1, <3>1, <3>2, <4>1 DEF Claimable, Locked
    <3>4. lock[c] \in Runs /\ c \in processed[lock[c]]
      BY <3>3 DEF TypeOK, Turns
    <3> QED BY <2>1, <3>4 DEF PassedOver
  <2>3. CASE w # v
    <3>1. PICK u \in Runs : PassedOver(u, w, c)
      BY <2>1, <2>3 DEF SweepIsComplete, TypeOK
    <3>2. PassedOver(u, w, c)'
      BY <2>1, <3>1 DEF PassedOver, TypeOK
    <3> QED BY <3>2
  <2> QED BY <2>2, <2>3
<1>6. ASSUME NEW v \in Runs, CommitReport(v) PROVE SweepIsComplete'
  <2>1. PICK d \in Challenges : turn[v] = d
    BY <1>6 DEF CommitReport, TypeOK, Turns
  <2>2. /\ pc[v] = "claimed" /\ lock' = [lock EXCEPT ![d] = Null]
        /\ pc' = [pc EXCEPT ![v] = "looping"]
        /\ state' = [state EXCEPT ![d] = Swept(v)]
        /\ UNCHANGED <<edited, processed, today, turn>>
    BY <1>6, <2>1 DEF CommitReport, Leave, Goto
  <2>3. d \in processed[v] /\ lock[d] = v
    BY <2>1, <2>2 DEF Turns, TypeOK
  <2> QED BY <2>1, <2>2, <2>3, TurnPasses
<1>7. ASSUME NEW v \in Runs, CommitSilent(v) PROVE SweepIsComplete'
  <2>1. PICK d \in Challenges : turn[v] = d
    BY <1>7 DEF CommitSilent, TypeOK, Turns
  <2>2. /\ pc[v] = "claimed" /\ lock' = [lock EXCEPT ![d] = Null]
        /\ pc' = [pc EXCEPT ![v] = "looping"]
        /\ state' = [state EXCEPT ![d] = Swept(v)]
        /\ UNCHANGED <<edited, processed, today, turn>>
    BY <1>7, <2>1 DEF CommitSilent, Leave, Goto
  <2>3. d \in processed[v] /\ lock[d] = v
    BY <2>1, <2>2 DEF Turns, TypeOK
  <2> QED BY <2>1, <2>2, <2>3, TurnPasses
<1>8. ASSUME NEW v \in Runs, Fail(v) PROVE SweepIsComplete'
  <2>1. PICK d \in Challenges : turn[v] = d
    BY <1>8 DEF Fail, TypeOK, Turns
  <2>2. /\ pc[v] = "claimed" /\ lock' = [lock EXCEPT ![d] = Null]
        /\ pc' = [pc EXCEPT ![v] = "failed"]
        /\ UNCHANGED <<edited, state, processed, today, turn>>
    BY <1>8, <2>1 DEF Fail, Leave, Goto
  <2>3. d \in processed[v] /\ lock[d] = v
    BY <2>1, <2>2 DEF Turns, TypeOK
  <2> SUFFICES ASSUME NEW w \in Runs, NEW c \in Challenges \ edited,
                      pc'[w] = "returned", Overdue(c, today[w])
               PROVE  \E u \in Runs : PassedOver(u, w, c)'
    BY <2>2 DEF SweepIsComplete, Overdue
  <2>4. PICK u \in Runs : PassedOver(u, w, c)
    BY <2>2 DEF SweepIsComplete, TypeOK
  <2>5. PassedOver(u, w, c)'
    BY <2>1, <2>2, <2>3, <2>4 DEF PassedOver, TypeOK
  <2> QED BY <2>5
<1>9. CASE UNCHANGED vars
  BY <1>9 DEF vars, SweepIsComplete, PassedOver, Overdue
<1> QED BY <1>1, <1>2, <1>3, <1>4, <1>5, <1>6, <1>7, <1>8, <1>9, <1>a DEF Next, Step

-----------------------------------------------------------------------------
(* The invariant holds for ever.                                            *)
THEOREM Invariant == Spec => []Inv
<1>1. Init => Inv
  BY InitInv
<1>2. Inv /\ [Next]_vars => Inv'
  BY NextTypeOK, NextTurns, NextCadence, NextHandled, NextSweep DEF Inv
<1> QED BY <1>1, <1>2, PTL DEF Spec

(* daily_challenge_check: its variables keep their types, a row is locked   *)
(* by the run at work on it, and runs that do not fail return the reports   *)
(* they stamped.                                                            *)
THEOREM TypeCorrect == Spec => []TypeOK
  BY Invariant, PTL DEF Inv

(* The report clock: whatever runs overlap or lag, and whatever verbs are   *)
(* called by hand, reports of one challenge are a whole cadence apart, but  *)
(* where a start stamped the day it took over a later report.               *)
THEOREM ReportsKeepTheirCadence == Spec => []CadenceHolds
  BY Invariant, PTL DEF Inv

(* SKIP LOCKED and the processed set: a run that returns leaves overdue     *)
(* only what another run held when it looked.                               *)
THEOREM SweepsAreComplete == Spec => []SweepIsComplete
  BY Invariant, PTL DEF Inv
===============================================================================
