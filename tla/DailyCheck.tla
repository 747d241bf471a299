------------------------------ MODULE DailyCheck ------------------------------
(***************************************************************************)
(* daily_challenge_check over several challenges.  A run claims the due    *)
(* challenges one at a time, each in a transaction of its own that starts, *)
(* sweeps or closes it and advances its report clock; the reports are      *)
(* returned when the run is over.  Several runs overlap: two workers, a    *)
(* run that is still going when the next day's begins, a run that is tried *)
(* again after an error.                                                   *)
(*                                                                         *)
(* What a turn does to members, goals and rewards is ChallengeSeason; here *)
(* a turn succeeds or fails as a whole.  A challenge's row is locked from  *)
(* its claim to the end of the turn, so the turn reads it once.  A verb    *)
(* called by hand reads the challenge without a lock and writes it later.  *)
(***************************************************************************)
EXTENDS Integers, FiniteSets

CONSTANTS
  Challenges,    (* challenge ids, which are numbers: ORDER BY id            *)
  Runs,          (* calls of daily_challenge_check                           *)
  Start, End,    (* per challenge, start_date and end_date, or Null          *)
  Frequency,     (* per challenge, report_frequency                          *)
  Null,
  Week,          (* days in a week                                           *)
  Firsts,        (* the days a month begins on                               *)
  NewYears,      (* the days a year begins on                                *)
  MaxDay,        (* bound on the calendar                                    *)
  MaxEdits       (* bound on the verbs called by hand                        *)

Days == 0..MaxDay

Frequencies == {"never", "daily", "weekly", "monthly", "yearly"}

ASSUME DailyAssumption ==
  /\ Challenges \subseteq Nat
  /\ Start \in [Challenges -> Nat \cup {Null}]
  /\ End \in [Challenges -> Nat \cup {Null}]
  /\ Frequency \in [Challenges -> Frequencies]
  /\ Null \notin Nat \cup Runs
  /\ Week \in Nat \ {0}
  /\ Firsts \subseteq Nat /\ NewYears \subseteq Nat
  /\ MaxDay \in Nat /\ MaxEdits \in Nat
  /\ \A d \in Days : /\ \E m \in Firsts : m > d /\ \A n \in Firsts : n > d => m <= n
                     /\ \E m \in NewYears : m > d /\ \A n \in NewYears : n > d => m <= n

VARIABLES
  day,        (* the current date                                            *)
  edits,      (* how many verbs were called by hand                          *)
  edited,     (* the challenges they were called on                          *)
  open,       (* the verbs between their reading of it and their commit      *)
  state,      (* per challenge, its state                                    *)
  next,       (* per challenge, its next_report_date                         *)
  lock,       (* per challenge, the run whose turn holds its row             *)
  pc,         (* per run, the last step it completed                         *)
  today,      (* per run, the date it was given                              *)
  processed,  (* per run, the challenges it claimed                          *)
  turn,       (* per run, the challenge it claimed last                      *)
  seen,       (* per run, the state and the report date its turn read        *)
  told,       (* per run, the challenges in reports_due                      *)
  reported,   (* the <<run, challenge>> whose stamp is committed             *)
  rewound     (* the challenges a start stamped after a report of a later    *)
              (* day than its own; kept for CadenceHolds alone               *)

vars == <<day, edits, edited, open, rewound, state, next, lock, pc, today, processed, turn,
          seen, told, reported>>

Ended == {"returned", "failed"}

Row(s, d) == [state |-> s, next |-> d]

Goto(w, step) == pc' = [pc EXCEPT ![w] = step]

Init ==
  /\ day = 0
  /\ edits = 0
  /\ edited = {}
  /\ open = {}
  /\ rewound = {}
  /\ state = [c \in Challenges |-> "draft"]
  /\ next = [c \in Challenges |-> Null]
  /\ lock = [c \in Challenges |-> Null]
  /\ pc = [w \in Runs |-> "idle"]
  /\ today = [w \in Runs |-> 0]
  /\ processed = [w \in Runs |-> {}]
  /\ turn = [w \in Runs |-> Null]
  /\ seen = [w \in Runs |-> Row("draft", Null)]
  /\ told = [w \in Runs |-> {}]
  /\ reported = {}

Midnight ==
  /\ day < MaxDay
  /\ day' = day + 1
  /\ UNCHANGED <<edits, edited, open, rewound, state, next, lock, pc, today, processed, turn,
                 seen, told, reported>>

-----------------------------------------------------------------------------
(* The state a verb called by hand demands, and the one it writes.          *)
From == [start |-> "draft", close |-> "inprogress", reset |-> "done"]
To == [start |-> "inprogress", close |-> "done", reset |-> "draft"]

VerbCalls ==
  [id : 0..MaxEdits, verb : DOMAIN From, on : Challenges, today : Days,
   step : {"read", "referred", "wrote"}]

Call(id, v, c, d, step) == [id |-> id, verb |-> v, on |-> c, today |-> d, step |-> step]

Proceed(e, step) == open' = (open \ {e}) \cup {[e EXCEPT !.step = step]}

(* start_challenge, close_challenge and reset_challenge: find_challenge     *)
(* without a lock, the check of the state, and Utc::now().                  *)
BeginVerb(c) ==
  /\ edits < MaxEdits
  /\ \E v \in DOMAIN From :
       state[c] = From[v] /\ open' = open \cup {Call(edits, v, c, day, "read")}
  /\ edits' = edits + 1
  /\ edited' = edited \cup {c}
  /\ UNCHANGED <<day, rewound, state, next, lock, pc, today, processed, turn, seen, told, reported>>

(* The memberships, goals and grants that a verb inserts refer to the       *)
(* challenge: a KEY SHARE lock, which waits for a turn and for nobody else. *)
ReferTo(e) ==
  /\ e.step = "read" /\ e.verb \in {"start", "close"}
  /\ lock[e.on] = Null
  /\ Proceed(e, "referred")
  /\ UNCHANGED <<day, edits, edited, rewound, state, next, lock, pc, today, processed, turn,
                 seen, told, reported>>

Written(c) == \E e \in open : e.on = c /\ e.step = "wrote"

(* set_challenge_state waits for the row; the trigger refuses what was read *)
(* too early, unless the state is already the one written.                  *)
WriteState(e) ==
  /\ e.step # "wrote"
  /\ lock[e.on] = Null /\ ~Written(e.on)
  /\ state[e.on] \in {From[e.verb], To[e.verb]}
  /\ Proceed(e, "wrote")
  /\ UNCHANGED <<day, edits, edited, rewound, state, next, lock, pc, today, processed, turn,
                 seen, told, reported>>

(* An error, the trigger's exception, a lost connection.                    *)
AbandonVerb(e) ==
  /\ open' = open \ {e}
  /\ UNCHANGED <<day, edits, edited, rewound, state, next, lock, pc, today, processed, turn,
                 seen, told, reported>>

(* The first day of a month, or of a year, after d.                         *)
FirstAfter(d, days) == CHOOSE m \in days : m > d /\ \A n \in days : n > d => m <= n

(* advance_report_date.                                                     *)
Advanced(d, f) ==
  CASE f = "daily" -> d + 1
    [] f = "weekly" -> d + Week
    [] f = "monthly" -> FirstAfter(d, Firsts)
    [] f = "yearly" -> FirstAfter(d, NewYears)

Stamps(e) == e.verb = "start" /\ Frequency[e.on] # "never"

(* A run has reported the challenge for a day after the verb's.             *)
Overtaken(e) == \E w \in Runs : <<w, e.on>> \in reported /\ today[w] > e.today

(* Its commit; start_challenge stamps the report dates of the day it took.  *)
CommitVerb(e) ==
  /\ e.step = "wrote"
  /\ state' = [state EXCEPT ![e.on] = To[e.verb]]
  /\ next' = IF Stamps(e) THEN [next EXCEPT ![e.on] = Advanced(e.today, Frequency[e.on])]
                          ELSE next
  /\ rewound' = IF Stamps(e) /\ Overtaken(e) THEN rewound \cup {e.on} ELSE rewound
  /\ open' = open \ {e}
  /\ UNCHANGED <<day, edits, edited, lock, pc, today, processed, turn, seen, told, reported>>

Verb(e) == ReferTo(e) \/ WriteState(e) \/ AbandonVerb(e) \/ CommitVerb(e)

-----------------------------------------------------------------------------
Begin(w) ==
  /\ pc[w] = "idle"
  /\ today' = [today EXCEPT ![w] = day]
  /\ Goto(w, "looping")
  /\ UNCHANGED <<day, edits, edited, open, rewound, state, next, lock, processed, turn, seen, told, reported>>

-----------------------------------------------------------------------------
(* Mutant of Arrived: a challenge starts the day after its start_date.      *)
ArrivedLate(c, d) == Start[c] # Null /\ Start[c] < d

Arrived(c, d) == Start[c] # Null /\ Start[c] <= d

(* The windows close the day after the end_date.                            *)
Passed(c, d) == End[c] # Null /\ End[c] < d

(* The WHERE of claim_next_due_challenge.                                   *)
Due(c, d) ==
  \/ state[c] = "draft" /\ Arrived(c, d)
  \/ state[c] = "inprogress"
  \/ state[c] = "done" /\ next[c] # Null /\ next[c] <= d

(* FOR UPDATE would have to wait: for a turn, or for a verb that referred   *)
(* to the challenge or wrote it.                                            *)
Locked(c) == lock[c] # Null \/ \E e \in open : e.on = c /\ e.step # "read"

(* Mutant of Claimable: the rows are not claimed FOR UPDATE.                *)
ClaimableTwice(w) == {c \in Challenges \ processed[w] : Due(c, today[w])}

(* SKIP LOCKED, without the challenges the run already processed.           *)
Claimable(w) == {c \in Challenges \ processed[w] : ~Locked(c) /\ Due(c, today[w])}

(* Mutant of Claim: the claimed challenge is not added to processed.        *)
ClaimAgain(w) ==
  /\ pc[w] = "looping"
  /\ \E c \in Claimable(w) :
       /\ \A d \in Claimable(w) : c <= d
       /\ lock' = [lock EXCEPT ![c] = w]
       /\ turn' = [turn EXCEPT ![w] = c]
       /\ seen' = [seen EXCEPT ![w] = Row(state[c], next[c])]
  /\ Goto(w, "claimed")
  /\ UNCHANGED <<day, edits, edited, open, rewound, state, next, today, processed, told, reported>>

(* ORDER BY id ... LIMIT 1, and find_challenge.                             *)
Claim(w) ==
  /\ pc[w] = "looping"
  /\ \E c \in Claimable(w) :
       /\ \A d \in Claimable(w) : c <= d
       /\ lock' = [lock EXCEPT ![c] = w]
       /\ turn' = [turn EXCEPT ![w] = c]
       /\ seen' = [seen EXCEPT ![w] = Row(state[c], next[c])]
       /\ processed' = [processed EXCEPT ![w] = @ \cup {c}]
  /\ Goto(w, "claimed")
  /\ UNCHANGED <<day, edits, edited, open, rewound, state, next, today, told, reported>>

(* None is left to claim: the reports are returned.                         *)
Return(w) ==
  /\ pc[w] = "looping"
  /\ Claimable(w) = {}
  /\ Goto(w, "returned")
  /\ UNCHANGED <<day, edits, edited, open, rewound, state, next, lock, today, processed, turn,
                 seen, told, reported>>

(* The start edge, and the sweep or the close in the same iteration.        *)
Started(w) ==
  IF seen[w].state = "draft" /\ Arrived(turn[w], today[w]) THEN "inprogress" ELSE seen[w].state

Swept(w) ==
  IF Started(w) = "inprogress" /\ Passed(turn[w], today[w]) THEN "done" ELSE Started(w)

ReportDue(w) ==
  Frequency[turn[w]] # "never" /\ IF seen[w].next = Null THEN TRUE ELSE seen[w].next <= today[w]

(* The turn's transaction is over, and the run goes on to a step.           *)
Leave(w, step) ==
  /\ lock' = [lock EXCEPT ![turn[w]] = Null]
  /\ seen' = [seen EXCEPT ![w] = Row("draft", Null)]
  /\ Goto(w, step)

(* The turn with a due report, stamp_report_dates, and its commit.          *)
CommitReport(w) ==
  /\ pc[w] = "claimed"
  /\ ReportDue(w)
  /\ state' = [state EXCEPT ![turn[w]] = Swept(w)]
  /\ next' = [next EXCEPT ![turn[w]] = Advanced(today[w], Frequency[turn[w]])]
  /\ told' = [told EXCEPT ![w] = @ \cup {turn[w]}]
  /\ reported' = reported \cup {<<w, turn[w]>>}
  /\ Leave(w, "looping")
  /\ UNCHANGED <<day, edits, edited, open, rewound, today, processed, turn>>

CommitSilent(w) ==
  /\ pc[w] = "claimed"
  /\ ~ReportDue(w)
  /\ state' = [state EXCEPT ![turn[w]] = Swept(w)]
  /\ Leave(w, "looping")
  /\ UNCHANGED <<day, edits, edited, open, rewound, next, today, processed, turn, told, reported>>

(* Any error of a turn, and a crash, undoes the turn and ends the run: the  *)
(* reports of its earlier turns are stamped and never returned.             *)
Fail(w) ==
  /\ pc[w] = "claimed"
  /\ told' = [told EXCEPT ![w] = {}]
  /\ Leave(w, "failed")
  /\ UNCHANGED <<day, edits, edited, open, rewound, state, next, today, processed, turn, reported>>

Step(w) == Claim(w) \/ Return(w) \/ CommitReport(w) \/ CommitSilent(w)

Next ==
  \/ Midnight
  \/ \E c \in Challenges : BeginVerb(c)
  \/ \E e \in open : Verb(e)
  \/ \E w \in Runs : Begin(w) \/ Step(w) \/ Fail(w)

Spec == Init /\ [][Next]_vars

(* As long as a run can go on some run does; nothing obliges the host to    *)
(* begin one, or a turn to fail.                                            *)
Fairness == WF_vars(\E w \in Runs : Step(w))

FairSpec == Spec /\ Fairness

-----------------------------------------------------------------------------
(* An open verb is about a challenge that counts as edited, and none has    *)
(* written a row that a turn holds.                                         *)
OpenOK ==
  /\ open \subseteq VerbCalls
  /\ \A e \in open : e.on \in edited
  /\ \A e \in open : e.step = "wrote" => lock[e.on] = Null

(* The variables keep their types, a row is locked by the run whose turn it *)
(* is and by no run between two turns, and a run that does not fail returns *)
(* the reports it stamped.                                                  *)
TypeOK ==
  /\ day \in Days /\ edits \in 0..MaxEdits
  /\ edited \subseteq Challenges /\ rewound \subseteq Challenges
  /\ OpenOK
  /\ state \in [Challenges -> {"draft", "inprogress", "done"}]
  /\ next \in [Challenges -> Nat \cup {Null}]
  /\ lock \in [Challenges -> Runs \cup {Null}]
  /\ pc \in [Runs -> {"idle", "looping", "claimed"} \cup Ended]
  /\ today \in [Runs -> Days]
  /\ processed \in [Runs -> SUBSET Challenges]
  /\ turn \in [Runs -> Challenges \cup {Null}]
  /\ seen \in [Runs -> [state : {"draft", "inprogress", "done"}, next : Nat \cup {Null}]]
  /\ told \in [Runs -> SUBSET Challenges]
  /\ reported \subseteq Runs \X Challenges
  /\ \A c \in Challenges, w \in Runs :
       lock[c] = w <=> pc[w] = "claimed" /\ turn[w] = c
  /\ \A w \in Runs :
       told[w] = IF pc[w] = "failed" THEN {} ELSE {c \in Challenges : <<w, c>> \in reported}

(* Reports of one challenge are a whole cadence apart, whatever runs and    *)
(* verbs overlap: two workers never report the same day, a run that lags    *)
(* behind the calendar never reports a period again, and neither does one   *)
(* after a reset and a start.  Only a start that took its date before a     *)
(* report of a later day, and commits after it, sets the clock back.        *)
CadenceHolds ==
  \A v, w \in Runs, c \in Challenges \ rewound :
    /\ <<v, c>> \in reported
    /\ <<w, c>> \in reported
    /\ v # w
    => \/ Advanced(today[v], Frequency[c]) <= today[w]
       \/ Advanced(today[w], Frequency[c]) <= today[v]

(* What the runs are for: a draft that should have started, a running       *)
(* challenge that should have closed.                                       *)
Overdue(c, d) ==
  \/ state[c] = "draft" /\ Start[c] # Null /\ Start[c] <= d
  \/ state[c] = "inprogress" /\ End[c] # Null /\ End[c] < d

(* The turn of run v that made run w pass over challenge c.                 *)
PassedOver(v, w, c) ==
  /\ c \in processed[v]
  /\ \/ lock[c] = v
     \/ pc[v] = "failed" /\ turn[v] = c
     \/ today[v] < today[w]

(* A run that returns leaves no challenge overdue at its date, wherever     *)
(* other runs failed before; but for those another run held when it looked  *)
(* and then failed on, or swept by an earlier date.                         *)
SweepIsComplete ==
  \A w \in Runs, c \in Challenges \ edited :
    pc[w] = "returned" /\ Overdue(c, today[w]) => \E v \in Runs : PassedOver(v, w, c)

(* "The exclusion set is what bounds the run to one pass": although a       *)
(* running challenge is always due, runs that began end.                    *)
EveryRunEnds == <>[](\A w \in Runs : pc[w] \in {"idle"} \cup Ended)
=============================================================================
