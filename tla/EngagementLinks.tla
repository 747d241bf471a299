---------------------------- MODULE EngagementLinks ----------------------------
(***************************************************************************)
(* The four verbs of EngagementWriteService: resolve_attribution and       *)
(* create_campaign (find or mint masters under free identifiers),          *)
(* create_tracker (find or mint a short link) and resolve_redirect (send   *)
(* the visitor on, count the click).  Every statement is one step of a     *)
(* READ COMMITTED transaction on a connection of the pool; create_tracker  *)
(* is three transactions.                                                  *)
(*                                                                         *)
(* A call is the record of its arguments, and a row is named after the     *)
(* call that inserts it.  A name is its base, its spelling and its counter *)
(* (0 for none): "Spring", "SPRING", "Spring [2]".                         *)
(***************************************************************************)
EXTENDS Integers, Sequences, FiniteSets

CONSTANTS
  Calls,          (* [id, verb, value, title, explicit, target, ip]          *)
  Names,          (* [base, spelling, counter]                               *)
  Longest,        (* bases as long as the name column allows                 *)
  MaxCounter,     (* the last counter tried, 1000 in the code                *)
  Targets,        (* what a tracker may point to: url, label                 *)
  Absolute,       (* the targets that are absolute http(s) URLs              *)
  CodesOfLength,  (* the codes random_code may draw, by length               *)
  MinLength, MaxLength,
  Ips,            (* ip_key of a visitor: its address or "unknown"           *)
  Oversize,       (* the addresses too long for a dedup_key                  *)
  MaxClicks,      (* MAX_CLICKS_PER_TRACKER                                  *)
  Connections,    (* of the pools of all processes                           *)
  None,
  MaxDay,         (* bound on the calendar                                   *)
  MaxEdits        (* bound on generic edits                                  *)

Verbs == {"resolve", "author", "track", "hit"}

Of(verbs) == {c \in Calls : c.verb \in verbs}

Minters == Of({"resolve", "author"})

Creates == Of({"track"})

Hits == Of({"hit"})

(* The order in which resolve_attribution goes through its values.          *)
Order == <<"campaign", "source", "medium">>

Kinds == {"campaign", "source", "medium"}

Codes == UNION {CodesOfLength[n] : n \in MinLength..MaxLength}

ASSUME EngagementAssumption ==
  /\ \A c \in Calls : c.verb \in Verbs
  /\ \A c \in Of({"resolve"}) : c.value \in [Kinds -> Names \cup {None}]
  /\ \A c \in Of({"author"}) : c.title \in Names /\ c.explicit \in Names \cup {None}
  /\ \A c \in Creates : c.target \in Absolute
  /\ \A c \in Hits : c.ip \in Ips
  /\ Absolute \subseteq Targets
  /\ \A v \in Names : v.counter \in Nat
  /\ \A v \in Names, n \in 0..MaxCounter : [v EXCEPT !.counter = n] \in Names
  /\ None \notin Names \cup Calls \cup Codes \cup Targets \cup (Minters \X Kinds)
  /\ IsFiniteSet(Calls)
  /\ MinLength \in Nat /\ MaxLength \in Nat /\ MinLength <= MaxLength
  /\ MaxClicks \in Nat /\ Connections \in Nat \ {0}
  /\ MaxCounter \in Nat /\ MaxDay \in Nat /\ MaxEdits \in Nat

VARIABLES
  day,      (* the UTC day of Utc::now()                                     *)
  edits,    (* how many generic edits happened                               *)
  master,   (* per minter and kind, the campaign, source or medium it minted *)
  tracker,  (* per create, the tracker it minted                             *)
  clicks,   (* the hits whose click row is committed                         *)
  pc,       (* per call, the last statement it completed                     *)
  before,   (* per call, the calls that were done when it began              *)
  at,       (* per call, the kind, counter or code length it is at           *)
  want,     (* per minter, the name it is going to insert                    *)
  refs,     (* per call, the attribution it resolves or was given            *)
  code,     (* per create, the code it found free                            *)
  seen,     (* per create or hit, the tracker it found or minted             *)
  dated     (* per hit, the day it read                                      *)

vars == <<day, edits, master, tracker, clicks, pc, before, at, want, refs, code,
          seen, dated>>

NoRefs == [k \in Kinds |-> None]

Ids == Minters \X Kinds

Ended == {"refused", "failed", "done"}

Steps ==
  {"idle", "seeking", "checking", "naming", "named", "written",
   "probing", "unfound", "coding", "coded", "clear", "inserted",
   "looking", "found", "counted", "clicked", "over"} \cup Ended

Goto(c, step) == pc' = [pc EXCEPT ![c] = step]

(* Mutant of Holding: mint_code and the second probe are called inside the  *)
(* transaction of the first.                                                *)
HoldingOn == {c \in Calls : pc[c] \notin {"idle"} \cup Ended}

(* The calls with an open transaction; create_tracker has none between its  *)
(* probe, its search for a code and its insert.                             *)
Holding == {c \in Calls : pc[c] \notin {"idle", "unfound", "coded"} \cup Ended}

(* pool.begin() waits for a connection.                                     *)
Connection == Cardinality(Holding) < Connections

-----------------------------------------------------------------------------
(* Rows.                                                                    *)
Master(name, state, touched) == [name |-> name, state |-> state, touched |-> touched]

Tracker(k, target, triple, state, touched) ==
  [code |-> k, target |-> target, refs |-> triple, state |-> state, touched |-> touched]

Init ==
  /\ day = 0
  /\ edits = 0
  /\ master = [i \in Ids |-> Master(None, "absent", FALSE)]
  /\ tracker = [t \in Creates |-> Tracker(None, None, NoRefs, "absent", FALSE)]
  /\ clicks = {}
  /\ pc = [c \in Calls |-> "idle"]
  /\ before = [c \in Calls |-> {}]
  /\ at = [c \in Calls |-> 0]
  /\ want = [c \in Minters |-> None]
  /\ refs = [c \in Calls |-> NoRefs]
  /\ code = [c \in Creates |-> None]
  /\ seen = [c \in Creates \cup Hits |-> None]
  /\ dated = [c \in Hits |-> 0]

Midnight ==
  /\ day < MaxDay
  /\ day' = day + 1
  /\ UNCHANGED <<edits, master, tracker, clicks, pc, before, at, want, refs, code, seen, dated>>

(* The step a verb begins with.                                             *)
First(c) ==
  CASE c.verb = "resolve" -> "seeking"
    [] c.verb = "author" -> IF c.explicit = None THEN "naming" ELSE "checking"
    [] c.verb = "track" -> "probing"
    [] c.verb = "hit" -> "looking"

(* strip_name_counter.                                                      *)
Stripped(v) == [v EXCEPT !.counter = 0]

Begin(c) ==
  /\ pc[c] = "idle"
  /\ Connection
  /\ Goto(c, First(c))
  /\ before' = [before EXCEPT ![c] = {d \in Calls : pc[d] = "done"}]
  /\ at' = [at EXCEPT ![c] = IF c.verb = "resolve" THEN 1 ELSE 0]
  /\ want' = IF c.verb = "author"
             THEN [want EXCEPT ![c] = IF c.explicit = None THEN Stripped(c.title)
                                      ELSE c.explicit]
             ELSE want
  /\ UNCHANGED <<day, edits, master, tracker, clicks, refs, code, seen, dated>>

-----------------------------------------------------------------------------
(* resolve_attribution and create_campaign.                                 *)

(* Mutant of Same: the lookup compares names as they are spelled.           *)
SameSpelling(v, w) == v = w

(* lower(name) = lower($1).                                                 *)
Same(v, w) == v.base = w.base /\ v.counter = w.counter

Live(kind, v) == {i \in Ids : i[2] = kind /\ master[i].state = "live" /\ Same(master[i].name, v)}

Taken(v) == Live("campaign", v) # {}

Kind(c) == IF c.verb = "author" THEN "campaign" ELSE Order[at[c]]

(* After a value is settled: the next one, or the commit.                   *)
Onward(c) ==
  IF c.verb = "author" \/ at[c] = Len(Order)
  THEN /\ Goto(c, "written")
       /\ UNCHANGED at
  ELSE /\ Goto(c, "seeking")
       /\ at' = [at EXCEPT ![c] = @ + 1]

Refer(c, id) == refs' = [refs EXCEPT ![c] = [@ EXCEPT ![Kind(c)] = id]]

(* find_campaign_by_name, find_source_by_name, find_medium_by_name.         *)
Seek(c) ==
  /\ pc[c] = "seeking"
  /\ \/ /\ c.value[Kind(c)] = None
        /\ Onward(c)
        /\ UNCHANGED <<refs, want>>
     \/ /\ c.value[Kind(c)] # None
        /\ \E i \in Live(Kind(c), c.value[Kind(c)]) : Refer(c, i)
        /\ Onward(c)
        /\ UNCHANGED want
  /\ UNCHANGED <<day, edits, master, tracker, clicks, before, code, seen, dated>>

(* ... and no row: a campaign needs a free identifier, the others are named *)
(* by the value.                                                            *)
Miss(c) ==
  /\ pc[c] = "seeking"
  /\ c.value[Kind(c)] # None
  /\ Live(Kind(c), c.value[Kind(c)]) = {}
  /\ IF Kind(c) = "campaign"
     THEN /\ want' = [want EXCEPT ![c] = Stripped(c.value[Kind(c)])]
          /\ Goto(c, "naming")
     ELSE /\ want' = [want EXCEPT ![c] = c.value[Kind(c)]]
          /\ Goto(c, "named")
  /\ UNCHANGED <<day, edits, master, tracker, clicks, before, at, refs, code, seen, dated>>

(* free_campaign_identifier: the base, then its counters.                   *)
Name(c) ==
  /\ pc[c] = "naming"
  /\ \/ /\ ~Taken(want[c])
        /\ Goto(c, "named")
        /\ UNCHANGED want
     \/ /\ Taken(want[c])
        /\ want[c].counter < MaxCounter
        /\ want' = [want EXCEPT ![c] = [want[c] EXCEPT !.counter = @ + 1]]
        /\ UNCHANGED pc
     \/ /\ Taken(want[c])
        /\ want[c].counter >= MaxCounter
        /\ Goto(c, "refused")
        /\ UNCHANGED want
  /\ UNCHANGED <<day, edits, master, tracker, clicks, before, at, refs, code, seen, dated>>

(* The explicit identifier of create_campaign.                              *)
Check(c) ==
  /\ pc[c] = "checking"
  /\ Goto(c, IF Taken(want[c]) THEN "refused" ELSE "named")
  /\ UNCHANGED <<day, edits, master, tracker, clicks, before, at, want, refs, code, seen, dated>>

(* The unique index over the names of live rows, as they are spelled.       *)
Namesakes(c, state) ==
  {i \in Ids : i[2] = Kind(c) /\ master[i].state = state /\ master[i].name = want[c]}

(* A name with a counter may be longer than the column's CHECK allows.      *)
Storable(v) == v.base \in Longest => v.counter = 0

(* insert_campaign, insert_source, insert_medium: the index waits for an    *)
(* uncommitted namesake.                                                    *)
InsertMaster(c) ==
  /\ pc[c] = "named"
  /\ Storable(want[c])
  /\ Namesakes(c, "pending") \cup Namesakes(c, "live") = {}
  /\ master' = [master EXCEPT ![<<c, Kind(c)>>] = Master(want[c], "pending", FALSE)]
  /\ Refer(c, <<c, Kind(c)>>)
  /\ Onward(c)
  /\ UNCHANGED <<day, edits, tracker, clicks, before, want, code, seen, dated>>

(* A transaction that is dropped or refused leaves no row.                  *)
Undo(c) ==
  /\ master' = [i \in Ids |-> IF i[1] = c THEN Master(None, "absent", FALSE) ELSE master[i]]
  /\ tracker' = [t \in Creates |->
                   IF t = c THEN Tracker(None, None, NoRefs, "absent", FALSE) ELSE tracker[t]]

(* ... and a live one, or the CHECK, is a database error.                   *)
InsertRefused(c) ==
  /\ pc[c] = "named"
  /\ ~Storable(want[c]) \/ Namesakes(c, "live") # {}
  /\ Undo(c)
  /\ Goto(c, "failed")
  /\ UNCHANGED <<day, edits, clicks, before, at, want, refs, code, seen, dated>>

(* Mutant of CommitMasters: each value is settled in a transaction of its   *)
(* own, and only that of the last one is committed.                         *)
CommitLast(c) ==
  /\ pc[c] = "written"
  /\ Goto(c, "done")
  /\ master' = [i \in Ids |-> IF i = <<c, Kind(c)>> /\ master[i].state = "pending"
                              THEN Master(master[i].name, "live", FALSE) ELSE master[i]]
  /\ UNCHANGED <<day, edits, tracker, clicks, before, at, want, refs, code, seen, dated>>

CommitMasters(c) ==
  /\ pc[c] = "written"
  /\ Goto(c, "done")
  /\ master' = [i \in Ids |-> IF i[1] = c /\ master[i].state = "pending"
                              THEN Master(master[i].name, "live", FALSE) ELSE master[i]]
  /\ UNCHANGED <<day, edits, tracker, clicks, before, at, want, refs, code, seen, dated>>

-----------------------------------------------------------------------------
(* create_tracker.                                                          *)

(* Mutant of Matches: the tuple is compared with "=", and an absent         *)
(* attribution matches nothing.                                             *)
MatchesPresent(target, triple) ==
  {t \in Creates : /\ tracker[t].state = "live" /\ tracker[t].target = target
                   /\ \A k \in Kinds : triple[k] # None /\ tracker[t].refs[k] = triple[k]}

(* find_tracker_by_tuple: IS NOT DISTINCT FROM.                             *)
Matches(target, triple) ==
  {t \in Creates : /\ tracker[t].state = "live" /\ tracker[t].target = target
                   /\ tracker[t].refs = triple}

(* The attribution comes from an answered resolve or create_campaign.       *)
Given == {NoRefs} \cup {refs[d] : d \in {d \in Minters : pc[d] = "done"}}

Probe(c) ==
  /\ pc[c] = "probing"
  /\ \E triple \in Given :
       /\ refs' = [refs EXCEPT ![c] = triple]
       /\ \/ \E t \in Matches(c.target, triple) :
               /\ seen' = [seen EXCEPT ![c] = t]
               /\ Goto(c, "done")
          \/ /\ Matches(c.target, triple) = {}
             /\ Goto(c, "unfound")
             /\ UNCHANGED seen
  /\ UNCHANGED <<day, edits, master, tracker, clicks, before, at, want, code, dated>>

Owners(k, state) == {t \in Creates : tracker[t].state = state /\ tracker[t].code = k}

Draw(c) ==
  /\ pc[c] = "unfound"
  /\ Connection
  /\ at' = [at EXCEPT ![c] = MinLength]
  /\ Goto(c, "coding")
  /\ UNCHANGED <<day, edits, master, tracker, clicks, before, want, refs, code, seen, dated>>

(* mint_code: a taken candidate makes the next one longer.                  *)
TryCode(c) ==
  /\ pc[c] = "coding"
  /\ \E k \in CodesOfLength[at[c]] :
       \/ /\ Owners(k, "live") = {}
          /\ code' = [code EXCEPT ![c] = k]
          /\ Goto(c, "coded")
          /\ UNCHANGED at
       \/ /\ Owners(k, "live") # {}
          /\ IF at[c] < MaxLength THEN at' = [at EXCEPT ![c] = @ + 1] /\ UNCHANGED pc
             ELSE Goto(c, "refused") /\ UNCHANGED at
          /\ UNCHANGED code
  /\ UNCHANGED <<day, edits, master, tracker, clicks, before, want, refs, seen, dated>>

(* The second probe opens the transaction of the insert.                    *)
Reprobe(c) ==
  /\ pc[c] = "coded"
  /\ Connection
  /\ \/ \E t \in Matches(c.target, refs[c]) :
          /\ seen' = [seen EXCEPT ![c] = t]
          /\ Goto(c, "done")
     \/ /\ Matches(c.target, refs[c]) = {}
        /\ Goto(c, "clear")
        /\ UNCHANGED seen
  /\ UNCHANGED <<day, edits, master, tracker, clicks, before, at, want, refs, code, dated>>

(* Mutant of InsertTracker: the code was free when it was drawn.            *)
InsertDrawn(c) ==
  /\ pc[c] = "clear"
  /\ tracker' = [tracker EXCEPT ![c] = Tracker(code[c], c.target, refs[c], "pending", FALSE)]
  /\ Goto(c, "inserted")
  /\ UNCHANGED <<day, edits, master, clicks, before, at, want, refs, code, seen, dated>>

(* insert_tracker under the unique index over the codes of live rows.       *)
InsertTracker(c) ==
  /\ pc[c] = "clear"
  /\ Owners(code[c], "pending") \cup Owners(code[c], "live") = {}
  /\ tracker' = [tracker EXCEPT ![c] = Tracker(code[c], c.target, refs[c], "pending", FALSE)]
  /\ Goto(c, "inserted")
  /\ UNCHANGED <<day, edits, master, clicks, before, at, want, refs, code, seen, dated>>

CodeTaken(c) ==
  /\ pc[c] = "clear"
  /\ Owners(code[c], "live") # {}
  /\ Goto(c, "failed")
  /\ UNCHANGED <<day, edits, master, tracker, clicks, before, at, want, refs, code, seen, dated>>

CommitTracker(c) ==
  /\ pc[c] = "inserted"
  /\ tracker' = [tracker EXCEPT ![c] = Tracker(code[c], c.target, refs[c], "live", FALSE)]
  /\ seen' = [seen EXCEPT ![c] = c]
  /\ Goto(c, "done")
  /\ UNCHANGED <<day, edits, master, clicks, before, at, want, refs, code, dated>>

-----------------------------------------------------------------------------
(* resolve_redirect.                                                        *)

(* find_tracker_by_code of whatever code the visitor asks for, and the      *)
(* stored target checked again; every failure answers 404.                  *)
Look(c) ==
  /\ pc[c] = "looking"
  /\ \E k \in Codes :
       \/ \E t \in Owners(k, "live") :
            /\ seen' = [seen EXCEPT ![c] = t]
            /\ Goto(c, IF tracker[t].target \in Absolute THEN "found" ELSE "refused")
       \/ /\ Owners(k, "live") = {}
          /\ Goto(c, "refused")
          /\ UNCHANGED seen
  /\ UNCHANGED <<day, edits, master, tracker, clicks, before, at, want, refs, code, dated>>

ClicksOf(t) == {h \in clicks : seen[h] = t}

(* Mutant of Frozen: one click more than the ceiling is let through.        *)
FrozenLate(c) == Cardinality(ClicksOf(seen[c])) > MaxClicks

Frozen(c) == Cardinality(ClicksOf(seen[c])) >= MaxClicks

(* click_count against the cap, and the day of the click; over the cap the  *)
(* visitor is sent on uncounted.                                            *)
Count(c) ==
  /\ pc[c] = "found"
  /\ dated' = [dated EXCEPT ![c] = day]
  /\ Goto(c, IF Frozen(c) THEN "over" ELSE "counted")
  /\ UNCHANGED <<day, edits, master, tracker, clicks, before, at, want, refs, code, seen>>

(* The dedup_key.                                                           *)
Key(h) == <<seen[h], h.ip, dated[h]>>

Pending == {h \in Hits : pc[h] = "clicked"}

Holders(key) == {h \in clicks \cup Pending : Key(h) = key}

(* Mutant of Click: ON CONFLICT sees no conflict with a row that is still   *)
(* uncommitted.                                                             *)
ClickUnseen(c) ==
  /\ pc[c] = "counted"
  /\ c.ip \notin Oversize
  /\ \A h \in clicks : Key(h) # Key(c)
  /\ Goto(c, "clicked")
  /\ UNCHANGED <<day, edits, master, tracker, clicks, before, at, want, refs, code, seen, dated>>

(* insert_click ... ON CONFLICT DO NOTHING: waits for an uncommitted row    *)
(* with the key, and inserts when there is none.                            *)
Click(c) ==
  /\ pc[c] = "counted"
  /\ c.ip \notin Oversize
  /\ Holders(Key(c)) = {}
  /\ Goto(c, "clicked")
  /\ UNCHANGED <<day, edits, master, tracker, clicks, before, at, want, refs, code, seen, dated>>

(* ... and does nothing when a committed row has the key.                   *)
Replay(c) ==
  /\ pc[c] = "counted"
  /\ c.ip \notin Oversize
  /\ \E h \in clicks : Key(h) = Key(c)
  /\ Goto(c, "over")
  /\ UNCHANGED <<day, edits, master, tracker, clicks, before, at, want, refs, code, seen, dated>>

(* A dedup_key over 200 characters breaks the CHECK of the column, and the  *)
(* visitor is not sent on.                                                  *)
Unkeyable(c) ==
  /\ pc[c] = "counted"
  /\ c.ip \in Oversize
  /\ Goto(c, "failed")
  /\ UNCHANGED <<day, edits, master, tracker, clicks, before, at, want, refs, code, seen, dated>>

CommitHit(c) ==
  /\ \/ pc[c] = "clicked" /\ clicks' = clicks \cup {c}
     \/ pc[c] = "over" /\ UNCHANGED clicks
  /\ Goto(c, "done")
  /\ UNCHANGED <<day, edits, master, tracker, before, at, want, refs, code, seen, dated>>

-----------------------------------------------------------------------------
(* A dropped request, a lost connection, a database error.                  *)
Rollback(c) ==
  /\ pc[c] \notin {"idle"} \cup Ended
  /\ Undo(c)
  /\ Goto(c, "failed")
  /\ UNCHANGED <<day, edits, clicks, before, at, want, refs, code, seen, dated>>

(* The generic routes delete and restore masters and trackers, and change   *)
(* what a tracker points to.                                                *)
Edit ==
  /\ edits < MaxEdits
  /\ edits' = edits + 1
  /\ UNCHANGED <<day, clicks, pc, before, at, want, refs, code, seen, dated>>

EditMaster(i) ==
  /\ Edit
  /\ \/ /\ master[i].state = "live"
        /\ master' = [master EXCEPT ![i] = Master(master[i].name, "deleted", TRUE)]
     \/ /\ master[i].state = "deleted"
        /\ \A j \in Ids : /\ j[2] = i[2]
                          /\ master[j].state \in {"pending", "live"}
                          => master[j].name # master[i].name
        /\ master' = [master EXCEPT ![i] = Master(master[i].name, "live", TRUE)]
  /\ UNCHANGED tracker

EditTracker(t) ==
  /\ Edit
  /\ LET x == tracker[t] IN
       \/ /\ x.state = "live"
          /\ tracker' = [tracker EXCEPT ![t] = Tracker(x.code, x.target, x.refs, "deleted", TRUE)]
       \/ /\ x.state = "deleted"
          /\ Owners(x.code, "pending") \cup Owners(x.code, "live") = {}
          /\ tracker' = [tracker EXCEPT ![t] = Tracker(x.code, x.target, x.refs, "live", TRUE)]
       \/ /\ x.state = "live"
          /\ \E y \in Targets \ {x.target} :
               tracker' = [tracker EXCEPT ![t] = Tracker(x.code, y, x.refs, "live", TRUE)]
  /\ UNCHANGED master

resolve_attribution(c) == Seek(c) \/ Miss(c) \/ Name(c) \/ Check(c) \/ InsertMaster(c)
                            \/ InsertRefused(c) \/ CommitMasters(c)

create_tracker(c) == Probe(c) \/ Draw(c) \/ TryCode(c) \/ Reprobe(c) \/ InsertTracker(c)
                       \/ CodeTaken(c) \/ CommitTracker(c)

resolve_redirect(c) == Look(c) \/ Count(c) \/ Click(c) \/ Replay(c) \/ Unkeyable(c)
                         \/ CommitHit(c)

Statement(c) == resolve_attribution(c) \/ create_tracker(c) \/ resolve_redirect(c)

Next ==
  \/ Midnight
  \/ \E i \in Ids : EditMaster(i)
  \/ \E t \in Creates : EditTracker(t)
  \/ \E c \in Calls : Begin(c) \/ Statement(c) \/ Rollback(c)

Spec == Init /\ [][Next]_vars

(* As long as a call can take its next statement, some call does.  Nobody   *)
(* is obliged to call or to edit.                                           *)
Fairness == WF_vars(\E c \in Calls : Statement(c))

FairSpec == Spec /\ Fairness

-----------------------------------------------------------------------------
RowStates == {"absent", "pending", "live", "deleted"}

Triple == [Kinds -> Ids \cup {None}]

(* The variables keep their types, and a row that is not committed belongs  *)
(* to a call that is still going to commit it or to undo it.                *)
TypeOK ==
  /\ day \in 0..MaxDay /\ edits \in Nat
  /\ master \in [Ids -> [name : Names \cup {None}, state : RowStates, touched : BOOLEAN]]
  /\ tracker \in [Creates -> [code : Codes \cup {None}, target : Targets \cup {None},
                              refs : Triple, state : RowStates, touched : BOOLEAN]]
  /\ clicks \subseteq Hits
  /\ pc \in [Calls -> Steps]
  /\ before \in [Calls -> SUBSET Calls]
  /\ at \in [Calls -> Nat]
  /\ want \in [Minters -> Names \cup {None}]
  /\ refs \in [Calls -> Triple]
  /\ code \in [Creates -> Codes \cup {None}]
  /\ seen \in [Creates \cup Hits -> Creates \cup {None}]
  /\ dated \in [Hits -> 0..MaxDay]
  /\ \A i \in Ids : master[i].state = "pending" =>
                      pc[i[1]] \in {"seeking", "naming", "named", "written"}
  /\ \A t \in Creates : tracker[t].state = "pending" => pc[t] = "inserted"

(* "unknown names minted", and only those: a call mints no master if one    *)
(* that answers to the name it resolves, in any spelling, was committed     *)
(* before the call began and nobody edited it since.                        *)
OnlyUnknownNamesAreMinted ==
  \A c \in Of({"resolve"}), k \in Kinds : \A d \in before[c] \cap Minters :
    /\ pc[c] = "done"
    /\ master[<<c, k>>].state # "absent"
    /\ master[<<d, k>>].state = "live"
    /\ ~master[<<d, k>>].touched
    => \/ master[<<d, k>>].name.base # c.value[k].base
       \/ master[<<d, k>>].name.counter # c.value[k].counter

(* "idempotent on the 5-tuple": two trackers of one tuple come from creates *)
(* that overlap.  A create mints none if one was committed for the tuple,   *)
(* attribution present or absent, before it began and stayed as it was.     *)
OnlyRacesDuplicate ==
  \A c \in Creates : \A d \in before[c] \cap Creates :
    /\ pc[c] = "done" /\ seen[c] = c
    /\ tracker[d].state = "live" /\ ~tracker[d].touched
    => tracker[d].target # c.target \/ tracker[d].refs # refs[c]

(* "One live code per tracker" and one live tracker per code, although a    *)
(* code is found free in one transaction and inserted in another, deleted   *)
(* trackers give theirs up, and restored ones want them back.               *)
CodesAreOwned ==
  \A s, t \in Creates :
    /\ s # t
    /\ tracker[s].state = "live"
    /\ tracker[t].state = "live"
    => tracker[s].code # tracker[t].code

(* The cap is counted and the click inserted without a lock; what holds is  *)
(* that the hits which pass it together have a connection each, so that the *)
(* connections of all processes bound how many do.                          *)
CapOverrunIsBounded ==
  \A t \in Creates : Cardinality(ClicksOf(t)) <= MaxClicks + Connections - 1

Visit == [h \in Hits |-> IF pc[h] = "done" THEN <<seen[h], h.ip, dated[h]>> ELSE None]

Ledger == INSTANCE ClickLedger
            WITH Trackers <- Creates, Days <- 0..MaxDay, visit <- Visit

(* Repeated activation converges: replays, concurrent or around midnight,   *)
(* count one click per tracker, address and day, and nobody is sent on      *)
(* uncounted below the cap.                                                 *)
ClicksAreExact == Ledger!LedgerSpec

(* Calls that began end: neither the connections nor the waits for names,   *)
(* codes and dedup keys leave calls waiting for one another.                *)
EveryCallEnds == <>[](\A c \in Calls : pc[c] \in {"idle"} \cup Ended)
=============================================================================
