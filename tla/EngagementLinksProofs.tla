------------------------- MODULE EngagementLinksProofs -------------------------
(***************************************************************************)
(* Proofs about EngagementLinks, for any calls, names, codes, cap and pool *)
(* of connections: names in use are reused, tuples are minted twice only   *)
(* by creates that overlap, codes have one owner, the click cap is passed  *)
(* by a bounded number of clicks, and clicks implement ClickLedger; and    *)
(* about RedirectTarget: redirects keep their target.                      *)
(*                                                                         *)
(* TypeInv says what every step relies on: the types, where a call stands  *)
(* at its step (Control), and that a call which has settled no name wrote  *)
(* no row.  The frames after it show that a step which keeps its own call  *)
(* in order keeps TypeInv; Own, that a step changes the rows of its own    *)
(* call only.  Each property then has an invariant about one or two calls. *)
(***************************************************************************)
EXTENDS EngagementLinks, RedirectTarget, FiniteSetTheorems, SequenceTheorems,
        WellFoundedInduction, TLAPS

(* Where a call stands at its step.                                         *)
ControlOf(c) ==
  /\ pc[c] = "seeking" => c.verb = "resolve"
  /\ pc[c] = "checking" => c.verb = "author"
  /\ pc[c] \in {"checking", "naming", "named", "written"} => c \in Minters
  /\ pc[c] \in {"probing", "unfound", "coding", "coded", "clear", "inserted"} => c \in Creates
  /\ pc[c] \in {"looking", "found", "counted", "clicked", "over"} => c \in Hits
  /\ c.verb = "resolve" /\ pc[c] \in {"seeking", "naming", "named"} => at[c] \in 1..3
  /\ c.verb = "author" => at[c] = 0
  /\ pc[c] = "naming" => at[c] <= 1
  /\ pc[c] = "coding" => at[c] \in MinLength..MaxLength
  /\ c \in Minters /\ pc[c] \in {"checking", "naming", "named"} => want[c] \in Names
  /\ c \in Creates /\ pc[c] \in {"coded", "clear", "inserted"} => code[c] \in Codes
  /\ c \in Hits /\ pc[c] \in {"found", "counted", "clicked", "over", "done"} => seen[c] \in Creates

Control == \A c \in Calls : ControlOf(c)

MasterRow == [name : Names \cup {None}, state : RowStates, touched : BOOLEAN]

TrackerRow ==
  [code : Codes \cup {None}, target : Targets \cup {None}, refs : Triple,
   state : RowStates, touched : BOOLEAN]

(* A call that has settled no name yet has written no row.                  *)
Unwritten ==
  \A i \in Ids :
    pc[i[1]] \in {"seeking", "naming", "named"} /\ at[i[1]] <= 1 => master[i].state # "pending"

TypeInv == TypeOK /\ Control /\ Unwritten

-----------------------------------------------------------------------------
(* A call is of one verb.                                                   *)
LEMMA Roles ==
  /\ \A c \in Calls : c \in Minters \/ c \in Creates \/ c \in Hits
  /\ Minters \subseteq Calls /\ Creates \subseteq Calls /\ Hits \subseteq Calls
  /\ \A c \in Minters : c \notin Creates /\ c \notin Hits /\ c.verb \in {"resolve", "author"}
  /\ \A c \in Creates : c \notin Hits /\ c.verb = "track"
  /\ \A c \in Hits : c.verb = "hit"
  /\ \A c \in Calls : c.verb \in {"resolve", "author"} => c \in Minters
  BY EngagementAssumption DEF Minters, Creates, Hits, Of, Verbs

LEMMA KindType ==
  ASSUME TypeInv, NEW c \in Minters, pc[c] \in {"seeking", "naming", "named"}
  PROVE  Kind(c) \in Kinds /\ <<c, Kind(c)>> \in Ids
<1>1. c.verb = "author" \/ (c.verb = "resolve" /\ at[c] \in 1..3)
  BY Roles DEF TypeInv, Control, ControlOf
<1>2. Kind(c) \in Kinds
  BY <1>1 DEF Kind, Kinds, Order
<1> QED BY <1>2 DEF Ids

LEMMA NamesAreCounted ==
  ASSUME NEW v \in Names, NEW n \in 0..MaxCounter
  PROVE  [v EXCEPT !.counter = n] \in Names /\ v.counter \in Nat
  BY EngagementAssumption

LEMMA InitTypeInv == Init => TypeInv
<1> SUFFICES ASSUME Init PROVE TypeInv
  OBVIOUS
<1>1. MaxDay \in Nat
  BY EngagementAssumption
<1>2. TypeOK
  BY <1>1, Roles DEF Init, TypeOK, Master, Tracker, NoRefs, Triple, RowStates, Steps, Ended
<1>3. Control
  BY Roles DEF Init, Control, ControlOf
<1>4. Unwritten
  BY Roles DEF Init, Unwritten, Ids
<1> QED BY <1>2, <1>3, <1>4 DEF TypeInv

(* After a name is settled.                                                 *)
LEMMA OnwardType ==
  ASSUME TypeInv, NEW c \in Minters, pc[c] \in {"seeking", "named"}, Onward(c)
  PROVE  /\ pc' = [pc EXCEPT ![c] = pc'[c]]
         /\ at' = [at EXCEPT ![c] = at'[c]]
         /\ pc'[c] \in {"seeking", "written"}
         /\ at'[c] \in Nat
         /\ pc'[c] = "seeking" => c.verb = "resolve" /\ at'[c] \in 2..3
         /\ c.verb = "author" => at'[c] = 0
<1>1. (c.verb = "author" /\ at[c] = 0) \/ (c.verb = "resolve" /\ at[c] \in 1..3)
  BY Roles DEF TypeInv, Control, ControlOf
<1>2. c \in Calls /\ pc \in [Calls -> Steps] /\ at \in [Calls -> Nat]
  BY Roles DEF TypeInv, TypeOK
<1>3. CASE c.verb = "author" \/ at[c] = Len(Order)
  BY <1>1, <1>2, <1>3 DEF Onward, Goto
<1>4. CASE ~(c.verb = "author" \/ at[c] = Len(Order))
  <2>1. at[c] \in 1..2
    BY <1>1, <1>4 DEF Order
  <2>2. at' = [at EXCEPT ![c] = at[c] + 1] /\ pc' = [pc EXCEPT ![c] = "seeking"]
    BY <1>4 DEF Onward, Goto
  <2> QED BY <1>1, <1>2, <1>4, <2>1, <2>2
<1> QED BY <1>3, <1>4

LEMMA ReferType ==
  ASSUME TypeInv, NEW c \in Minters, pc[c] \in {"seeking", "named"}, NEW i \in Ids, Refer(c, i)
  PROVE  refs' \in [Calls -> Triple]
<1>1. Kind(c) \in Kinds /\ c \in Calls
  BY KindType, Roles
<1>2. refs[c] \in Triple
  BY <1>1 DEF TypeInv, TypeOK
<1>3. [refs[c] EXCEPT ![Kind(c)] = i] \in Triple
  BY <1>1, <1>2 DEF Triple
<1>4. refs' = [refs EXCEPT ![c] = [refs[c] EXCEPT ![Kind(c)] = i]]
  BY DEF Refer
<1> QED BY <1>1, <1>3, <1>4 DEF TypeInv, TypeOK

-----------------------------------------------------------------------------
(* A step of a minter c, whatever it does to its own rows, keeps the types  *)
(* if c itself is where it should be.                                       *)
LEMMA MinterFrame ==
  ASSUME TypeInv, NEW c \in Minters,
         UNCHANGED <<day, edits, tracker, clicks, before, code, seen, dated>>,
         pc' = [pc EXCEPT ![c] = pc'[c]],
         at' = [at EXCEPT ![c] = at'[c]],
         want' = [want EXCEPT ![c] = want'[c]],
         refs' \in [Calls -> Triple],
         pc[c] \notin {"idle", "inserted"},
         pc'[c] \in {"seeking", "checking", "naming", "named", "written"} \cup Ended,
         at'[c] \in Nat, want'[c] \in Names \cup {None}, ControlOf(c)',
         master' \in [Ids -> MasterRow],
         \A i \in Ids : i[1] # c => master'[i] = master[i],
         \A i \in Ids : i[1] = c /\ master'[i].state = "pending" =>
           \/ pc'[c] = "written"
           \/ pc'[c] \in {"seeking", "naming", "named"} /\ at'[c] > 1
  PROVE  TypeInv'
<1>t. TypeOK /\ Control /\ Unwritten
  BY DEF TypeInv
<1>c. c \in Calls /\ c \notin Creates
  BY Roles
<1>1. \A d \in Calls \ {c} : pc'[d] = pc[d] /\ at'[d] = at[d]
  BY <1>t, <1>c DEF TypeOK
<1>2. \A d \in Minters \ {c} : want'[d] = want[d]
  BY <1>t DEF TypeOK
<1>3. \A i \in Ids : i[1] \in Minters /\ i[1] \in Calls
  BY Roles DEF Ids
<1>4. pc' \in [Calls -> Steps] /\ at' \in [Calls -> Nat] /\ want' \in [Minters -> Names \cup {None}]
  <2>1. pc'[c] \in Steps
    BY DEF Steps, Ended
  <2> QED BY <1>t, <1>c, <2>1 DEF TypeOK
<1>5. \A i \in Ids : master'[i].state = "pending" =>
                       pc'[i[1]] \in {"seeking", "naming", "named", "written"}
  <2>1. ASSUME NEW i \in Ids, i[1] # c, master'[i].state = "pending"
        PROVE  pc'[i[1]] \in {"seeking", "naming", "named", "written"}
    <3>1. pc[i[1]] \in {"seeking", "naming", "named", "written"}
      BY <1>t, <2>1 DEF TypeOK
    <3> QED BY <1>1, <1>3, <2>1, <3>1
  <2> QED BY <2>1
<1>6. \A t \in Creates : tracker'[t].state = "pending" => pc'[t] = "inserted"
  BY <1>t, <1>c, <1>1, Roles DEF TypeOK
<1>7. TypeOK'
  <2>1. master' \in [Ids -> [name : Names \cup {None}, state : RowStates, touched : BOOLEAN]]
    BY DEF MasterRow
  <2> QED BY <1>t, <1>4, <1>5, <1>6, <2>1 DEF TypeOK
<1>8. Control'
  <2>1. ASSUME NEW d \in Calls, d # c PROVE ControlOf(d)'
    <3>1. ControlOf(d)
      BY <1>t DEF Control
    <3> QED BY <1>1, <1>2, <2>1, <3>1 DEF ControlOf
  <2> QED BY <2>1 DEF Control
<1>9. Unwritten'
  <2>1. ASSUME NEW i \in Ids, i[1] # c, pc'[i[1]] \in {"seeking", "naming", "named"},
               at'[i[1]] <= 1
        PROVE  master'[i].state # "pending"
    BY <1>t, <1>1, <1>3, <2>1 DEF Unwritten
  <2>2. ASSUME NEW i \in Ids, i[1] = c, pc'[c] \in {"seeking", "naming", "named"}, at'[c] <= 1
        PROVE  master'[i].state # "pending"
    BY <2>2
  <2> QED BY <2>1, <2>2 DEF Unwritten
<1> QED BY <1>7, <1>8, <1>9 DEF TypeInv

(* ... the same of a create,                                                *)
LEMMA CreateFrame ==
  ASSUME TypeInv, NEW c \in Creates,
         UNCHANGED <<day, edits, master, clicks, before, want, dated>>,
         pc' = [pc EXCEPT ![c] = pc'[c]],
         at' = [at EXCEPT ![c] = at'[c]],
         code' = [code EXCEPT ![c] = code'[c]],
         seen' = [seen EXCEPT ![c] = seen'[c]],
         refs' \in [Calls -> Triple],
         pc'[c] \in {"probing", "unfound", "coding", "coded", "clear", "inserted"} \cup Ended,
         at'[c] \in Nat, code'[c] \in Codes \cup {None}, seen'[c] \in Creates \cup {None},
         ControlOf(c)',
         tracker' \in [Creates -> TrackerRow],
         \A t \in Creates \ {c} : tracker'[t] = tracker[t],
         tracker'[c].state = "pending" => pc'[c] = "inserted"
  PROVE  TypeInv'
<1>t. TypeOK /\ Control /\ Unwritten
  BY DEF TypeInv
<1>c. c \in Calls /\ c \notin Minters /\ c \notin Hits
  BY Roles
<1>1. \A d \in Calls \ {c} : pc'[d] = pc[d] /\ at'[d] = at[d]
  BY <1>t, <1>c DEF TypeOK
<1>2. /\ \A d \in Creates \ {c} : code'[d] = code[d]
      /\ \A d \in Hits : seen'[d] = seen[d]
  BY <1>t, <1>c DEF TypeOK
<1>3. \A i \in Ids : i[1] # c /\ i[1] \in Calls
  BY <1>c, Roles DEF Ids
<1>4. /\ pc' \in [Calls -> Steps] /\ at' \in [Calls -> Nat]
      /\ code' \in [Creates -> Codes \cup {None}]
      /\ seen' \in [Creates \cup Hits -> Creates \cup {None}]
  <2>1. pc'[c] \in Steps
    BY DEF Steps, Ended
  <2> QED BY <1>t, <1>c, <2>1 DEF TypeOK
<1>5. \A i \in Ids : master'[i].state = "pending" =>
                       pc'[i[1]] \in {"seeking", "naming", "named", "written"}
  BY <1>t, <1>1, <1>3 DEF TypeOK
<1>6. \A t \in Creates : tracker'[t].state = "pending" => pc'[t] = "inserted"
  BY <1>t, <1>1, Roles DEF TypeOK
<1>7. TypeOK'
  <2>1. tracker' \in [Creates -> [code : Codes \cup {None}, target : Targets \cup {None},
                                  refs : Triple, state : RowStates, touched : BOOLEAN]]
    BY DEF TrackerRow
  <2> QED BY <1>t, <1>4, <1>5, <1>6, <2>1 DEF TypeOK
<1>8. Control'
  <2>1. ASSUME NEW d \in Calls, d # c PROVE ControlOf(d)'
    <3>1. ControlOf(d)
      BY <1>t DEF Control
    <3> QED BY <1>1, <1>2, <2>1, <3>1 DEF ControlOf
  <2> QED BY <2>1 DEF Control
<1>9. Unwritten'
  BY <1>t, <1>1, <1>3 DEF Unwritten
<1> QED BY <1>7, <1>8, <1>9 DEF TypeInv

(* ... and of a hit.                                                        *)
LEMMA HitFrame ==
  ASSUME TypeInv, NEW c \in Hits,
         UNCHANGED <<day, edits, master, tracker, before, at, want, refs, code>>,
         pc' = [pc EXCEPT ![c] = pc'[c]],
         seen' = [seen EXCEPT ![c] = seen'[c]],
         dated' = [dated EXCEPT ![c] = dated'[c]],
         clicks' \subseteq Hits,
         pc'[c] \in {"looking", "found", "counted", "clicked", "over"} \cup Ended,
         seen'[c] \in Creates \cup {None}, dated'[c] \in 0..MaxDay,
         ControlOf(c)'
  PROVE  TypeInv'
<1>t. TypeOK /\ Control /\ Unwritten
  BY DEF TypeInv
<1>c. c \in Calls /\ c \notin Minters /\ c \notin Creates
  BY Roles
<1>1. \A d \in Calls \ {c} : pc'[d] = pc[d]
  BY <1>t, <1>c DEF TypeOK
<1>2. \A d \in Hits \ {c} : seen'[d] = seen[d]
  BY <1>t, <1>c DEF TypeOK
<1>3. \A i \in Ids : i[1] # c /\ i[1] \in Calls
  BY <1>c, Roles DEF Ids
<1>4. /\ pc' \in [Calls -> Steps] /\ dated' \in [Hits -> 0..MaxDay]
      /\ seen' \in [Creates \cup Hits -> Creates \cup {None}]
  <2>1. pc'[c] \in Steps
    BY DEF Steps, Ended
  <2> QED BY <1>t, <1>c, <2>1 DEF TypeOK
<1>5. \A i \in Ids : master'[i].state = "pending" =>
                       pc'[i[1]] \in {"seeking", "naming", "named", "written"}
  BY <1>t, <1>1, <1>3 DEF TypeOK
<1>6. \A t \in Creates : tracker'[t].state = "pending" => pc'[t] = "inserted"
  BY <1>t, <1>c, <1>1, Roles DEF TypeOK
<1>7. TypeOK'
  BY <1>t, <1>4, <1>5, <1>6 DEF TypeOK
<1>8. Control'
  <2>1. ASSUME NEW d \in Calls, d # c PROVE ControlOf(d)'
    <3>1. ControlOf(d)
      BY <1>t DEF Control
    <3> QED BY <1>1, <1>2, <2>1, <3>1 DEF ControlOf
  <2> QED BY <2>1 DEF Control
<1>9. Unwritten'
  BY <1>t, <1>1, <1>3 DEF Unwritten
<1> QED BY <1>7, <1>8, <1>9 DEF TypeInv

-----------------------------------------------------------------------------
(* A dropped or refused transaction.                                        *)
LEMMA UndoTypes ==
  ASSUME TypeInv, NEW c \in Calls, pc[c] \notin {"idle"} \cup Ended, Undo(c),
         pc' = [pc EXCEPT ![c] = "failed"],
         UNCHANGED <<day, edits, clicks, before, at, want, refs, code, seen, dated>>
  PROVE  TypeInv'
<1>t. TypeOK /\ Control /\ Unwritten
  BY DEF TypeInv
<1>0. ControlOf(c) /\ pc'[c] = "failed"
  BY <1>t DEF Control, TypeOK
<1>1. ControlOf(c)'
  BY <1>0 DEF ControlOf
<1>5. /\ UNCHANGED <<day, edits, clicks, before, at, want, refs, code, seen, dated>>
      /\ pc' = [pc EXCEPT ![c] = pc'[c]]
      /\ at' = [at EXCEPT ![c] = at'[c]] /\ at'[c] \in Nat
      /\ refs' \in [Calls -> Triple] /\ clicks' \subseteq Hits
  BY <1>t, <1>0 DEF TypeOK
<1>2. CASE c \in Minters
  <2>1. tracker' = tracker
    <3>1. \A t \in Creates : tracker'[t] = tracker[t]
      BY <1>2, Roles DEF Undo
    <3>2. tracker' = [t \in Creates |-> tracker'[t]] /\ tracker = [t \in Creates |-> tracker[t]]
      BY <1>t DEF Undo, TypeOK
    <3> QED BY <3>1, <3>2
  <2>2. \A i \in Ids : /\ i[1] # c => master'[i] = master[i]
                       /\ i[1] = c => master'[i] = [name |-> None, state |-> "absent", touched |-> FALSE]
    BY DEF Undo, Master
  <2>3. master' \in [Ids -> MasterRow]
    <3>1. master' = [i \in Ids |-> master'[i]]
      BY DEF Undo
    <3>2. ASSUME NEW i \in Ids PROVE master'[i] \in MasterRow
      <4>1. CASE i[1] = c
        <5>1. master'[i] = [name |-> None, state |-> "absent", touched |-> FALSE]
          BY <2>2, <4>1
        <5> QED BY <5>1 DEF MasterRow, RowStates
      <4>2. CASE i[1] # c
        BY <1>t, <2>2, <4>2 DEF MasterRow, TypeOK
      <4> QED BY <4>1, <4>2
    <3> QED BY <3>1, <3>2
  <2>4. pc[c] # "inserted"
    BY <1>0, <1>2, Roles DEF ControlOf
  <2>5. want' = [want EXCEPT ![c] = want'[c]] /\ want'[c] \in Names \cup {None}
    BY <1>t, <1>2 DEF TypeOK
  <2>6. \A i \in Ids : i[1] = c => master'[i].state # "pending"
    BY <2>2
  <2> QED BY <1>0, <1>1, <1>2, <1>5, <2>1, <2>2, <2>3, <2>4, <2>5, <2>6, MinterFrame DEF Ended
<1>3. CASE c \notin Minters
  <2>1. master' = master
    <3>1. \A i \in Ids : master'[i] = master[i]
      BY <1>3 DEF Undo, Ids
    <3>2. master' = [i \in Ids |-> master'[i]] /\ master = [i \in Ids |-> master[i]]
      BY <1>t DEF Undo, TypeOK
    <3> QED BY <3>1, <3>2
  <2>2. \A t \in Creates : /\ t # c => tracker'[t] = tracker[t]
                           /\ t = c => tracker'[t] = [code |-> None, target |-> None, refs |-> NoRefs,
                                                      state |-> "absent", touched |-> FALSE]
    BY DEF Undo, Tracker
  <2>3. CASE c \in Creates
    <3>1. tracker' \in [Creates -> TrackerRow]
      <4>1. tracker' = [t \in Creates |-> tracker'[t]]
        BY DEF Undo
      <4>2. NoRefs \in Triple
        BY DEF NoRefs, Triple
      <4>3. ASSUME NEW t \in Creates PROVE tracker'[t] \in TrackerRow
        <5>1. CASE t = c
          <6>1. tracker'[t] = [code |-> None, target |-> None, refs |-> NoRefs,
                               state |-> "absent", touched |-> FALSE]
            BY <2>2, <5>1
          <6> QED BY <4>2, <6>1 DEF TrackerRow, RowStates
        <5>2. CASE t # c
          BY <1>t, <2>2, <5>2 DEF TrackerRow, TypeOK
        <5> QED BY <5>1, <5>2
      <4> QED BY <4>1, <4>3
    <3>2. /\ code' = [code EXCEPT ![c] = code'[c]] /\ code'[c] \in Codes \cup {None}
          /\ seen' = [seen EXCEPT ![c] = seen'[c]] /\ seen'[c] \in Creates \cup {None}
      BY <1>t, <2>3 DEF TypeOK
    <3>3. tracker'[c].state # "pending"
      BY <2>2, <2>3
    <3> QED BY <1>0, <1>1, <1>5, <2>1, <2>2, <2>3, <3>1, <3>2, <3>3, CreateFrame DEF Ended
  <2>4. CASE c \in Hits
    <3>1. tracker' = tracker
      <4>1. \A t \in Creates : tracker'[t] = tracker[t]
        BY <2>2, <2>4, Roles
      <4>2. tracker' = [t \in Creates |-> tracker'[t]] /\ tracker = [t \in Creates |-> tracker[t]]
        BY <1>t DEF Undo, TypeOK
      <4> QED BY <4>1, <4>2
    <3>2. /\ seen' = [seen EXCEPT ![c] = seen'[c]] /\ seen'[c] \in Creates \cup {None}
          /\ dated' = [dated EXCEPT ![c] = dated'[c]] /\ dated'[c] \in 0..MaxDay
      BY <1>t, <2>4 DEF TypeOK
    <3> QED BY <1>0, <1>1, <1>5, <2>1, <2>4, <3>1, <3>2, HitFrame DEF Ended
  <2> QED BY <1>3, <2>3, <2>4, Roles
<1> QED BY <1>2, <1>3

(* The statements of resolve_attribution and create_campaign.               *)
LEMMA MinterTypes ==
  ASSUME TypeInv, NEW c \in Calls, resolve_attribution(c)
  PROVE  TypeInv'
<1>t. TypeOK /\ Control /\ Unwritten /\ ControlOf(c)
  BY DEF TypeInv, Control
<1>k. pc[c] \in {"seeking", "checking", "naming", "named", "written"} /\ c \in Minters
  BY <1>t, Roles DEF ControlOf, resolve_attribution, Seek, Miss, Name, Check, InsertMaster,
                     InsertRefused, CommitMasters
<1>r. c.verb \in {"resolve", "author"} /\ c \notin Creates /\ c \notin Hits
  BY <1>k, Roles
<1>v. pc[c] = "seeking" => c.verb = "resolve" /\ Kind(c) \in Kinds
        /\ c.value[Kind(c)] \in Names \cup {None}
  BY <1>t, <1>k, KindType, EngagementAssumption DEF ControlOf, Of
<1>s. /\ pc[c] \notin {"idle", "inserted"} /\ at[c] \in Nat /\ want[c] \in Names \cup {None}
      /\ at = [at EXCEPT ![c] = at[c]] /\ want = [want EXCEPT ![c] = want[c]]
      /\ refs \in [Calls -> Triple] /\ master \in [Ids -> MasterRow]
  BY <1>t, <1>k DEF TypeOK, MasterRow
<1>1. CASE Seek(c)
  <2>1. refs' \in [Calls -> Triple]
    BY <1>1, <1>k, <1>t, ReferType DEF Seek, Live, TypeOK
  <2>2. /\ pc' = [pc EXCEPT ![c] = pc'[c]] /\ at' = [at EXCEPT ![c] = at'[c]]
        /\ pc'[c] \in {"seeking", "written"} /\ at'[c] \in Nat
        /\ pc'[c] = "seeking" => c.verb = "resolve" /\ at'[c] \in 2..3
        /\ c.verb = "author" => at'[c] = 0
    BY <1>1, <1>k, OnwardType DEF Seek
  <2>3. UNCHANGED <<day, edits, master, tracker, clicks, before, want, code, seen, dated>>
    BY <1>1 DEF Seek
  <2>4. ControlOf(c)'
    BY <1>k, <1>r, <2>2 DEF ControlOf
  <2>5. \A i \in Ids : i[1] = c /\ master'[i].state = "pending" =>
          pc'[c] = "written" \/ (pc'[c] \in {"seeking", "naming", "named"} /\ at'[c] > 1)
    BY <2>2
  <2> QED BY <1>k, <1>s, <2>1, <2>2, <2>3, <2>4, <2>5, MinterFrame
<1>2. CASE Miss(c)
  <2>1. /\ pc' = [pc EXCEPT ![c] = pc'[c]] /\ pc'[c] \in {"naming", "named"}
        /\ pc[c] = "seeking" /\ (pc'[c] = "naming" => at[c] <= 1)
    BY <1>2, <1>k, <1>t, <1>v DEF Miss, Goto, TypeOK, Kind, Order, ControlOf
  <2>2. Stripped(c.value[Kind(c)]) \in Names /\ c.value[Kind(c)] \in Names
    <3>1. c.value[Kind(c)] \in Names
      BY <1>2, <1>v DEF Miss
    <3>2. 0 \in 0..MaxCounter
      BY EngagementAssumption
    <3> QED BY <3>1, <3>2, NamesAreCounted DEF Stripped
  <2>3. want' = [want EXCEPT ![c] = want'[c]] /\ want'[c] \in Names
    BY <1>2, <1>k, <1>t, <2>2 DEF Miss, TypeOK
  <2>4. UNCHANGED <<day, edits, master, tracker, clicks, before, at, refs, code, seen, dated>>
    BY <1>2 DEF Miss
  <2>5. ControlOf(c)'
    BY <1>k, <1>r, <1>t, <1>v, <2>1, <2>3, <2>4 DEF ControlOf
  <2>6. ASSUME NEW i \in Ids, i[1] = c, master'[i].state = "pending" PROVE at'[c] > 1
    BY <1>t, <1>s, <2>1, <2>4, <2>6 DEF Unwritten
  <2> QED BY <1>k, <1>s, <2>1, <2>3, <2>4, <2>5, <2>6, MinterFrame
<1>3. CASE Name(c)
  <2>1. /\ pc' = [pc EXCEPT ![c] = pc'[c]] /\ pc'[c] \in {"naming", "named", "refused"}
        /\ pc[c] = "naming"
    BY <1>3, <1>k, <1>t DEF Name, Goto, TypeOK
  <2>2. want' = [want EXCEPT ![c] = want'[c]] /\ want'[c] \in Names
    <3>1. want[c] \in Names
      BY <1>3, <1>k, <1>t, <2>1 DEF ControlOf
    <3>2. CASE UNCHANGED want
      BY <1>s, <3>1, <3>2
    <3>3. CASE want' = [want EXCEPT ![c] = [want[c] EXCEPT !.counter = @ + 1]]
                 /\ want[c].counter < MaxCounter
      <4>0. want[c].counter \in Nat
        BY <3>1, EngagementAssumption
      <4>1. want[c].counter + 1 \in 0..MaxCounter
        BY <3>3, <4>0, EngagementAssumption
      <4>2. [want[c] EXCEPT !.counter = want[c].counter + 1] \in Names
        BY <3>1, <4>1, NamesAreCounted
      <4>3. want' = [want EXCEPT ![c] = [want[c] EXCEPT !.counter = want[c].counter + 1]]
        BY <3>3
      <4> QED BY <1>k, <1>t, <4>2, <4>3 DEF TypeOK
    <3> QED BY <1>3, <3>2, <3>3 DEF Name
  <2>4. UNCHANGED <<day, edits, master, tracker, clicks, before, at, refs, code, seen, dated>>
    BY <1>3 DEF Name
  <2>5. ControlOf(c)'
    BY <1>k, <1>r, <1>t, <2>1, <2>2, <2>4 DEF ControlOf
  <2>6. \A i \in Ids : i[1] = c => master'[i].state # "pending"
    BY <1>t, <2>1, <2>4 DEF Unwritten, ControlOf
  <2> QED BY <1>k, <1>s, <2>1, <2>2, <2>4, <2>5, <2>6, MinterFrame DEF Ended
<1>4. CASE Check(c)
  <2>1. /\ pc' = [pc EXCEPT ![c] = pc'[c]] /\ pc'[c] \in {"named", "refused"}
        /\ pc[c] = "checking"
        /\ UNCHANGED <<day, edits, master, tracker, clicks, before, at, want, refs, code, seen, dated>>
    BY <1>4, <1>k, <1>t DEF Check, Goto, TypeOK
  <2>2. \A i \in Ids : i[1] = c => master'[i].state # "pending"
    BY <1>t, <2>1 DEF TypeOK
  <2>3. ControlOf(c)'
    BY <1>k, <1>r, <1>t, <2>1 DEF ControlOf
  <2> QED BY <1>k, <1>s, <2>1, <2>2, <2>3, MinterFrame DEF Ended
<1>5. CASE InsertMaster(c)
  <2>0. pc[c] = "named" /\ <<c, Kind(c)>> \in Ids /\ want[c] \in Names
    BY <1>5, <1>k, <1>t, KindType DEF InsertMaster, ControlOf
  <2>1. refs' \in [Calls -> Triple]
    BY <1>5, <1>k, <1>t, <2>0, ReferType DEF InsertMaster
  <2>2. /\ pc' = [pc EXCEPT ![c] = pc'[c]] /\ at' = [at EXCEPT ![c] = at'[c]]
        /\ pc'[c] \in {"seeking", "written"} /\ at'[c] \in Nat
        /\ pc'[c] = "seeking" => c.verb = "resolve" /\ at'[c] \in 2..3
        /\ c.verb = "author" => at'[c] = 0
    BY <1>5, <1>k, <2>0, OnwardType DEF InsertMaster
  <2>3. UNCHANGED <<day, edits, tracker, clicks, before, want, code, seen, dated>>
    BY <1>5 DEF InsertMaster
  <2>4. master' = [master EXCEPT ![<<c, Kind(c)>>]
                     = [name |-> want[c], state |-> "pending", touched |-> FALSE]]
    BY <1>5 DEF InsertMaster, Master
  <2>5. master' \in [Ids -> MasterRow]
    BY <1>s, <2>0, <2>4 DEF MasterRow, RowStates
  <2>6. \A i \in Ids : i[1] # c => master'[i] = master[i]
    BY <1>s, <2>0, <2>4
  <2>7. ControlOf(c)'
    BY <1>k, <1>r, <1>t, <2>2, <2>3 DEF ControlOf
  <2> QED BY <1>k, <1>s, <2>1, <2>2, <2>3, <2>5, <2>6, <2>7, MinterFrame
<1>6. CASE InsertRefused(c)
  <2>1. Undo(c) /\ pc' = [pc EXCEPT ![c] = "failed"] /\ UNCHANGED <<day, edits, clicks, before,
          at, want, refs, code, seen, dated>>
    BY <1>6 DEF InsertRefused, Goto
  <2> QED BY <1>k, <2>1, UndoTypes DEF Ended
<1>7. CASE CommitMasters(c)
  <2>1. /\ pc[c] = "written" /\ pc' = [pc EXCEPT ![c] = pc'[c]] /\ pc'[c] = "done"
        /\ UNCHANGED <<day, edits, tracker, clicks, before, at, want, refs, code, seen, dated>>
    BY <1>7, <1>k, <1>t DEF CommitMasters, Goto, TypeOK
  <2>2. \A i \in Ids :
          \/ master'[i] = master[i] /\ (i[1] # c \/ master[i].state # "pending")
          \/ /\ i[1] = c /\ master'[i].state = "live"
             /\ master'[i] = [name |-> master[i].name, state |-> "live", touched |-> FALSE]
    BY <1>7 DEF CommitMasters, Master
  <2>3. master' \in [Ids -> MasterRow]
    <3>1. master' = [i \in Ids |-> master'[i]]
      BY <1>7 DEF CommitMasters
    <3>2. ASSUME NEW i \in Ids PROVE master'[i] \in MasterRow
      <4>1. CASE master'[i] = master[i]
        BY <1>s, <4>1
      <4>2. CASE master'[i] = [name |-> master[i].name, state |-> "live", touched |-> FALSE]
        BY <1>s, <4>2 DEF MasterRow, RowStates
      <4> QED BY <2>2, <4>1, <4>2
    <3> QED BY <3>1, <3>2
  <2>4. \A i \in Ids : /\ i[1] # c => master'[i] = master[i]
                       /\ i[1] = c => master'[i].state # "pending"
    BY <2>2
  <2>5. ControlOf(c)'
    BY <1>k, <1>r, <1>t, <2>1 DEF ControlOf
  <2> QED BY <1>k, <1>s, <2>1, <2>3, <2>4, <2>5, MinterFrame DEF Ended
<1> QED BY <1>1, <1>2, <1>3, <1>4, <1>5, <1>6, <1>7 DEF resolve_attribution

(* The statements of create_tracker.                                        *)
LEMMA CreateTypes ==
  ASSUME TypeInv, NEW c \in Calls, create_tracker(c)
  PROVE  TypeInv'
<1>t. TypeOK /\ Control /\ Unwritten /\ ControlOf(c)
  BY DEF TypeInv, Control
<1>k. pc[c] \in {"probing", "unfound", "coding", "coded", "clear", "inserted"} /\ c \in Creates
  BY <1>t DEF ControlOf, create_tracker, Probe, Draw, TryCode, Reprobe, InsertTracker,
              CodeTaken, CommitTracker
<1>r. c.verb = "track" /\ c \notin Minters /\ c \notin Hits
  BY <1>k, Roles
<1>s. /\ at[c] \in Nat /\ at = [at EXCEPT ![c] = at[c]]
      /\ code[c] \in Codes \cup {None} /\ code = [code EXCEPT ![c] = code[c]]
      /\ seen[c] \in Creates \cup {None} /\ seen = [seen EXCEPT ![c] = seen[c]]
      /\ refs \in [Calls -> Triple] /\ refs[c] \in Triple
      /\ tracker \in [Creates -> TrackerRow]
      /\ c.target \in Targets
  BY <1>t, <1>k, EngagementAssumption DEF TypeOK, TrackerRow
<1>p. pc[c] # "inserted" => tracker[c].state # "pending"
  BY <1>t, <1>k DEF TypeOK
<1>1. CASE Probe(c)
  <2>1. Given \subseteq Triple
    BY <1>t, Roles DEF Given, NoRefs, Triple, TypeOK
  <2>2. refs' \in [Calls -> Triple]
    BY <1>1, <1>s, <2>1 DEF Probe
  <2>3. /\ pc' = [pc EXCEPT ![c] = pc'[c]] /\ pc'[c] \in {"done", "unfound"}
        /\ seen' = [seen EXCEPT ![c] = seen'[c]] /\ seen'[c] \in Creates \cup {None}
        /\ pc[c] = "probing"
        /\ UNCHANGED <<day, edits, master, tracker, clicks, before, at, want, code, dated>>
    BY <1>1, <1>k, <1>s, <1>t DEF Probe, Goto, Matches, TypeOK
  <2>4. ControlOf(c)'
    BY <1>k, <1>r, <2>3 DEF ControlOf
  <2> QED BY <1>k, <1>s, <1>p, <2>2, <2>3, <2>4, CreateFrame DEF Ended
<1>2. CASE Draw(c)
  <2>1. /\ pc' = [pc EXCEPT ![c] = pc'[c]] /\ pc'[c] = "coding" /\ pc[c] = "unfound"
        /\ at' = [at EXCEPT ![c] = at'[c]] /\ at'[c] = MinLength
        /\ UNCHANGED <<day, edits, master, tracker, clicks, before, want, refs, code, seen, dated>>
    BY <1>2, <1>k, <1>t DEF Draw, Goto, TypeOK
  <2>2. at'[c] \in Nat /\ at'[c] \in MinLength..MaxLength
    BY <2>1, EngagementAssumption
  <2>3. ControlOf(c)'
    BY <1>k, <1>r, <2>1, <2>2 DEF ControlOf
  <2> QED BY <1>k, <1>s, <1>p, <2>1, <2>2, <2>3, CreateFrame
<1>3. CASE TryCode(c)
  <2>1. pc[c] = "coding" /\ at[c] \in MinLength..MaxLength
    BY <1>3, <1>t DEF TryCode, ControlOf
  <2>2. /\ pc' = [pc EXCEPT ![c] = pc'[c]] /\ pc'[c] \in {"coding", "coded", "refused"}
        /\ at' = [at EXCEPT ![c] = at'[c]]
        /\ at'[c] = at[c] \/ (at[c] < MaxLength /\ at'[c] = at[c] + 1)
        /\ code' = [code EXCEPT ![c] = code'[c]]
        /\ code'[c] = code[c] \/ code'[c] \in CodesOfLength[at[c]]
        /\ pc'[c] = "coded" => code'[c] \in CodesOfLength[at[c]]
        /\ UNCHANGED <<day, edits, master, tracker, clicks, before, want, refs, seen, dated>>
    BY <1>3, <1>k, <1>s, <1>t DEF TryCode, Goto, TypeOK
  <2>3. at'[c] \in Nat /\ at'[c] \in MinLength..MaxLength
    BY <1>s, <2>1, <2>2, EngagementAssumption
  <2>4. CodesOfLength[at[c]] \subseteq Codes
    BY <2>1 DEF Codes
  <2>5. ControlOf(c)'
    BY <1>k, <1>r, <2>2, <2>3, <2>4 DEF ControlOf
  <2> QED BY <1>k, <1>s, <1>p, <2>1, <2>2, <2>3, <2>4, <2>5, CreateFrame DEF Ended
<1>4. CASE Reprobe(c)
  <2>1. /\ pc' = [pc EXCEPT ![c] = pc'[c]] /\ pc'[c] \in {"done", "clear"}
        /\ seen' = [seen EXCEPT ![c] = seen'[c]] /\ seen'[c] \in Creates \cup {None}
        /\ pc[c] = "coded"
        /\ UNCHANGED <<day, edits, master, tracker, clicks, before, at, want, refs, code, dated>>
    BY <1>4, <1>k, <1>s, <1>t DEF Reprobe, Goto, Matches, TypeOK
  <2>2. ControlOf(c)'
    BY <1>k, <1>r, <1>t, <2>1 DEF ControlOf
  <2> QED BY <1>k, <1>s, <1>p, <2>1, <2>2, CreateFrame DEF Ended
<1>5. CASE InsertTracker(c)
  <2>1. /\ pc' = [pc EXCEPT ![c] = pc'[c]] /\ pc'[c] = "inserted" /\ pc[c] = "clear"
        /\ tracker' = [tracker EXCEPT ![c] = [code |-> code[c], target |-> c.target,
                         refs |-> refs[c], state |-> "pending", touched |-> FALSE]]
        /\ UNCHANGED <<day, edits, master, clicks, before, at, want, refs, code, seen, dated>>
    BY <1>5, <1>k, <1>t DEF InsertTracker, Tracker, Goto, TypeOK
  <2>2. tracker' \in [Creates -> TrackerRow] /\ \A t \in Creates \ {c} : tracker'[t] = tracker[t]
    BY <1>k, <1>s, <2>1 DEF TrackerRow, RowStates
  <2>3. ControlOf(c)'
    BY <1>k, <1>r, <1>t, <2>1 DEF ControlOf
  <2> QED BY <1>k, <1>s, <2>1, <2>2, <2>3, CreateFrame
<1>6. CASE CodeTaken(c)
  <2>1. /\ pc' = [pc EXCEPT ![c] = pc'[c]] /\ pc'[c] = "failed" /\ pc[c] = "clear"
        /\ UNCHANGED <<day, edits, master, tracker, clicks, before, at, want, refs, code, seen, dated>>
    BY <1>6, <1>k, <1>t DEF CodeTaken, Goto, TypeOK
  <2>2. ControlOf(c)'
    BY <1>k, <1>r, <2>1 DEF ControlOf
  <2> QED BY <1>k, <1>s, <1>p, <2>1, <2>2, CreateFrame DEF Ended
<1>7. CASE CommitTracker(c)
  <2>1. /\ pc' = [pc EXCEPT ![c] = pc'[c]] /\ pc'[c] = "done" /\ pc[c] = "inserted"
        /\ tracker' = [tracker EXCEPT ![c] = [code |-> code[c], target |-> c.target,
                         refs |-> refs[c], state |-> "live", touched |-> FALSE]]
        /\ seen' = [seen EXCEPT ![c] = seen'[c]] /\ seen'[c] = c
        /\ UNCHANGED <<day, edits, master, clicks, before, at, want, refs, code, dated>>
    BY <1>7, <1>k, <1>t DEF CommitTracker, Tracker, Goto, TypeOK
  <2>2. /\ tracker' \in [Creates -> TrackerRow] /\ tracker'[c].state = "live"
        /\ \A t \in Creates \ {c} : tracker'[t] = tracker[t]
    BY <1>k, <1>s, <2>1 DEF TrackerRow, RowStates
  <2>3. ControlOf(c)'
    BY <1>k, <1>r, <2>1 DEF ControlOf
  <2> QED BY <1>k, <1>s, <2>1, <2>2, <2>3, CreateFrame DEF Ended
<1> QED BY <1>1, <1>2, <1>3, <1>4, <1>5, <1>6, <1>7 DEF create_tracker

(* The statements of resolve_redirect.                                      *)
LEMMA HitTypes ==
  ASSUME TypeInv, NEW c \in Calls, resolve_redirect(c)
  PROVE  TypeInv'
<1>t. TypeOK /\ Control /\ Unwritten /\ ControlOf(c)
  BY DEF TypeInv, Control
<1>k. pc[c] \in {"looking", "found", "counted", "clicked", "over"} /\ c \in Hits
  BY <1>t DEF ControlOf, resolve_redirect, Look, Count, Click, Replay, Unkeyable, CommitHit
<1>r. c.verb = "hit" /\ c \notin Minters /\ c \notin Creates
  BY <1>k, Roles
<1>s. /\ seen[c] \in Creates \cup {None} /\ seen = [seen EXCEPT ![c] = seen[c]]
      /\ dated[c] \in 0..MaxDay /\ dated = [dated EXCEPT ![c] = dated[c]]
      /\ clicks \subseteq Hits /\ day \in 0..MaxDay
  BY <1>t, <1>k DEF TypeOK
<1>1. CASE Look(c)
  <2>1. /\ pc' = [pc EXCEPT ![c] = pc'[c]] /\ pc'[c] \in {"found", "refused"}
        /\ seen' = [seen EXCEPT ![c] = seen'[c]] /\ seen'[c] \in Creates \cup {None}
        /\ pc'[c] = "found" => seen'[c] \in Creates
        /\ UNCHANGED <<day, edits, master, tracker, clicks, before, at, want, refs, code, dated>>
    BY <1>1, <1>k, <1>s, <1>t DEF Look, Goto, Owners, TypeOK
  <2>2. ControlOf(c)'
    BY <1>k, <1>r, <2>1 DEF ControlOf
  <2> QED BY <1>k, <1>s, <2>1, <2>2, HitFrame DEF Ended
<1>2. CASE Count(c)
  <2>1. /\ pc' = [pc EXCEPT ![c] = pc'[c]] /\ pc'[c] \in {"over", "counted"} /\ pc[c] = "found"
        /\ dated' = [dated EXCEPT ![c] = dated'[c]] /\ dated'[c] = day
        /\ UNCHANGED <<day, edits, master, tracker, clicks, before, at, want, refs, code, seen>>
    BY <1>2, <1>k, <1>t DEF Count, Goto, TypeOK
  <2>2. ControlOf(c)'
    BY <1>k, <1>r, <1>t, <2>1 DEF ControlOf
  <2> QED BY <1>k, <1>s, <2>1, <2>2, HitFrame
<1>3. CASE Click(c) \/ Replay(c) \/ Unkeyable(c)
  <2>1. /\ pc' = [pc EXCEPT ![c] = pc'[c]] /\ pc'[c] \in {"clicked", "over", "failed"}
        /\ pc[c] = "counted"
        /\ UNCHANGED <<day, edits, master, tracker, clicks, before, at, want, refs, code, seen, dated>>
    BY <1>3, <1>k, <1>t DEF Click, Replay, Unkeyable, Goto, TypeOK
  <2>2. ControlOf(c)'
    BY <1>k, <1>r, <1>t, <2>1 DEF ControlOf
  <2> QED BY <1>k, <1>s, <2>1, <2>2, HitFrame DEF Ended
<1>4. CASE CommitHit(c)
  <2>1. /\ pc' = [pc EXCEPT ![c] = pc'[c]] /\ pc'[c] = "done" /\ pc[c] \in {"clicked", "over"}
        /\ clicks' \subseteq Hits
        /\ UNCHANGED <<day, edits, master, tracker, before, at, want, refs, code, seen, dated>>
    BY <1>4, <1>k, <1>s, <1>t DEF CommitHit, Goto, TypeOK
  <2>2. ControlOf(c)'
    BY <1>k, <1>r, <1>t, <2>1 DEF ControlOf
  <2> QED BY <1>k, <1>s, <2>1, <2>2, HitFrame DEF Ended
<1> QED BY <1>1, <1>2, <1>3, <1>4 DEF resolve_redirect

LEMMA BeginTypes ==
  ASSUME TypeInv, NEW c \in Calls, Begin(c)
  PROVE  TypeInv'
<1>t. TypeOK /\ Control /\ Unwritten
  BY DEF TypeInv
<1>1. /\ pc[c] = "idle" /\ pc' = [pc EXCEPT ![c] = First(c)]
      /\ before' = [before EXCEPT ![c] = {d \in Calls : pc[d] = "done"}]
      /\ at' = [at EXCEPT ![c] = IF c.verb = "resolve" THEN 1 ELSE 0]
      /\ UNCHANGED <<day, edits, master, tracker, clicks, refs, code, seen, dated>>
  BY DEF Begin, Goto
<1>2. \A d \in Calls \ {c} : pc'[d] = pc[d] /\ at'[d] = at[d]
  BY <1>t, <1>1 DEF TypeOK
<1>3. c.verb \in Verbs /\ pc'[c] = First(c)
        /\ at'[c] = (IF c.verb = "resolve" THEN 1 ELSE 0)
  BY <1>t, <1>1, EngagementAssumption DEF TypeOK
<1>4. /\ c.verb = "resolve" => pc'[c] = "seeking" /\ c \in Minters /\ at'[c] = 1
      /\ c.verb = "author" => pc'[c] \in {"naming", "checking"} /\ c \in Minters /\ at'[c] = 0
      /\ c.verb = "track" => pc'[c] = "probing" /\ c \in Creates /\ at'[c] = 0
      /\ c.verb = "hit" => pc'[c] = "looking" /\ c \in Hits /\ at'[c] = 0
  BY <1>3 DEF First, Minters, Creates, Hits, Of
<1>5. c.verb = "author" =>
        want' = [want EXCEPT ![c] = want'[c]] /\ want'[c] \in Names
  <2>1. ASSUME c.verb = "author" PROVE c.title \in Names /\ c.explicit \in Names \cup {None}
    BY <2>1, EngagementAssumption DEF Of
  <2>2. ASSUME c.verb = "author" PROVE Stripped(c.title) \in Names
    <3>1. 0 \in 0..MaxCounter
      BY EngagementAssumption
    <3> QED BY <2>1, <2>2, <3>1, NamesAreCounted DEF Stripped
  <2> QED BY <1>t, <1>4, <2>1, <2>2 DEF Begin, TypeOK
<1>6. c.verb # "author" => want' = want
  BY DEF Begin
<1>7. \A d \in Minters \ {c} : want'[d] = want[d]
  BY <1>t, <1>4, <1>5, <1>6 DEF TypeOK
<1>8. pc' \in [Calls -> Steps] /\ at' \in [Calls -> Nat] /\ before' \in [Calls -> SUBSET Calls]
        /\ want' \in [Minters -> Names \cup {None}]
  <2>1. pc'[c] \in Steps
    BY <1>3, <1>4 DEF Verbs, Steps
  <2>2. at'[c] \in Nat
    BY <1>3
  <2> QED BY <1>t, <1>1, <1>4, <1>5, <1>6, <2>1, <2>2 DEF TypeOK
<1>9. \A i \in Ids : i[1] \in Minters /\ i[1] \in Calls /\ (i[1] = c => master[i].state # "pending")
  BY <1>t, <1>1, Roles DEF TypeOK, Ids
<1>10. \A t \in Creates : t \in Calls /\ (t = c => tracker[t].state # "pending")
  BY <1>t, <1>1, Roles DEF TypeOK
<1>11. TypeOK'
  <2>1. \A i \in Ids : master'[i].state = "pending" =>
                         pc'[i[1]] \in {"seeking", "naming", "named", "written"}
    BY <1>t, <1>1, <1>2, <1>9 DEF TypeOK
  <2>2. \A t \in Creates : tracker'[t].state = "pending" => pc'[t] = "inserted"
    BY <1>t, <1>1, <1>2, <1>10 DEF TypeOK
  <2> QED BY <1>t, <1>1, <1>8, <2>1, <2>2 DEF TypeOK
<1>12. Control'
  <2>1. ASSUME NEW d \in Calls, d # c PROVE ControlOf(d)'
    <3>1. ControlOf(d)
      BY <1>t DEF Control
    <3> QED BY <1>1, <1>2, <1>7, <2>1, <3>1 DEF ControlOf
  <2>2. ControlOf(c)'
    BY <1>3, <1>4, <1>5 DEF ControlOf, Verbs
  <2> QED BY <2>1, <2>2 DEF Control
<1>13. Unwritten'
  BY <1>t, <1>1, <1>2, <1>9 DEF Unwritten
<1> QED BY <1>11, <1>12, <1>13 DEF TypeInv

(* Days and generic edits.                                                  *)
LEMMA OutsideTypes ==
  ASSUME TypeInv,
         Midnight \/ (\E i \in Ids : EditMaster(i)) \/ (\E t \in Creates : EditTracker(t))
  PROVE  TypeInv'
<1>t. TypeOK /\ Control /\ Unwritten
  BY DEF TypeInv
<1>1. CASE Midnight
  <2>1. day' \in 0..MaxDay /\ UNCHANGED <<edits, master, tracker, clicks, pc, before, at, want,
                                          refs, code, seen, dated>>
    BY <1>1, <1>t, EngagementAssumption DEF Midnight, TypeOK
  <2>2. TypeOK'
    BY <1>t, <2>1 DEF TypeOK
  <2> QED BY <1>t, <2>1, <2>2 DEF Control, ControlOf, Unwritten, TypeInv
<1>2. ASSUME NEW i \in Ids, EditMaster(i) PROVE TypeInv'
  <2>1. /\ edits' \in Nat
        /\ UNCHANGED <<day, clicks, pc, before, at, want, refs, code, seen, dated, tracker>>
    BY <1>2, <1>t DEF EditMaster, Edit, TypeOK
  <2>2. PICK s \in {"live", "deleted"} :
          master' = [master EXCEPT ![i] = [name |-> master[i].name, state |-> s, touched |-> TRUE]]
    BY <1>2 DEF EditMaster, Master
  <2>3. master' \in [Ids -> MasterRow]
    BY <1>t, <2>2 DEF TypeOK, MasterRow, RowStates
  <2>4. \A j \in Ids : master'[j].state = "pending" => master[j].state = "pending"
    BY <1>t, <2>2 DEF TypeOK
  <2>5. TypeOK'
    BY <1>t, <2>1, <2>3, <2>4 DEF TypeOK, MasterRow
  <2> QED BY <1>t, <2>1, <2>4, <2>5 DEF Control, ControlOf, Unwritten, TypeInv
<1>3. ASSUME NEW t \in Creates, EditTracker(t) PROVE TypeInv'
  <2>1. /\ edits' \in Nat
        /\ UNCHANGED <<day, clicks, pc, before, at, want, refs, code, seen, dated, master>>
    BY <1>3, <1>t DEF EditTracker, Edit, TypeOK
  <2>2. PICK s \in {"live", "deleted"}, y \in Targets \cup {None} :
          tracker' = [tracker EXCEPT ![t] = [code |-> tracker[t].code, target |-> y,
                        refs |-> tracker[t].refs, state |-> s, touched |-> TRUE]]
    <3>1. tracker[t].target \in Targets \cup {None}
      BY <1>t DEF TypeOK
    <3> QED BY <1>3, <3>1 DEF EditTracker, Tracker
  <2>3. tracker' \in [Creates -> TrackerRow]
    BY <1>t, <2>2 DEF TypeOK, TrackerRow, RowStates
  <2>4. \A j \in Creates : tracker'[j].state = "pending" => tracker[j].state = "pending"
    BY <1>t, <2>2 DEF TypeOK
  <2>5. TypeOK'
    BY <1>t, <2>1, <2>3, <2>4 DEF TypeOK, TrackerRow
  <2> QED BY <1>t, <2>1, <2>5 DEF Control, ControlOf, Unwritten, TypeInv
<1> QED BY <1>1, <1>2, <1>3

LEMMA NextTypeInv == TypeInv /\ [Next]_vars => TypeInv'
<1> SUFFICES ASSUME TypeInv, [Next]_vars PROVE TypeInv'
  OBVIOUS
<1>1. ASSUME NEW c \in Calls, Statement(c) PROVE TypeInv'
  BY <1>1, MinterTypes, CreateTypes, HitTypes DEF Statement
<1>2. ASSUME NEW c \in Calls, Rollback(c) PROVE TypeInv'
  BY <1>2, UndoTypes DEF Rollback, Goto
<1>3. CASE UNCHANGED vars
  BY <1>3 DEF vars, TypeInv, TypeOK, Control, ControlOf, Unwritten
<1> QED BY <1>1, <1>2, <1>3, BeginTypes, OutsideTypes DEF Next

THEOREM TypesAreKept == Spec => []TypeInv
  BY InitTypeInv, NextTypeInv, PTL DEF Spec

(* The variables keep their types, and no row is left pending by a call     *)
(* that ended: a refused or dropped transaction leaves nothing behind.      *)
THEOREM TypeCorrect == Spec => []TypeOK
<1>1. TypeInv => TypeOK
  BY DEF TypeInv
<1> QED BY TypesAreKept, <1>1, PTL

-----------------------------------------------------------------------------
(* What a call does: it changes its own row of every variable and no other. *)
Act(c) == Begin(c) \/ Statement(c) \/ Rollback(c)

Same4(d) == pc'[d] = pc[d] /\ before'[d] = before[d] /\ at'[d] = at[d] /\ refs'[d] = refs[d]

LEMMA Own ==
  ASSUME TypeInv, NEW c \in Calls, Act(c)
  PROVE  /\ \A d \in Calls \ {c} : Same4(d)
         /\ \A d \in Creates \ {c} : code'[d] = code[d] /\ seen'[d] = seen[d]
                                       /\ tracker'[d] = tracker[d]
         /\ \A d \in Hits \ {c} : seen'[d] = seen[d] /\ dated'[d] = dated[d]
                                    /\ (d \in clicks' <=> d \in clicks)
         /\ \A i \in Ids : i[1] # c => master'[i] = master[i]
         /\ pc[c] \notin Ended
         /\ UNCHANGED edits
<1>t. TypeOK /\ Control /\ ControlOf(c)
  BY DEF TypeInv, Control
<1>1. CASE Begin(c)
  BY <1>1, <1>t DEF Begin, Goto, Same4, TypeOK, Ended
<1>2. CASE Rollback(c)
  BY <1>2, <1>t DEF Rollback, Undo, Goto, Same4, TypeOK, Ended
<1>3. CASE resolve_attribution(c)
  <2>k. c \in Minters
    BY <1>3, <1>t, Roles DEF ControlOf, resolve_attribution, Seek, Miss, Name, Check, InsertMaster,
                     InsertRefused, CommitMasters
  <2>1. CASE Seek(c)
    BY <2>1, <1>t DEF Seek, Refer, Onward, Goto, Same4, TypeOK, Ended
  <2>2. CASE Miss(c) \/ Name(c) \/ Check(c)
    BY <2>2, <1>t DEF Miss, Name, Check, Goto, Same4, TypeOK, Ended
  <2>3. CASE InsertMaster(c)
    <3>1. <<c, Kind(c)>> \in Ids
      BY <2>3, <2>k, KindType DEF InsertMaster
    <3>2. \A i \in Ids : i[1] # c => master'[i] = master[i]
      <4>1. PICK r : master' = [master EXCEPT ![<<c, Kind(c)>>] = r]
        BY <2>3 DEF InsertMaster
      <4>2. master \in [Ids -> MasterRow]
        BY <1>t DEF TypeOK, MasterRow
      <4> QED BY <3>1, <4>1, <4>2
    <3>3. \A d \in Calls \ {c} : Same4(d)
      <4>1. Refer(c, <<c, Kind(c)>>) /\ Onward(c) /\ UNCHANGED before
        BY <2>3 DEF InsertMaster
      <4>2. \A d \in Calls \ {c} : refs'[d] = refs[d]
        BY <1>t, <4>1 DEF Refer, TypeOK
      <4>3. \A d \in Calls \ {c} : pc'[d] = pc[d] /\ at'[d] = at[d]
        BY <1>t, <4>1 DEF Onward, Goto, TypeOK
      <4> QED BY <4>1, <4>2, <4>3 DEF Same4
    <3>4. pc[c] = "named" /\ UNCHANGED <<code, seen, tracker, dated, clicks, edits>>
      BY <2>3 DEF InsertMaster
    <3> QED BY <3>2, <3>3, <3>4 DEF Ended
  <2>4. CASE InsertRefused(c)
    BY <2>4, <1>t DEF InsertRefused, Undo, Goto, Same4, TypeOK, Ended
  <2>5. CASE CommitMasters(c)
    BY <2>5, <1>t DEF CommitMasters, Goto, Same4, TypeOK, Ended
  <2> QED BY <1>3, <2>1, <2>2, <2>3, <2>4, <2>5 DEF resolve_attribution
<1>4. CASE create_tracker(c)
  <2>1. CASE Probe(c) \/ Draw(c)
    BY <2>1, <1>t DEF Probe, Draw, Goto, Same4, TypeOK, Ended
  <2>2. CASE TryCode(c)
    BY <2>2, <1>t DEF TryCode, Goto, Same4, TypeOK, Ended
  <2>3. CASE Reprobe(c) \/ CodeTaken(c)
    BY <2>3, <1>t DEF Reprobe, CodeTaken, Goto, Same4, TypeOK, Ended
  <2>4. CASE InsertTracker(c) \/ CommitTracker(c)
    BY <2>4, <1>t DEF InsertTracker, CommitTracker, Goto, Same4, TypeOK, Ended
  <2> QED BY <1>4, <2>1, <2>2, <2>3, <2>4 DEF create_tracker
<1>5. CASE resolve_redirect(c)
  <2>1. CASE Look(c) \/ Count(c)
    BY <2>1, <1>t DEF Look, Count, Goto, Same4, TypeOK, Ended
  <2>2. CASE Click(c) \/ Replay(c) \/ Unkeyable(c)
    BY <2>2, <1>t DEF Click, Replay, Unkeyable, Goto, Same4, TypeOK, Ended
  <2>3. CASE CommitHit(c)
    BY <2>3, <1>t DEF CommitHit, Goto, Same4, TypeOK, Ended
  <2> QED BY <1>5, <2>1, <2>2, <2>3 DEF resolve_redirect
<1> QED BY <1>1, <1>2, <1>3, <1>4, <1>5 DEF Act, Statement

(* The other steps leave all calls alone.                                   *)
Outside ==
  \/ Midnight
  \/ \E i \in Ids : EditMaster(i)
  \/ \E t \in Creates : EditTracker(t)
  \/ UNCHANGED vars

LEMMA Away ==
  ASSUME Outside
  PROVE  UNCHANGED <<clicks, pc, before, at, want, refs, code, seen, dated>>
  BY DEF Outside, Midnight, EditMaster, EditTracker, Edit, vars

LEMMA StepKinds == [Next]_vars => Outside \/ \E c \in Calls : Act(c)
  BY DEF Next, Outside, Act

-----------------------------------------------------------------------------
(* Codes and tuples of trackers.                                            *)

(* The row of a tracker is the one its create inserts, and only a create    *)
(* that inserted has one.                                                   *)
Inserted ==
  \A t \in Creates :
    /\ tracker[t].state # "absent" => pc[t] \in {"inserted", "done"}
    /\ pc[t] = "inserted" => tracker[t].state = "pending"
    /\ tracker[t].state = "pending" => tracker[t].code = code[t]

HasCode(t) == tracker[t].state \in {"pending", "live"}

CodesHeld == \A s, t \in Creates : s # t /\ HasCode(s) /\ HasCode(t) => tracker[s].code # tracker[t].code

LEMMA InitCodes == Init => Inserted /\ CodesHeld
  BY Roles DEF Init, Inserted, CodesHeld, HasCode, Tracker

LEMMA NextCodes ==
  TypeInv /\ Inserted /\ CodesHeld /\ [Next]_vars => Inserted' /\ CodesHeld'
<1> SUFFICES ASSUME TypeInv, Inserted, CodesHeld, [Next]_vars PROVE Inserted' /\ CodesHeld'
  OBVIOUS
<1>t. TypeOK /\ Control
  BY DEF TypeInv
<1>1. ASSUME NEW c \in Calls, Act(c) PROVE Inserted' /\ CodesHeld'
  <2>o. /\ \A d \in Creates \ {c} : pc'[d] = pc[d] /\ code'[d] = code[d] /\ tracker'[d] = tracker[d]
        /\ pc[c] \notin Ended /\ ControlOf(c)
    BY <1>1, <1>t, Own, Roles DEF Same4, Control
  <2>1. CASE c \notin Creates
    BY <2>1, <2>o DEF Inserted, CodesHeld, HasCode
  <2>2. ASSUME c \in Creates,
               \/ tracker'[c] = tracker[c]
               \/ tracker'[c].state = "absent"
               \/ HasCode(c) /\ tracker'[c].code = tracker[c].code
               \/ \A t \in Creates \ {c} : HasCode(t) => tracker'[c].code # tracker[t].code
        PROVE  CodesHeld'
    BY <2>2, <2>o DEF CodesHeld, HasCode
  <2>3. CASE Begin(c) /\ c \in Creates
    <3>1. pc[c] = "idle" /\ tracker' = tracker /\ pc'[c] = "probing"
      BY <1>t, <2>3, Roles DEF Begin, Goto, First, TypeOK
    <3>2. tracker[c].state = "absent"
      BY <2>3, <3>1 DEF Inserted
    <3>3. Inserted'
      BY <2>o, <3>1, <3>2 DEF Inserted
    <3> QED BY <2>2, <2>3, <3>1, <3>3
  <2>4. CASE Rollback(c) /\ c \in Creates
    <3>1. tracker'[c].state = "absent" /\ pc'[c] = "failed"
      BY <1>t, <2>4 DEF Rollback, Undo, Tracker, Goto, TypeOK
    <3>2. Inserted'
      BY <2>o, <3>1 DEF Inserted
    <3> QED BY <2>2, <2>4, <3>1, <3>2
  <2>5. CASE create_tracker(c) /\ c \in Creates
    <3>1. CASE InsertTracker(c)
      <4>1. /\ tracker'[c].code = code[c] /\ tracker'[c].state = "pending"
            /\ pc'[c] = "inserted" /\ code' = code
        BY <1>t, <2>5, <3>1 DEF InsertTracker, Tracker, Goto, TypeOK
      <4>2. \A t \in Creates : HasCode(t) => tracker[t].code # code[c]
        BY <3>1 DEF InsertTracker, Owners, HasCode
      <4>3. Inserted'
        BY <2>o, <4>1 DEF Inserted
      <4>4. CodesHeld'
        BY <2>2, <2>5, <4>1, <4>2
      <4> QED BY <4>3, <4>4
    <3>2. CASE CommitTracker(c)
      <4>1. /\ tracker'[c].code = code[c] /\ tracker'[c].state = "live" /\ pc'[c] = "done"
            /\ pc[c] = "inserted"
        BY <1>t, <2>5, <3>2 DEF CommitTracker, Tracker, Goto, TypeOK
      <4>2. HasCode(c) /\ tracker[c].code = code[c]
        BY <2>5, <4>1 DEF Inserted, HasCode
      <4>3. Inserted'
        BY <2>o, <4>1 DEF Inserted
      <4>4. CodesHeld'
        BY <2>2, <2>5, <4>1, <4>2
      <4> QED BY <4>3, <4>4
    <3>3. CASE Probe(c) \/ Draw(c) \/ TryCode(c) \/ Reprobe(c) \/ CodeTaken(c)
      <4>1. tracker' = tracker /\ pc[c] \notin {"inserted", "done"}
        BY <3>3 DEF Probe, Draw, TryCode, Reprobe, CodeTaken
      <4>2. tracker[c].state = "absent"
        BY <2>5, <4>1 DEF Inserted
      <4>3. pc'[c] \notin {"inserted"}
        BY <1>t, <3>3 DEF Probe, Draw, TryCode, Reprobe, CodeTaken, Goto, TypeOK
      <4>4. Inserted'
        BY <2>o, <4>1, <4>2, <4>3 DEF Inserted
      <4> QED BY <2>2, <2>5, <4>1, <4>4
    <3> QED BY <2>5, <3>1, <3>2, <3>3 DEF create_tracker
  <2>6. CASE ~Begin(c) /\ ~Rollback(c) /\ ~create_tracker(c) /\ c \in Creates
    <3>1. c \notin Minters /\ c \notin Hits
      BY <2>6, Roles
    <3>2. ~resolve_attribution(c)
      BY <2>o, <3>1 DEF ControlOf, resolve_attribution, Seek, Miss, Name, Check, InsertMaster,
                        InsertRefused, CommitMasters, Minters, Of
    <3>3. ~resolve_redirect(c)
      BY <2>o, <3>1 DEF ControlOf, resolve_redirect, Look, Count, Click, Replay, Unkeyable, CommitHit
    <3> QED BY <1>1, <2>6, <3>2, <3>3 DEF Act, Statement
  <2> QED BY <2>1, <2>3, <2>4, <2>5, <2>6
<1>2. CASE Outside
  <2>a. UNCHANGED <<pc, code>>
    BY <1>2, Away
  <2>1. CASE tracker' = tracker
    BY <2>a, <2>1 DEF Inserted, CodesHeld, HasCode
  <2>2. ASSUME NEW t \in Creates, EditTracker(t) PROVE Inserted' /\ CodesHeld'
    <3>1. /\ \A s \in Creates \ {t} : tracker'[s] = tracker[s]
          /\ tracker'[t].code = tracker[t].code /\ tracker'[t].state \in {"live", "deleted"}
          /\ tracker[t].state \in {"live", "deleted"}
          /\ tracker'[t].state = "live" =>
               HasCode(t) \/ \A s \in Creates \ {t} : HasCode(s) => tracker[s].code # tracker[t].code
      BY <1>t, <2>2 DEF EditTracker, Tracker, TypeOK, HasCode, Owners
    <3>2. Inserted'
      BY <2>a, <2>2, <3>1 DEF Inserted
    <3>3. CodesHeld'
      BY <2>2, <3>1 DEF CodesHeld, HasCode
    <3> QED BY <3>2, <3>3
  <2> QED BY <1>2, <2>1, <2>2 DEF Outside, Midnight, EditMaster, vars
<1> QED BY <1>1, <1>2, StepKinds

(* "One live code per tracker", and one live tracker per code, whatever is  *)
(* deleted and restored between the draw of a code and its insert.          *)
THEOREM CodesHaveOneOwner == Spec => []CodesAreOwned
<1>1. TypeInv /\ CodesHeld => CodesAreOwned
  BY DEF CodesAreOwned, CodesHeld, HasCode
<1> QED BY TypesAreKept, InitCodes, NextCodes, <1>1, PTL DEF Spec

-----------------------------------------------------------------------------
(* What was committed before a call began.                                  *)

Earlier ==
  \A c \in Calls : /\ pc[c] = "idle" => before[c] = {}
                   /\ \A d \in before[c] : pc[d] = "done" /\ d # c

LEMMA Later ==
  ASSUME TypeInv, NEW c \in Calls, Act(c), ~Begin(c)
  PROVE  before' = before /\ pc[c] # "idle"
<1>1. CASE Rollback(c)
  BY <1>1 DEF Rollback
<1>2. CASE resolve_attribution(c)
  BY <1>2 DEF resolve_attribution, Seek, Miss, Name, Check, InsertMaster, InsertRefused, CommitMasters
<1>3. CASE create_tracker(c)
  BY <1>3 DEF create_tracker, Probe, Draw, TryCode, Reprobe, InsertTracker, CodeTaken, CommitTracker
<1>4. CASE resolve_redirect(c)
  BY <1>4 DEF resolve_redirect, Look, Count, Click, Replay, Unkeyable, CommitHit
<1> QED BY <1>1, <1>2, <1>3, <1>4 DEF Act, Statement

(* A call that began stays begun.                                           *)
LEMMA Begun ==
  ASSUME TypeInv, NEW c \in Calls, Act(c)
  PROVE  pc'[c] # "idle"
<1>t. TypeOK
  BY DEF TypeInv
<1>1. CASE Begin(c)
  <2>1. pc'[c] = First(c)
    BY <1>1, <1>t DEF Begin, Goto, TypeOK
  <2> QED BY <2>1, EngagementAssumption DEF First, Verbs
<1>2. CASE Rollback(c)
  BY <1>2, <1>t DEF Rollback, Goto, TypeOK
<1>3. CASE resolve_attribution(c)
  BY <1>3, <1>t DEF resolve_attribution, Seek, Miss, Name, Check, InsertMaster, InsertRefused,
                    CommitMasters, Onward, Goto, TypeOK
<1>4. CASE create_tracker(c)
  BY <1>4, <1>t DEF create_tracker, Probe, Draw, TryCode, Reprobe, InsertTracker, CodeTaken,
                    CommitTracker, Goto, TypeOK
<1>5. CASE resolve_redirect(c)
  BY <1>5, <1>t DEF resolve_redirect, Look, Count, Click, Replay, Unkeyable, CommitHit, Goto, TypeOK
<1> QED BY <1>1, <1>2, <1>3, <1>4, <1>5 DEF Act, Statement

LEMMA NextEarlier == TypeInv /\ Earlier /\ [Next]_vars => Earlier'
<1> SUFFICES ASSUME TypeInv, Earlier, [Next]_vars PROVE Earlier'
  OBVIOUS
<1>t. TypeOK
  BY DEF TypeInv
<1>1. ASSUME NEW e \in Calls, Act(e) PROVE Earlier'
  <2>1. \A d \in Calls \ {e} : pc'[d] = pc[d] /\ before'[d] = before[d]
    BY <1>1, Own DEF Same4
  <2>2. pc[e] # "done" /\ pc'[e] # "idle"
    BY <1>1, Own, Begun DEF Ended
  <2>3. \A d \in Calls : pc[d] = "done" => pc'[d] = "done"
    BY <2>1, <2>2
  <2>4. \A d \in before'[e] : d \in Calls /\ pc[d] = "done" /\ d # e
    <3>1. CASE Begin(e)
      BY <1>t, <2>2, <3>1 DEF Begin, TypeOK
    <3>2. CASE ~Begin(e)
      BY <1>t, <1>1, <3>2, Later DEF Earlier, TypeOK
    <3> QED BY <3>1, <3>2
  <2>5. \A c \in Calls \ {e} : \A d \in before'[c] : d \in Calls /\ pc[d] = "done" /\ d # c
    BY <1>t, <2>1 DEF Earlier, TypeOK
  <2> QED BY <2>1, <2>2, <2>3, <2>4, <2>5 DEF Earlier
<1>2. CASE Outside
  BY <1>2, Away DEF Earlier
<1> QED BY <1>1, <1>2, StepKinds

(* A create that is past its second probe found no tracker of its tuple     *)
(* among those that were there before it.                                   *)
Past(c) == pc[c] \in {"clear", "inserted"} \/ (pc[c] = "done" /\ seen[c] = c)

Probed ==
  \A c \in Creates : \A d \in before[c] \cap Creates :
    Past(c) /\ tracker[d].state = "live" /\ ~tracker[d].touched
      => tracker[d].target # c.target \/ tracker[d].refs # refs[c]

(* Past the probe, or by the probe, without a live tracker of the tuple.    *)
LEMMA PastSteps ==
  ASSUME TypeInv, Inserted, NEW c \in Creates, Act(c), Past(c)'
  PROVE  /\ ~Begin(c) /\ refs'[c] = refs[c]
         /\ Past(c) \/ Matches(c.target, refs[c]) = {}
<1>t. TypeOK /\ Control /\ c \in Calls /\ c \notin Minters /\ c \notin Hits /\ ControlOf(c)
  BY Roles DEF TypeInv, Control
<1>1. CASE Begin(c)
  BY <1>t, <1>1, Roles DEF Begin, Goto, First, Past, TypeOK
<1>2. CASE Rollback(c)
  BY <1>t, <1>2 DEF Rollback, Goto, Past, TypeOK
<1>3. CASE create_tracker(c)
  <2>1. CASE Probe(c) \/ Draw(c) \/ TryCode(c) \/ CodeTaken(c)
    <3>1. pc[c] \notin {"inserted", "done"}
      BY <2>1 DEF Probe, Draw, TryCode, CodeTaken
    <3>2. tracker[c].state = "absent"
      BY <3>1 DEF Inserted
    <3>3. pc'[c] \notin {"clear", "inserted"} /\ (pc'[c] = "done" => seen'[c] # c)
      BY <1>t, <2>1, <3>2 DEF Probe, Draw, TryCode, CodeTaken, Goto, Matches, TypeOK
    <3> QED BY <3>3 DEF Past
  <2>2. CASE Reprobe(c)
    <3>1. tracker[c].state = "absent"
      BY <2>2 DEF Inserted, Reprobe
    <3>2. refs' = refs /\ (pc'[c] = "done" => seen'[c] # c)
            /\ (pc'[c] = "done" \/ Matches(c.target, refs[c]) = {})
      BY <1>t, <2>2, <3>1 DEF Reprobe, Goto, Matches, TypeOK
    <3> QED BY <2>2, <3>2 DEF Past, Reprobe, Begin
  <2>3. CASE InsertTracker(c) \/ CommitTracker(c)
    BY <2>3 DEF InsertTracker, CommitTracker, Past, Begin
  <2> QED BY <1>3, <2>1, <2>2, <2>3 DEF create_tracker
<1>4. ~resolve_attribution(c)
  BY <1>t DEF ControlOf, resolve_attribution, Seek, Miss, Name, Check, InsertMaster,
              InsertRefused, CommitMasters, Minters, Of
<1>5. ~resolve_redirect(c)
  BY <1>t DEF ControlOf, resolve_redirect, Look, Count, Click, Replay, Unkeyable, CommitHit
<1> QED BY <1>1, <1>2, <1>3, <1>4, <1>5 DEF Act, Statement

LEMMA NextProbed ==
  TypeInv /\ Earlier /\ Inserted /\ Probed /\ [Next]_vars => Probed'
<1> SUFFICES ASSUME TypeInv, Earlier, Inserted, Probed, [Next]_vars PROVE Probed'
  OBVIOUS
<1>t. TypeOK
  BY DEF TypeInv
<1> SUFFICES ASSUME NEW c \in Creates, NEW d \in Creates, d \in before'[c], Past(c)',
                    tracker'[d].state = "live", ~tracker'[d].touched
             PROVE  tracker'[d].target # c.target \/ tracker'[d].refs # refs'[c]
  BY DEF Probed
<1>c. c \in Calls /\ d \in Calls
  BY Roles
<1>1. ASSUME NEW e \in Calls, Act(e)
      PROVE  tracker'[d].target # c.target \/ tracker'[d].refs # refs'[c]
  <2>1. before'[c] = before[c] /\ (e = c => ~Begin(c))
    <3>1. CASE e = c
      BY <1>1, <1>c, <3>1, PastSteps, Later
    <3>2. CASE e # c
      BY <1>1, <1>c, <3>2, Own DEF Same4
    <3> QED BY <3>1, <3>2
  <2>2. d # e /\ tracker'[d] = tracker[d]
    BY <1>1, <1>c, <2>1, Own DEF Earlier, Ended
  <2>3. CASE e = c
    <3>1. refs'[c] = refs[c] /\ (Past(c) \/ Matches(c.target, refs[c]) = {})
      BY <1>1, <2>3, PastSteps
    <3> QED BY <2>1, <2>2, <3>1 DEF Probed, Matches
  <2>4. CASE e # c
    <3>1. pc'[c] = pc[c] /\ seen'[c] = seen[c] /\ refs'[c] = refs[c]
      BY <1>1, <1>c, <2>4, Own DEF Same4
    <3> QED BY <2>1, <2>2, <3>1 DEF Probed, Past
  <2> QED BY <2>3, <2>4
<1>2. CASE Outside
  <2>1. UNCHANGED <<pc, before, refs, seen>>
    BY <1>2, Away
  <2>2. tracker'[d] = tracker[d] \/ tracker'[d].touched
    <3>1. ASSUME NEW t \in Creates, EditTracker(t) PROVE tracker'[d] = tracker[d] \/ tracker'[d].touched
      <4>1. CASE t = d
        BY <1>t, <3>1, <4>1 DEF EditTracker, Tracker, TypeOK
      <4>2. CASE t # d
        BY <1>t, <3>1, <4>2 DEF EditTracker, TypeOK
      <4> QED BY <4>1, <4>2
    <3> QED BY <1>2, <3>1 DEF Outside, Midnight, EditMaster, vars
  <2>3. tracker'[d] = tracker[d]
    BY <2>2
  <2> QED BY <2>1, <2>3 DEF Probed, Past
<1> QED BY <1>1, <1>2, StepKinds

(* "idempotent on the 5-tuple": only creates that overlap mint two trackers *)
(* of one tuple, whatever fails, is deleted or is restored around them.     *)
THEOREM DuplicatesComeFromRaces == Spec => []OnlyRacesDuplicate
<1>1. Init => Earlier /\ Probed
  BY Roles DEF Init, Earlier, Probed, Past
<1>2. TypeInv /\ Probed => OnlyRacesDuplicate
  BY DEF OnlyRacesDuplicate, Probed, Past
<1> QED BY TypesAreKept, InitCodes, NextCodes, NextEarlier, NextProbed, <1>1, <1>2, PTL DEF Spec

(* A call that has not begun has no row.                                    *)
Unstarted == \A i \in Ids : pc[i[1]] = "idle" => master[i].state = "absent"

LEMMA NextUnstarted == TypeInv /\ Unstarted /\ [Next]_vars => Unstarted'
<1> SUFFICES ASSUME TypeInv, Unstarted, [Next]_vars PROVE Unstarted'
  OBVIOUS
<1>t. TypeOK
  BY DEF TypeInv
<1>0. \A i \in Ids : i[1] \in Calls
  BY Roles DEF Ids
<1>1. ASSUME NEW e \in Calls, Act(e) PROVE Unstarted'
  BY <1>1, <1>0, Own, Begun DEF Unstarted, Same4
<1>2. CASE Outside
  <2>1. UNCHANGED pc
    BY <1>2, Away
  <2>2. \A i \in Ids : master[i].state = "absent" => master'[i] = master[i]
    BY <1>2, <1>t DEF Outside, Midnight, EditMaster, EditTracker, TypeOK, vars
  <2> QED BY <2>1, <2>2 DEF Unstarted
<1> QED BY <1>1, <1>2, StepKinds

(* A resolve that minted for kind k, or is about to, found no live row of   *)
(* the name it was given among those that were there before it.             *)
Missed(c, k) ==
  \/ master[<<c, k>>].state # "absent"
  \/ pc[c] \in {"naming", "named"} /\ Order[at[c]] = k

Sought ==
  \A c \in Of({"resolve"}), k \in Kinds : \A d \in before[c] \cap Minters :
    Missed(c, k) /\ master[<<d, k>>].state = "live" /\ ~master[<<d, k>>].touched
      => \/ master[<<d, k>>].name.base # c.value[k].base
         \/ master[<<d, k>>].name.counter # c.value[k].counter

LEMMA MissedSteps ==
  ASSUME TypeInv, Unstarted, NEW c \in Of({"resolve"}), NEW k \in Kinds, Act(c), Missed(c, k)'
  PROVE  ~Begin(c) /\ (Missed(c, k) \/ Live(k, c.value[k]) = {})
<1>t. TypeOK /\ Control
  BY DEF TypeInv
<1>c. c \in Minters /\ c \in Calls /\ c.verb = "resolve" /\ <<c, k>> \in Ids /\ ControlOf(c)
  BY <1>t DEF Of, Minters, Ids, Control
<1>k. Kind(c) = Order[at[c]]
  BY <1>c DEF Kind
<1>1. CASE Begin(c)
  <2>1. master' = master /\ pc'[c] = "seeking" /\ pc[c] = "idle"
    BY <1>t, <1>c, <1>1 DEF Begin, Goto, First, TypeOK
  <2>2. master[<<c, k>>].state = "absent"
    BY <1>c, <2>1 DEF Unstarted
  <2> QED BY <2>1, <2>2 DEF Missed
<1>2. CASE Rollback(c) \/ InsertRefused(c)
  <2>1. pc'[c] = "failed" /\ master'[<<c, k>>].state = "absent"
    <3>1. pc' = [pc EXCEPT ![c] = "failed"] /\ Undo(c)
      BY <1>2 DEF Rollback, InsertRefused, Goto
    <3>2. \A i \in Ids : i[1] = c => master'[i] = Master(None, "absent", FALSE)
      BY <3>1 DEF Undo
    <3>3. master'[<<c, k>>] = Master(None, "absent", FALSE)
      BY <1>c, <3>2
    <3> QED BY <1>t, <1>c, <3>1, <3>3 DEF Master, TypeOK
  <2> QED BY <2>1 DEF Missed
<1>3. CASE Seek(c)
  <2>1. master' = master /\ pc'[c] \in {"seeking", "written"} /\ pc[c] = "seeking"
    BY <1>t, <1>c, <1>3 DEF Seek, Onward, Goto, TypeOK
  <2> QED BY <2>1 DEF Missed, Begin
<1>4. CASE Miss(c)
  BY <1>k, <1>4 DEF Miss, Missed, Begin
<1>5. CASE Name(c) \/ Check(c)
  BY <1>t, <1>c, <1>5 DEF Name, Check, Missed, Begin, Goto, TypeOK, ControlOf
<1>6. CASE InsertMaster(c)
  <2>1. pc[c] = "named" /\ pc'[c] \in {"seeking", "written"}
    BY <1>t, <1>c, <1>6 DEF InsertMaster, Onward, Goto, TypeOK
  <2>2. Kind(c) # k => master'[<<c, k>>] = master[<<c, k>>]
    <3>1. PICK r : master' = [master EXCEPT ![<<c, Kind(c)>>] = r]
      BY <1>6 DEF InsertMaster
    <3> QED BY <1>t, <1>c, <3>1 DEF TypeOK
  <2> QED BY <1>k, <2>1, <2>2 DEF Missed, Begin
<1>7. CASE CommitMasters(c)
  <2>1. pc[c] = "written" /\ pc'[c] = "done" /\
        (master'[<<c, k>>] = master[<<c, k>>] \/ master[<<c, k>>].state = "pending")
    BY <1>t, <1>c, <1>7 DEF CommitMasters, Goto, TypeOK
  <2> QED BY <2>1 DEF Missed, Begin
<1>8. ~create_tracker(c) /\ ~resolve_redirect(c)
  BY <1>c, Roles DEF ControlOf, create_tracker, Probe, Draw, TryCode, Reprobe, InsertTracker,
     CodeTaken, CommitTracker, resolve_redirect, Look, Count, Click, Replay, Unkeyable, CommitHit
<1> QED BY <1>1, <1>2, <1>3, <1>4, <1>5, <1>6, <1>7, <1>8 DEF Act, Statement, resolve_attribution

LEMMA NextSought == TypeInv /\ Earlier /\ Unstarted /\ Sought /\ [Next]_vars => Sought'
<1> SUFFICES ASSUME TypeInv, Earlier, Unstarted, Sought, [Next]_vars PROVE Sought'
  OBVIOUS
<1>t. TypeOK
  BY DEF TypeInv
<1> SUFFICES ASSUME NEW c \in Of({"resolve"}), NEW k \in Kinds, NEW d \in Minters, d \in before'[c],
                    Missed(c, k)', master'[<<d, k>>].state = "live", ~master'[<<d, k>>].touched
             PROVE  \/ master'[<<d, k>>].name.base # c.value[k].base
                    \/ master'[<<d, k>>].name.counter # c.value[k].counter
  BY DEF Sought
<1>c. c \in Calls /\ d \in Calls /\ <<d, k>> \in Ids /\ <<c, k>> \in Ids
  BY Roles DEF Of, Ids, Minters
<1>1. ASSUME NEW e \in Calls, Act(e)
      PROVE  \/ master'[<<d, k>>].name.base # c.value[k].base
             \/ master'[<<d, k>>].name.counter # c.value[k].counter
  <2>1. before'[c] = before[c]
    <3>1. CASE e = c
      BY <1>1, <1>c, <3>1, MissedSteps, Later
    <3>2. CASE e # c
      BY <1>1, <1>c, <3>2, Own DEF Same4
    <3> QED BY <3>1, <3>2
  <2>2. d # e /\ master'[<<d, k>>] = master[<<d, k>>]
    <3>1. d # e
      BY <1>1, <1>c, <2>1, Own DEF Earlier, Ended
    <3>2. <<d, k>>[1] # e
      BY <3>1
    <3> QED BY <1>1, <1>c, <3>1, <3>2, Own
  <2>3. CASE e = c
    <3>1. Missed(c, k) \/ Live(k, c.value[k]) = {}
      BY <1>1, <2>3, MissedSteps
    <3>2. CASE Live(k, c.value[k]) = {}
      <4>1. <<d, k>>[2] = k
        OBVIOUS
      <4> QED BY <1>c, <2>2, <3>2, <4>1 DEF Live, Same
    <3> QED BY <2>1, <2>2, <3>1, <3>2 DEF Sought
  <2>4. CASE e # c
    <3>1. pc'[c] = pc[c] /\ at'[c] = at[c] /\ master'[<<c, k>>] = master[<<c, k>>]
      <4>1. <<c, k>>[1] # e
        BY <2>4
      <4> QED BY <1>1, <1>c, <2>4, <4>1, Own DEF Same4
    <3> QED BY <2>1, <2>2, <3>1 DEF Sought, Missed
  <2> QED BY <2>3, <2>4
<1>2. CASE Outside
  <2>1. UNCHANGED <<pc, before, at>>
    BY <1>2, Away
  <2>2. master'[<<d, k>>] = master[<<d, k>>] \/ master'[<<d, k>>].touched
    <3>1. ASSUME NEW i \in Ids, EditMaster(i)
          PROVE  master'[<<d, k>>] = master[<<d, k>>] \/ master'[<<d, k>>].touched
      <4>1. CASE i = <<d, k>>
        BY <1>t, <3>1, <4>1 DEF EditMaster, Master, TypeOK
      <4>2. CASE i # <<d, k>>
        BY <1>t, <1>c, <3>1, <4>2 DEF EditMaster, TypeOK
      <4> QED BY <4>1, <4>2
    <3> QED BY <1>2, <3>1 DEF Outside, Midnight, EditTracker, vars
  <2>3. master[<<c, k>>].state = "absent" => master'[<<c, k>>].state = "absent"
    <3>1. ASSUME NEW i \in Ids, EditMaster(i), master[<<c, k>>].state = "absent"
          PROVE  master'[<<c, k>>].state = "absent"
      BY <1>t, <1>c, <3>1 DEF EditMaster, TypeOK
    <3> QED BY <1>2, <3>1 DEF Outside, Midnight, EditTracker, vars
  <2> QED BY <2>1, <2>2, <2>3 DEF Sought, Missed
<1> QED BY <1>1, <1>2, StepKinds

(* "unknown names minted", and only those: no resolve mints a second master *)
(* for a name that a master committed before it answers to, in any case.    *)
THEOREM KnownNamesAreReused == Spec => []OnlyUnknownNamesAreMinted
<1>1. Init => Earlier /\ Unstarted /\ Sought
  BY Roles DEF Init, Earlier, Unstarted, Sought, Missed, Master, Ids, Of, Minters
<1>2. Sought => OnlyUnknownNamesAreMinted
  BY DEF OnlyUnknownNamesAreMinted, Sought, Missed
<1> QED BY TypesAreKept, NextEarlier, NextUnstarted, NextSought, <1>1, <1>2, PTL DEF Spec

-----------------------------------------------------------------------------
(* Clicks.                                                                  *)

(* What a step does to the click ledger and to hits.                        *)
Quiet(e) == clicks' = clicks /\ pc'[e] \in {"looking", "found", "refused", "failed"}

LEMMA HitSteps ==
  ASSUME TypeInv, NEW e \in Calls, Act(e)
  PROVE  /\ e \notin Hits => clicks' = clicks
         /\ e \in Hits => Quiet(e) \/ Count(e) \/ Click(e) \/ Replay(e) \/ CommitHit(e)
<1>t. TypeOK /\ ControlOf(e)
  BY DEF TypeInv, Control
<1>1. CASE Begin(e)
  <2>1. clicks' = clicks /\ (e \in Hits => pc'[e] = "looking")
    BY <1>t, <1>1, Roles DEF Begin, Goto, First, TypeOK
  <2> QED BY <2>1 DEF Quiet
<1>2. CASE Rollback(e) \/ Unkeyable(e)
  BY <1>t, <1>2 DEF Rollback, Unkeyable, Goto, Quiet, TypeOK
<1>3. CASE Look(e)
  BY <1>t, <1>3 DEF Look, Goto, Quiet, TypeOK
<1>4. CASE resolve_attribution(e)
  <2>1. clicks' = clicks /\ pc[e] \in {"seeking", "checking", "naming", "named", "written"}
    BY <1>4 DEF resolve_attribution, Seek, Miss, Name, Check, InsertMaster, InsertRefused, CommitMasters
  <2>2. e \notin Hits
    BY <1>t, <2>1, Roles DEF ControlOf
  <2> QED BY <2>1, <2>2
<1>5. CASE create_tracker(e)
  <2>1. clicks' = clicks /\ pc[e] \in {"probing", "unfound", "coding", "coded", "clear", "inserted"}
    BY <1>5 DEF create_tracker, Probe, Draw, TryCode, Reprobe, InsertTracker, CodeTaken, CommitTracker
  <2>2. e \notin Hits
    BY <1>t, <2>1, Roles DEF ControlOf
  <2> QED BY <2>1, <2>2
<1>6. CASE Count(e) \/ Click(e) \/ Replay(e) \/ CommitHit(e)
  BY <1>t, <1>6 DEF Count, Click, Replay, CommitHit, ControlOf
<1> QED BY <1>1, <1>2, <1>3, <1>4, <1>5, <1>6 DEF Act, Statement, resolve_redirect

(* A counted hit keeps its tracker and its day.                             *)
LEMMA KeysStay ==
  ASSUME TypeInv, [Next]_vars, NEW h \in Hits, pc[h] \in {"counted", "clicked", "over", "done"}
  PROVE  seen'[h] = seen[h] /\ dated'[h] = dated[h] /\ Key(h)' = Key(h)
<1>h. h \in Calls
  BY Roles
<1>1. ASSUME NEW e \in Calls, Act(e) PROVE seen'[h] = seen[h] /\ dated'[h] = dated[h]
  <2>1. CASE e # h
    BY <1>1, <2>1, Own
  <2>2. CASE e = h
    <3>1. h \notin Creates /\ h \notin Minters /\ ControlOf(h)
      BY <1>h, Roles DEF TypeInv, Control
    <3>2. ~create_tracker(h) /\ ~resolve_attribution(h)
      BY <3>1 DEF ControlOf, create_tracker, Probe, Draw, TryCode, Reprobe, InsertTracker, CodeTaken,
         CommitTracker, resolve_attribution, Seek, Miss, Name, Check, InsertMaster, InsertRefused,
         CommitMasters, Minters, Of
    <3>3. ~Look(h) /\ ~Count(h)
      BY DEF Look, Count
    <3> QED BY <1>1, <2>2, <3>2, <3>3 DEF Act, Begin, Rollback, Statement, resolve_redirect, Click,
            Replay, Unkeyable, CommitHit
  <2> QED BY <2>1, <2>2
<1>2. CASE Outside
  BY <1>2, Away DEF Key
<1>3. seen'[h] = seen[h] /\ dated'[h] = dated[h]
  BY <1>1, <1>2, StepKinds
<1> QED BY <1>3 DEF Key

Committed == \A h \in clicks : pc[h] = "done"

(* Two clicks, committed or not, never have one key.                        *)
KeysDiffer == \A g, h \in clicks \cup Pending : Key(g) = Key(h) => g = h

(* A visitor sent on uncounted was counted before, or met the cap.          *)
Sent(h) ==
  \/ \E g \in clicks : Key(g) = Key(h)
  \/ Cardinality(ClicksOf(seen[h])) >= MaxClicks

Excused == \A h \in Hits : pc[h] = "over" => Sent(h)

ClickInv == Committed /\ KeysDiffer /\ Excused

LEMMA FiniteHits ==
  /\ IsFiniteSet(Hits) /\ IsFiniteSet(Calls)
  /\ \A S \in SUBSET Calls : IsFiniteSet(S) /\ Cardinality(S) \in Nat
<1>1. IsFiniteSet(Calls)
  BY EngagementAssumption
<1> QED BY <1>1, FS_Subset, FS_CardinalityType, Roles

LEMMA CardinalityGrows ==
  ASSUME NEW S \in SUBSET Calls, NEW R \in SUBSET S
  PROVE  Cardinality(R) <= Cardinality(S)
  BY FiniteHits, FS_Subset

(* The clicks of a tracker are never lost.                                  *)
LEMMA ClicksGrow ==
  ASSUME TypeInv, Committed, [Next]_vars, NEW t
  PROVE  ClicksOf(t) \subseteq ClicksOf(t)' /\ clicks \subseteq clicks'
           /\ Cardinality(ClicksOf(t)) <= Cardinality(ClicksOf(t)')
<1>t. TypeOK /\ TypeOK'
  BY NextTypeInv DEF TypeInv
<1>1. clicks \subseteq clicks'
  <2>1. ASSUME NEW e \in Calls, Act(e) PROVE clicks \subseteq clicks'
    BY <2>1, HitSteps DEF Quiet, Count, Click, Replay, CommitHit
  <2>2. CASE Outside
    BY <2>2, Away
  <2> QED BY <2>1, <2>2, StepKinds
<1>2. \A h \in clicks : seen'[h] = seen[h]
  BY <1>t, KeysStay DEF Committed, TypeOK
<1>3. ClicksOf(t) \subseteq ClicksOf(t)'
  BY <1>1, <1>2 DEF ClicksOf
<1>4. ClicksOf(t)' \in SUBSET Calls
  BY <1>t, Roles DEF ClicksOf, TypeOK
<1> QED BY <1>1, <1>3, <1>4, CardinalityGrows

LEMMA NextClickInv == TypeInv /\ ClickInv /\ [Next]_vars => ClickInv'
<1> SUFFICES ASSUME TypeInv, ClickInv, [Next]_vars PROVE ClickInv'
  OBVIOUS
<1>t. TypeOK /\ Committed /\ KeysDiffer /\ Excused
  BY DEF TypeInv, ClickInv
<1>a. \A h \in clicks \cup Pending : h \in Hits /\ Key(h)' = Key(h)
  BY <1>t, KeysStay DEF Committed, Pending, TypeOK
<1>g. ASSUME NEW h \in Hits, pc[h] = "over" PROVE Sent(h)'
  <2>1. Key(h)' = Key(h) /\ seen'[h] = seen[h]
    BY <1>g, KeysStay
  <2>2. CASE \E g \in clicks : Key(g) = Key(h)
    BY <1>t, <1>a, <2>1, <2>2, ClicksGrow DEF Sent
  <2>3. CASE Cardinality(ClicksOf(seen[h])) >= MaxClicks
    <3>1. PICK t : t = seen[h]
      OBVIOUS
    <3>2. ClicksOf(t) \in SUBSET Calls /\ ClicksOf(t)' \in SUBSET Calls
      BY <1>t, NextTypeInv, Roles DEF ClicksOf, TypeInv, TypeOK
    <3>3. Cardinality(ClicksOf(t)) \in Nat /\ Cardinality(ClicksOf(t)') \in Nat /\ MaxClicks \in Nat
      BY <3>2, FiniteHits, EngagementAssumption
    <3>4. Cardinality(ClicksOf(t)) >= MaxClicks
      BY <2>3, <3>1
    <3>5. Cardinality(ClicksOf(t)') >= MaxClicks
      BY <1>t, <3>3, <3>4, ClicksGrow
    <3>6. ClicksOf(seen[h])' = ClicksOf(t)'
      BY <2>1, <3>1 DEF ClicksOf
    <3> QED BY <3>5, <3>6 DEF Sent
  <2> QED BY <1>t, <1>g, <2>2, <2>3 DEF Excused, Sent
<1>1. ASSUME NEW e \in Calls, Act(e) PROVE ClickInv'
  <2>o. /\ \A h \in Hits \ {e} : pc'[h] = pc[h] /\ pc[e] # "done"
        /\ e \notin clicks
    BY <1>t, <1>1, Own, Roles DEF Same4, Ended, Committed
  <2>1. CASE e \notin Hits \/ Quiet(e)
    <3>1. clicks' = clicks /\ \A h \in Hits : pc'[h] \in {"clicked", "over"} => pc'[h] = pc[h]
      BY <1>1, <2>o, <2>1, HitSteps DEF Quiet
    <3>2. Committed'
      BY <1>t, <2>o, <3>1 DEF Committed, TypeOK
    <3>3. KeysDiffer'
      BY <1>t, <1>a, <3>1 DEF KeysDiffer, Pending
    <3>4. Excused'
      BY <1>g, <3>1 DEF Excused
    <3> QED BY <3>2, <3>3, <3>4 DEF ClickInv
  <2>2. CASE e \in Hits /\ (Count(e) \/ Replay(e))
    <3>1. clicks' = clicks /\ pc'[e] \in {"counted", "over"} /\ pc[e] \in {"found", "counted"}
      BY <1>t, <2>2, Roles DEF Count, Replay, Goto, TypeOK
    <3>2. Committed'
      BY <1>t, <2>o, <3>1 DEF Committed, TypeOK
    <3>3. KeysDiffer'
      BY <1>t, <1>a, <2>o, <3>1 DEF KeysDiffer, Pending
    <3>4. ASSUME pc'[e] = "over" PROVE Sent(e)'
      <4>1. CASE Replay(e)
        <5>1. Key(e)' = Key(e)
          BY <2>2, <4>1, KeysStay DEF Replay
        <5> QED BY <1>a, <3>1, <4>1, <5>1 DEF Replay, Sent
      <4>2. CASE Count(e)
        <5>1. seen' = seen /\ Frozen(e)
          BY <1>t, <2>2, <3>4, <4>2, Roles DEF Count, Goto, TypeOK
        <5>2. ClicksOf(seen[e])' = ClicksOf(seen[e])
          BY <3>1, <5>1 DEF ClicksOf
        <5> QED BY <5>1, <5>2 DEF Frozen, Sent
      <4> QED BY <2>2, <4>1, <4>2
    <3>5. Excused'
      BY <1>g, <2>o, <3>4 DEF Excused
    <3> QED BY <3>2, <3>3, <3>5 DEF ClickInv
  <2>3. CASE e \in Hits /\ Click(e)
    <3>1. clicks' = clicks /\ pc'[e] = "clicked" /\ seen' = seen /\ dated' = dated
            /\ Holders(Key(e)) = {}
      BY <1>t, <2>3, Roles DEF Click, Goto, TypeOK
    <3>2. Committed'
      BY <1>t, <2>o, <3>1 DEF Committed, TypeOK
    <3>3. KeysDiffer'
      <4>1. \A h \in (clicks \cup Pending)' : h \in clicks \cup Pending \/ h = e
        BY <2>o, <3>1 DEF Pending
      <4>2. \A h \in clicks \cup Pending : Key(h) # Key(e)
        BY <3>1 DEF Holders
      <4>3. \A h : Key(h)' = Key(h)
        BY <3>1 DEF Key
      <4> QED BY <1>t, <4>1, <4>2, <4>3 DEF KeysDiffer
    <3>4. Excused'
      BY <1>g, <2>o, <3>1 DEF Excused
    <3> QED BY <3>2, <3>3, <3>4 DEF ClickInv
  <2>4. CASE e \in Hits /\ CommitHit(e)
    <3>1. /\ pc'[e] = "done" /\ seen' = seen /\ dated' = dated
          /\ clicks' = clicks \/ (pc[e] = "clicked" /\ clicks' = clicks \cup {e})
      BY <1>t, <2>4, Roles DEF CommitHit, Goto, TypeOK
    <3>2. Committed'
      BY <1>t, <2>o, <3>1 DEF Committed, TypeOK
    <3>3. KeysDiffer'
      <4>1. \A h \in (clicks \cup Pending)' : h \in clicks \cup Pending
        BY <2>4, <2>o, <3>1 DEF Pending
      <4> QED BY <1>t, <1>a, <4>1 DEF KeysDiffer
    <3>4. Excused'
      BY <1>g, <2>o, <3>1 DEF Excused
    <3> QED BY <3>2, <3>3, <3>4 DEF ClickInv
  <2> QED BY <1>1, <2>1, <2>2, <2>3, <2>4, HitSteps
<1>2. CASE Outside
  <2>1. UNCHANGED <<pc, clicks, seen, dated>>
    BY <1>2, Away
  <2> QED BY <1>t, <2>1 DEF ClickInv, Committed, KeysDiffer, Pending, Key, Excused, Sent, ClicksOf
<1> QED BY <1>1, <1>2, StepKinds

(* Every step counts a first visit, sends a later one on or counts nothing. *)
LEMMA StepCounts ==
  TypeInv /\ ClickInv /\ [Next]_vars => [Ledger!LedgerNext]_<<clicks, Visit>>
<1> SUFFICES ASSUME TypeInv, ClickInv, [Next]_vars PROVE [Ledger!LedgerNext]_<<clicks, Visit>>
  OBVIOUS
<1>t. TypeOK /\ Committed /\ KeysDiffer /\ Excused
  BY DEF TypeInv, ClickInv
<1>v. Visit = [h \in Hits |-> IF pc[h] = "done" THEN Key(h) ELSE None]
        /\ Visit' = [h \in Hits |-> IF pc'[h] = "done" THEN Key(h)' ELSE None]
  BY DEF Visit, Key
<1>s. ASSUME clicks' = clicks, \A h \in Hits : pc'[h] = "done" <=> pc[h] = "done"
      PROVE  UNCHANGED <<clicks, Visit>>
  <2>1. \A h \in Hits : Visit'[h] = Visit[h]
    BY <1>v, <1>s, KeysStay
  <2>2. Visit' = [h \in Hits |-> Visit'[h]] /\ Visit = [h \in Hits |-> Visit[h]]
    BY <1>v
  <2>3. Visit' = Visit
    BY <2>1, <2>2
  <2> QED BY <1>s, <2>3
<1>1. ASSUME NEW e \in Calls, Act(e) PROVE [Ledger!LedgerNext]_<<clicks, Visit>>
  <2>o. \A h \in Hits \ {e} : pc'[h] = pc[h] /\ pc[e] # "done"
    BY <1>1, Own, Roles DEF Same4, Ended
  <2>1. CASE e \notin Hits
    BY <1>1, <1>s, <2>1, <2>o, HitSteps
  <2>2. CASE e \in Hits /\ ~CommitHit(e)
    <3>1. clicks' = clicks /\ pc[e] # "done" /\ pc'[e] # "done"
      <4>1. pc[e] # "done"
        BY <1>1, Own DEF Ended
      <4>2. CASE Quiet(e)
        BY <4>1, <4>2 DEF Quiet
      <4>3. CASE Count(e) \/ Click(e) \/ Replay(e)
        BY <1>t, <4>1, <4>3 DEF Count, Click, Replay, Goto, TypeOK
      <4> QED BY <1>1, <2>2, <4>2, <4>3, HitSteps
    <3> QED BY <1>s, <2>o, <3>1
  <2>3. CASE e \in Hits /\ CommitHit(e)
    <3> DEFINE v == Key(e)
    <3>1. /\ pc[e] \in {"clicked", "over"} /\ pc'[e] = "done" /\ seen' = seen /\ dated' = dated
          /\ seen[e] \in Creates /\ dated[e] \in 0..MaxDay /\ e \in Calls
      BY <1>t, <2>3, Roles DEF CommitHit, Goto, TypeOK, TypeInv, Control, ControlOf
    <3>2. Visit[e] = None /\ \A h \in clicks : Visit[h] = Key(h)
      BY <1>t, <1>v, <2>3, <3>1 DEF Committed, TypeOK
    <3>3. Visit' = [Visit EXCEPT ![e] = v]
      <4>1. \A h \in Hits : Key(h)' = Key(h)
        BY <3>1 DEF Key
      <4>2. Visit' = [h \in Hits |-> IF h = e THEN v ELSE Visit[h]]
        BY <1>v, <2>o, <3>1, <4>1
      <4> QED BY <1>v, <4>2
    <3>4. v = <<seen[e], e.ip, dated[e]>> /\ v[1] = seen[e]
      BY DEF Key
    <3>5. \/ Ledger!CountFirst(e, v) \/ Ledger!CountNot(v)
          \/ Ledger!AtCap(v) /\ UNCHANGED clicks
      <4>1. CASE pc[e] = "clicked"
        <5>1. \A g \in clicks : Visit[g] # v
          BY <1>t, <2>o, <2>3, <3>1, <3>2, <4>1 DEF KeysDiffer, Pending, Committed
        <5>2. clicks' = clicks \cup {e}
          BY <2>3, <4>1 DEF CommitHit
        <5> QED BY <5>1, <5>2 DEF Ledger!CountFirst, Ledger!CountedBefore
      <4>2. CASE pc[e] = "over"
        <5>1. clicks' = clicks
          BY <2>3, <4>2 DEF CommitHit
        <5>2. CASE \E g \in clicks : Key(g) = v
          BY <3>2, <5>1, <5>2 DEF Ledger!CountNot, Ledger!CountedBefore
        <5>3. CASE Cardinality(ClicksOf(seen[e])) >= MaxClicks
          <6>1. {h \in clicks : Visit[h][1] = v[1]} = ClicksOf(seen[e])
            BY <3>2, <3>4 DEF ClicksOf, Key
          <6>2. Cardinality({h \in clicks : Visit[h][1] = v[1]}) >= MaxClicks
            BY <5>3, <6>1
          <6>3. Ledger!AtCap(v)
            BY <6>2 DEF Ledger!AtCap, Ledger!Cardinality, Cardinality
          <6> QED BY <5>1, <6>3
        <5> QED BY <1>t, <2>3, <4>2, <5>2, <5>3 DEF Excused, Sent
      <4> QED BY <3>1, <4>1, <4>2
    <3>6. Ledger!Send(e)
      BY <3>1, <3>2, <3>3, <3>4, <3>5 DEF Ledger!Send
    <3> QED BY <2>3, <3>6 DEF Ledger!LedgerNext
  <2> QED BY <2>1, <2>2, <2>3
<1>2. CASE Outside
  BY <1>2, <1>s, Away
<1> QED BY <1>1, <1>2, StepKinds

(* resolve_redirect implements ClickLedger: replays, concurrent or around   *)
(* midnight, count one click per tracker, address and day, and only a cap   *)
(* sends a visitor on uncounted.                                            *)
THEOREM ClicksImplementTheLedger == Spec => ClicksAreExact
<1>1. Init => ClickInv
  BY DEF Init, ClickInv, Committed, KeysDiffer, Excused, Pending, Hits, Of
<1>2. Init => Ledger!LedgerInit
  BY Roles DEF Init, Ledger!LedgerInit, Visit
<1> QED BY TypesAreKept, NextClickInv, StepCounts, <1>1, <1>2, PTL
        DEF Spec, ClicksAreExact, Ledger!LedgerSpec

-----------------------------------------------------------------------------
(* The cap and the connections.                                             *)

(* No more transactions are open than the pool has connections.             *)
Pooled == Cardinality(Holding) <= Connections

Underway(t) == {h \in Hits : pc[h] \in {"counted", "clicked"} /\ seen[h] = t}

(* The clicks of a tracker, with those that passed its cap.                 *)
Crowd(t) == ClicksOf(t) \cup Underway(t)

Crowded == \A t \in Creates : Cardinality(Crowd(t)) <= MaxClicks + Connections - 1

LEMMA CrowdsAreCalls ==
  ASSUME TypeInv, NEW t
  PROVE  /\ Holding \in SUBSET Calls /\ Crowd(t) \in SUBSET Calls
         /\ ClicksOf(t) \in SUBSET Calls /\ Underway(t) \in SUBSET Calls
  BY Roles DEF Holding, Crowd, ClicksOf, Underway, TypeInv, TypeOK

LEMMA NextPooled == TypeInv /\ Pooled /\ [Next]_vars => Pooled'
<1> SUFFICES ASSUME TypeInv, Pooled, [Next]_vars PROVE Pooled'
  OBVIOUS
<1>t. TypeOK /\ TypeInv' /\ Holding \in SUBSET Calls /\ Holding' \in SUBSET Calls
  BY NextTypeInv, CrowdsAreCalls DEF TypeInv, Holding
<1>n. Cardinality(Holding) \in Nat /\ Cardinality(Holding') \in Nat /\ Connections \in Nat
  BY <1>t, FiniteHits, EngagementAssumption
<1>1. ASSUME NEW e \in Calls, Act(e) PROVE Pooled'
  <2>1. \A d \in Calls \ {e} : pc'[d] = pc[d]
    BY <1>1, Own DEF Same4
  <2>2. Holding' \subseteq Holding \cup {e}
    BY <2>1 DEF Holding
  <2>3. CASE Begin(e) \/ Draw(e) \/ Reprobe(e)
    <3>1. Cardinality(Holding) < Connections
      BY <2>3 DEF Begin, Draw, Reprobe, Connection
    <3>2. IsFiniteSet(Holding \cup {e}) /\ Cardinality(Holding \cup {e}) <= Cardinality(Holding) + 1
      BY <1>t, <1>n, FiniteHits, FS_AddElement
    <3>3. Cardinality(Holding') <= Cardinality(Holding \cup {e})
      BY <2>2, <3>2, FS_Subset
    <3>4. Holding \cup {e} \in SUBSET Calls
      BY <1>t
    <3>5. Cardinality(Holding \cup {e}) \in Nat
      BY <3>4, FiniteHits
    <3> QED BY <1>n, <3>1, <3>2, <3>3, <3>5 DEF Pooled
  <2>4. CASE ~(Begin(e) \/ Draw(e) \/ Reprobe(e))
    <3>1. Holding' \subseteq Holding
      <4>1. CASE Rollback(e)
        BY <1>t, <2>1, <4>1 DEF Rollback, Goto, Holding, TypeOK, Ended
      <4>2. CASE Statement(e)
        <5>1. pc[e] \notin {"idle", "unfound", "coded"} \cup Ended
          BY <2>4, <4>2 DEF Statement, resolve_attribution, Seek, Miss, Name, Check, InsertMaster,
             InsertRefused, CommitMasters, create_tracker, Probe, TryCode, InsertTracker,
             CodeTaken, CommitTracker, resolve_redirect, Look, Count, Click, Replay, Unkeyable,
             CommitHit, Ended
        <5> QED BY <2>2, <5>1 DEF Holding
      <4> QED BY <1>1, <2>4, <4>1, <4>2 DEF Act
    <3>2. Cardinality(Holding') <= Cardinality(Holding)
      BY <1>t, <3>1, CardinalityGrows
    <3> QED BY <1>n, <3>2 DEF Pooled
  <2> QED BY <2>3, <2>4
<1>2. CASE Outside
  BY <1>2, Away DEF Pooled, Holding
<1> QED BY <1>1, <1>2, StepKinds

LEMMA NextCrowded ==
  TypeInv /\ ClickInv /\ Pooled /\ Crowded /\ [Next]_vars => Crowded'
<1> SUFFICES ASSUME TypeInv, ClickInv, Pooled, Crowded, [Next]_vars, NEW t \in Creates
             PROVE  Cardinality(Crowd(t)') <= MaxClicks + Connections - 1
  BY DEF Crowded
<1>t. TypeOK /\ TypeInv' /\ Pooled' /\ Committed
  BY NextTypeInv, NextPooled DEF TypeInv, ClickInv
<1>s. /\ Crowd(t) \in SUBSET Calls /\ Crowd(t)' \in SUBSET Calls /\ ClicksOf(t) \in SUBSET Calls
      /\ Underway(t)' \in SUBSET Calls /\ Holding' \in SUBSET Calls
  BY <1>t, CrowdsAreCalls, Roles DEF Crowd, ClicksOf, Underway, Holding, TypeInv, TypeOK
<1>n. /\ Cardinality(Crowd(t)) \in Nat /\ Cardinality(Crowd(t)') \in Nat
      /\ Cardinality(ClicksOf(t)) \in Nat /\ Cardinality(Underway(t)') \in Nat
      /\ Cardinality(Holding') \in Nat
      /\ MaxClicks \in Nat /\ Connections \in Nat
  BY <1>s, FiniteHits, EngagementAssumption
<1>q. ASSUME Crowd(t)' \subseteq Crowd(t)
      PROVE  Cardinality(Crowd(t)') <= MaxClicks + Connections - 1
  <2>1. Cardinality(Crowd(t)') <= Cardinality(Crowd(t))
    BY <1>q, <1>s, CardinalityGrows
  <2>2. Cardinality(Crowd(t)) <= MaxClicks + Connections - 1
    BY DEF Crowded
  <2> QED BY <1>n, <2>1, <2>2
<1>1. ASSUME NEW e \in Calls, Act(e)
      PROVE  Cardinality(Crowd(t)') <= MaxClicks + Connections - 1
  <2>o. \A h \in Hits \ {e} : pc'[h] = pc[h] /\ seen'[h] = seen[h] /\ (h \in clicks' <=> h \in clicks)
    BY <1>1, Own, Roles DEF Same4
  <2>k. \A h \in clicks' : h \in Hits
    BY <1>t DEF TypeInv, TypeOK
  <2>1. CASE e \notin Hits
    <3>1. Crowd(t)' \subseteq Crowd(t)
      BY <2>o, <2>k, <2>1 DEF Crowd, ClicksOf, Underway
    <3> QED BY <1>q, <3>1
  <2>2. CASE e \in Hits /\ ~Count(e)
    <3>1. e \notin clicks
      BY <1>1, Own DEF ClickInv, Committed, Ended
    <3>2. Crowd(t)' \subseteq Crowd(t)
      <4>1. e \in clicks' => pc[e] = "clicked" /\ seen'[e] = seen[e]
        BY <1>1, <2>2, <3>1, HitSteps DEF Quiet, Click, Replay, CommitHit
      <4>2. pc'[e] \in {"counted", "clicked"} => pc[e] = "counted" /\ seen'[e] = seen[e]
        <5>1. CASE Quiet(e)
          BY <5>1 DEF Quiet
        <5>2. CASE Click(e) \/ Replay(e)
          BY <5>2 DEF Click, Replay
        <5>3. CASE CommitHit(e)
          BY <1>t, <5>3 DEF CommitHit, Goto, TypeOK
        <5> QED BY <1>1, <2>2, <5>1, <5>2, <5>3, HitSteps
      <4> QED BY <2>o, <2>k, <2>2, <4>1, <4>2 DEF Crowd, ClicksOf, Underway
    <3> QED BY <1>q, <3>2
  <2>3. CASE e \in Hits /\ Count(e)
    <3>1. clicks' = clicks /\ seen' = seen /\ pc'[e] = (IF Frozen(e) THEN "over" ELSE "counted")
      BY <1>t, <2>3, Roles DEF Count, Goto, TypeOK
    <3>2. CASE Frozen(e) \/ seen[e] # t
      <4>1. Crowd(t)' \subseteq Crowd(t)
        BY <2>o, <3>1, <3>2 DEF Crowd, ClicksOf, Underway
      <4> QED BY <1>q, <4>1
    <3>3. CASE ~Frozen(e) /\ seen[e] = t
      <4>1. Cardinality(ClicksOf(t)) < MaxClicks
        BY <1>n, <3>3 DEF Frozen
      <4>2. Underway(t)' \subseteq Holding'
        BY Roles DEF Underway, Holding, Ended
      <4>3. Cardinality(Underway(t)') <= Cardinality(Holding') /\ Cardinality(Holding') <= Connections
        BY <1>s, <1>t, <4>2, CardinalityGrows DEF Pooled
      <4>4. Crowd(t)' = ClicksOf(t) \cup Underway(t)'
        BY <3>1 DEF Crowd, ClicksOf
      <4>5. Cardinality(ClicksOf(t) \cup Underway(t)') <=
              Cardinality(ClicksOf(t)) + Cardinality(Underway(t)')
        <5>1. IsFiniteSet(ClicksOf(t)) /\ IsFiniteSet(Underway(t)')
          BY <1>s, FiniteHits
        <5>2. ClicksOf(t) \cap Underway(t)' \in SUBSET Calls
          BY <1>s
        <5>3. Cardinality(ClicksOf(t) \cap Underway(t)') \in Nat
          BY <5>2, FiniteHits
        <5>4. Cardinality(ClicksOf(t) \cup Underway(t)') =
                Cardinality(ClicksOf(t)) + Cardinality(Underway(t)')
                  - Cardinality(ClicksOf(t) \cap Underway(t)')
          BY <5>1, FS_Union
        <5> QED BY <1>n, <5>3, <5>4
      <4> QED BY <1>n, <4>1, <4>3, <4>4, <4>5
    <3> QED BY <3>2, <3>3
  <2> QED BY <2>1, <2>2, <2>3
<1>2. CASE Outside
  <2>1. UNCHANGED <<pc, clicks, seen>>
    BY <1>2, Away
  <2>2. Crowd(t)' \subseteq Crowd(t)
    BY <2>1 DEF Crowd, ClicksOf, Underway
  <2> QED BY <1>q, <2>2
<1> QED BY <1>1, <1>2, StepKinds

(* The click cap, counted and inserted without a lock, is passed by fewer   *)
(* clicks than the pool has connections.                                    *)
THEOREM CapOverrunHasABound == Spec => []CapOverrunIsBounded
<1>1. Init => ClickInv /\ Pooled /\ Crowded
  <2> SUFFICES ASSUME Init PROVE ClickInv /\ Pooled /\ Crowded
    OBVIOUS
  <2>1. ClickInv
    BY DEF Init, ClickInv, Committed, KeysDiffer, Excused, Pending, Hits, Of
  <2>2. Holding = {} /\ \A t \in Creates : Crowd(t) = {}
    BY Roles DEF Init, Holding, Crowd, ClicksOf, Underway
  <2>3. Connections \in Nat \ {0} /\ MaxClicks \in Nat
    BY EngagementAssumption
  <2> QED BY <2>1, <2>2, <2>3, FS_EmptySet DEF Pooled, Crowded
<1>2. TypeInv /\ Crowded => CapOverrunIsBounded
  <2> SUFFICES ASSUME TypeInv, Crowded, NEW t \in Creates
               PROVE  Cardinality(ClicksOf(t)) <= MaxClicks + Connections - 1
    BY DEF CapOverrunIsBounded
  <2>1. Crowd(t) \in SUBSET Calls /\ ClicksOf(t) \in SUBSET Crowd(t) /\ ClicksOf(t) \in SUBSET Calls
    BY CrowdsAreCalls DEF Crowd
  <2>2. Cardinality(ClicksOf(t)) <= Cardinality(Crowd(t))
    BY <2>1, CardinalityGrows
  <2>3. Cardinality(ClicksOf(t)) \in Nat /\ Cardinality(Crowd(t)) \in Nat
          /\ MaxClicks \in Nat /\ Connections \in Nat
    BY <2>1, FiniteHits, EngagementAssumption
  <2> QED BY <2>2, <2>3 DEF Crowded
<1> QED BY TypesAreKept, NextClickInv, NextPooled, NextCrowded, <1>1, <1>2, PTL DEF Spec

-----------------------------------------------------------------------------
(* TargetsAreKept, for every target, name and number of trackers.           *)
(*                                                                         *)
(* The text of an address is made and read by FlattenSeq, which recurses    *)
(* over positions.  Induction is done over sets here, by the least element  *)
(* of the set of counterexamples.  Then come what a mark splits a text      *)
(* into, the parameters of a query, that a query made of parameters is      *)
(* read as these parameters, and the same for an address, for the           *)
(* parameters a redirect keeps, and for the names it adds.                  *)

(* A set of naturals has a least element.                                   *)
LEMMA LeastNatural ==
  ASSUME NEW M \in SUBSET Nat, M # {}
  PROVE  \E x \in M : \A y \in M : x <= y
<1> DEFINE R == {p \in Nat \X Nat : p[1] < p[2]}
<1>1. IsWellFoundedOn(R, Nat)
  BY NatLessThanWellFounded DEF OpToRel
<1>2. PICK x \in M : \A y \in M : <<y, x>> \notin R
  <2> HIDE DEF R
  <2>q. QED
    BY <1>1, WFMin
<1>3. ASSUME NEW y \in M, y < x
      PROVE  <<y, x>> \in R
  BY <1>3
<1> HIDE DEF R
<1>4. \A y \in M : ~(y < x)
  BY <1>2, <1>3
<1>q. QED
  BY <1>4

(* Induction over the naturals and over sequences, for a set.               *)
LEMMA InductionOverNat ==
  ASSUME NEW T, 0 \in T, \A n \in Nat : n \in T => n + 1 \in T
  PROVE  \A n \in Nat : n \in T
<1> SUFFICES ASSUME Nat \ T # {}
             PROVE  FALSE
  OBVIOUS
<1>1. PICK x \in Nat \ T : \A y \in Nat \ T : x <= y
  BY LeastNatural
<1>2. x - 1 \in Nat /\ x - 1 \notin T
  BY <1>1
<1>q. QED
  BY <1>1, <1>2

LEMMA InductionOverSeq ==
  ASSUME NEW S, NEW T, <<>> \in T, \A s \in Seq(S), x \in S : s \in T => Append(s, x) \in T
  PROVE  \A s \in Seq(S) : s \in T
<1> DEFINE Good(n) == \A s \in Seq(S) : Len(s) = n => s \in T
           N == {n \in Nat : Good(n)}
<1>1. Good(0)
  BY EmptySeq
<1>2. ASSUME NEW n \in Nat, Good(n)
      PROVE  Good(n + 1)
  <2> SUFFICES ASSUME NEW s \in Seq(S), Len(s) = n + 1
               PROVE  s \in T
    OBVIOUS
  <2>1. s # <<>>
    OBVIOUS
  <2>2. PICK r \in Seq(S), x \in S : s = Append(r, x)
    BY <2>1, SequenceEmptyOrAppend
  <2>3. Len(r) = n
    BY <2>2
  <2>q. QED
    BY <1>2, <2>2, <2>3
<1> HIDE DEF Good
<1>3. 0 \in N /\ \A n \in Nat : n \in N => n + 1 \in N
  BY <1>1, <1>2
<1>4. \A n \in Nat : n \in N
  <2> HIDE DEF N
  <2>q. QED
    BY <1>3, InductionOverNat
<1>q. QED
  BY <1>4, LenProperties DEF Good

-----------------------------------------------------------------------------
(* FlattenSeq is defined by recursion over the positions of its argument.   *)
(* The provers take a \o apart by its elements; Cat keeps it whole.          *)
Cat(a, b) == a \o b

LEMMA CatType ==
  ASSUME NEW S, NEW a \in Seq(S), NEW b \in Seq(S)
  PROVE  /\ Cat(a, b) \in Seq(S)
         /\ Cat(a, <<>>) = a /\ Cat(<<>>, a) = a
  BY DEF Cat

LEMMA CatAt ==
  ASSUME NEW S, NEW a \in Seq(S), NEW b \in Seq(S)
  PROVE  /\ Len(Cat(a, b)) = Len(a) + Len(b)
         /\ \A i \in 1..Len(a) : Cat(a, b)[i] = a[i]
         /\ \A k \in 1..Len(b) : Cat(a, b)[Len(a) + k] = b[k]
  BY DEF Cat

LEMMA CatAssociative ==
  ASSUME NEW S, NEW a \in Seq(S), NEW b \in Seq(S), NEW c \in Seq(S)
  PROVE  Cat(Cat(a, b), c) = Cat(a, Cat(b, c))
  BY DEF Cat

LEMMA FlattenExists ==
  ASSUME NEW S, NEW ss \in Seq(Seq(S))
  PROVE  \E f \in [1..Len(ss) -> Seq(S)] :
           \A i \in 1..Len(ss) : f[i] = IF i = 1 THEN ss[i] ELSE Cat(f[i - 1], ss[i])
<1> DEFINE Meets(f, n) == \A i \in 1..n : f[i] = IF i = 1 THEN ss[i] ELSE Cat(f[i - 1], ss[i])
           D(n) == \E f \in [1..n -> Seq(S)] : Meets(f, n)
           T == {n \in Nat : n <= Len(ss) => D(n)}
<1> Len(ss) \in Nat /\ \A i \in 1..Len(ss) : ss[i] \in Seq(S)
  OBVIOUS
<1>1. D(0)
  <2>1. [i \in 1..0 |-> <<>>] \in [1..0 -> Seq(S)] /\ Meets([i \in 1..0 |-> <<>>], 0)
    OBVIOUS
  <2> HIDE DEF Meets
  <2>q. QED
    BY <2>1
<1>2. ASSUME NEW n \in Nat, n + 1 <= Len(ss), D(n)
      PROVE  D(n + 1)
  <2>1. PICK f \in [1..n -> Seq(S)] : Meets(f, n)
    BY <1>2
  <2> DEFINE next == IF n = 0 THEN ss[1] ELSE Cat(f[n], ss[n + 1])
             g == [i \in 1..(n + 1) |-> IF i = n + 1 THEN next ELSE f[i]]
  <2>2. next \in Seq(S)
    BY <1>2, CatType
  <2>3. g \in [1..(n + 1) -> Seq(S)]
    <3> HIDE DEF next
    <3>q. QED
      BY <2>2
  <2>4. ASSUME NEW i \in 1..(n + 1)
        PROVE  g[i] = IF i = 1 THEN ss[i] ELSE Cat(g[i - 1], ss[i])
    <3>1. CASE i = n + 1
      BY <3>1
    <3>2. CASE i # n + 1
      <4>1. i \in 1..n /\ g[i] = f[i] /\ (i # 1 => g[i - 1] = f[i - 1])
        BY <3>2
      <4>2. f[i] = IF i = 1 THEN ss[i] ELSE Cat(f[i - 1], ss[i])
        BY <2>1, <4>1
      <4> HIDE DEF g
      <4>q. QED
        BY <4>1, <4>2
    <3>q. QED
      BY <3>1, <3>2
  <2>5. Meets(g, n + 1)
    BY <2>4
  <2> HIDE DEF g, Meets
  <2>q. QED
    BY <2>3, <2>5
<1> HIDE DEF D
<1>3. 0 \in T /\ \A n \in Nat : n \in T => n + 1 \in T
  BY <1>1, <1>2
<1>4. Len(ss) \in T
  <2> HIDE DEF T
  <2>q. QED
    BY <1>3, InductionOverNat
<1>q. QED
  BY <1>4 DEF D

LEMMA FlattenIs ==
  ASSUME NEW S, NEW ss \in Seq(Seq(S)), Len(ss) # 0,
         NEW f \in [1..Len(ss) -> Seq(S)],
         \A i \in 1..Len(ss) : f[i] = IF i = 1 THEN ss[i] ELSE Cat(f[i - 1], ss[i])
  PROVE  FlattenSeq(ss) = f[Len(ss)]
<1> DEFINE F(h) == [i \in 1..Len(ss) |-> IF i = 1 THEN ss[i] ELSE Cat(h[i - 1], ss[i])]
           g == CHOOSE h : h = F(h)
           T == {n \in Nat : n \in 1..Len(ss) => g[n] = f[n]}
<1> Len(ss) \in Nat
  OBVIOUS
<1>1. f = F(f)
  OBVIOUS
<1>2. g = F(g)
  <2> HIDE DEF F
  <2>q. QED
    BY <1>1
<1>3. \A i \in 1..Len(ss) : g[i] = IF i = 1 THEN ss[i] ELSE Cat(g[i - 1], ss[i])
  <2> HIDE DEF g
  <2>q. QED
    BY <1>2
<1>4. FlattenSeq(ss) = g[Len(ss)]
  BY DEF FlattenSeq, Cat
<1> HIDE DEF g, F
<1>5. 0 \in T
  OBVIOUS
<1>6. ASSUME NEW n \in Nat, n \in T
      PROVE  n + 1 \in T
  <2> SUFFICES ASSUME n + 1 \in 1..Len(ss)
               PROVE  g[n + 1] = f[n + 1]
    OBVIOUS
  <2>1. CASE n = 0
    <3>1. 1 \in 1..Len(ss) /\ n + 1 = 1
      BY <2>1
    <3>2. g[1] = ss[1] /\ f[1] = ss[1]
      BY <1>3, <3>1
    <3>q. QED
      BY <3>1, <3>2, Zenon
  <2>2. CASE n # 0
    <3>1. n \in 1..Len(ss) /\ g[n] = f[n]
      BY <1>6, <2>2
    <3>2. n + 1 # 1 /\ (n + 1) - 1 = n
      BY <2>2
    <3>3. g[n + 1] = Cat(g[n], ss[n + 1])
      BY <1>3, <3>2
    <3>4. f[n + 1] = Cat(f[n], ss[n + 1])
      BY <3>2
    <3>q. QED
      BY <3>1, <3>3, <3>4
  <2>q. QED
    BY <2>1, <2>2
<1>7. Len(ss) \in T
  <2> HIDE DEF T
  <2>q. QED
    BY <1>5, <1>6, InductionOverNat
<1>q. QED
  BY <1>4, <1>7

LEMMA FlattenEmpty ==
  FlattenSeq(<<>>) = <<>>
  BY DEF FlattenSeq

LEMMA FlattenType ==
  ASSUME NEW S, NEW ss \in Seq(Seq(S))
  PROVE  FlattenSeq(ss) \in Seq(S)
<1>1. CASE Len(ss) = 0
  <2>1. ss = <<>> /\ <<>> \in Seq(S)
    BY <1>1
  <2>2. FlattenSeq(ss) = <<>>
    BY <2>1, FlattenEmpty
  <2>q. QED
    BY <2>1, <2>2, Zenon
<1>2. CASE Len(ss) # 0
  <2>1. PICK f \in [1..Len(ss) -> Seq(S)] :
          \A i \in 1..Len(ss) : f[i] = IF i = 1 THEN ss[i] ELSE Cat(f[i - 1], ss[i])
    BY FlattenExists
  <2>2. FlattenSeq(ss) = f[Len(ss)]
    BY <1>2, <2>1, FlattenIs
  <2>3. Len(ss) \in 1..Len(ss)
    BY <1>2
  <2>4. f[Len(ss)] \in Seq(S)
    BY <2>3, Zenon
  <2>q. QED
    BY <2>2, <2>4, Zenon
<1>q. QED
  BY <1>1, <1>2

LEMMA FlattenAppend ==
  ASSUME NEW S, NEW ss \in Seq(Seq(S)), NEW x \in Seq(S)
  PROVE  FlattenSeq(Append(ss, x)) = Cat(FlattenSeq(ss), x)
<1> DEFINE tt == Append(ss, x)
           n == Len(ss)
<1>t. /\ tt \in Seq(Seq(S)) /\ Len(tt) = n + 1 /\ n \in Nat
      /\ tt[n + 1] = x /\ \A i \in 1..n : tt[i] = ss[i]
  BY AppendProperties
<1> HIDE DEF tt
<1>1. PICK f \in [1..Len(tt) -> Seq(S)] :
        \A i \in 1..Len(tt) : f[i] = IF i = 1 THEN tt[i] ELSE Cat(f[i - 1], tt[i])
  BY <1>t, FlattenExists
<1>2. FlattenSeq(tt) = f[n + 1]
  <2>0. tt \in Seq(Seq(S)) /\ Len(tt) # 0
    BY <1>t
  <2>1. FlattenSeq(tt) = f[Len(tt)]
    BY <1>1, <2>0, FlattenIs, Zenon
  <2>q. QED
    BY <1>t, <2>1
<1>3. CASE n = 0
  <2>1. ss = <<>> /\ FlattenSeq(ss) = <<>>
    BY <1>3, FlattenEmpty
  <2>2. f[n + 1] = x
    BY <1>t, <1>1, <1>3
  <2>q. QED
    BY <1>2, <2>1, <2>2, CatType DEF tt
<1>4. CASE n # 0
  <2> DEFINE g == [i \in 1..n |-> f[i]]
  <2>1. g \in [1..n -> Seq(S)]
    BY <1>t, <1>1
  <2>2. ASSUME NEW i \in 1..n
        PROVE  g[i] = IF i = 1 THEN ss[i] ELSE Cat(g[i - 1], ss[i])
    <3>1. g[i] = f[i] /\ (i # 1 => g[i - 1] = f[i - 1])
      BY <1>t
    <3>2. i \in 1..Len(tt) /\ tt[i] = ss[i]
      BY <1>t
    <3>3. f[i] = IF i = 1 THEN tt[i] ELSE Cat(f[i - 1], tt[i])
      BY <1>1, <3>2
    <3> HIDE DEF g
    <3>q. QED
      BY <3>1, <3>2, <3>3
  <2>3. g[n] = f[n]
    BY <1>4
  <2> HIDE DEF g
  <2>4. FlattenSeq(ss) = f[n]
    BY <1>4, <2>1, <2>2, <2>3, FlattenIs
  <2>5. n + 1 \in 1..Len(tt) /\ n + 1 # 1 /\ (n + 1) - 1 = n
    BY <1>t, <1>4
  <2>6. f[n + 1] = Cat(f[n], x)
    BY <1>t, <1>1, <2>5
  <2>q. QED
    BY <1>2, <2>4, <2>6 DEF tt
<1>q. QED
  BY <1>3, <1>4

LEMMA FlattenConcat ==
  ASSUME NEW S, NEW ss \in Seq(Seq(S)), NEW tt \in Seq(Seq(S))
  PROVE  FlattenSeq(Cat(ss, tt)) = Cat(FlattenSeq(ss), FlattenSeq(tt))
<1> DEFINE T == {uu \in Seq(Seq(S)) : FlattenSeq(Cat(ss, uu)) = Cat(FlattenSeq(ss), FlattenSeq(uu))}
<1>1. <<>> \in T
  <2>1. <<>> \in Seq(Seq(S)) /\ Cat(ss, <<>>) = ss
    BY EmptySeq, CatType
  <2>2. Cat(FlattenSeq(ss), <<>>) = FlattenSeq(ss)
    BY FlattenType, CatType
  <2>3. FlattenSeq(Cat(ss, <<>>)) = Cat(FlattenSeq(ss), FlattenSeq(<<>>))
    BY <2>1, <2>2, FlattenEmpty, Zenon
  <2>q. QED
    BY <2>1, <2>3, Zenon
<1>2. ASSUME NEW uu \in Seq(Seq(S)), NEW x \in Seq(S), uu \in T
      PROVE  Append(uu, x) \in T
  <2>1. /\ Cat(ss, uu) \in Seq(Seq(S)) /\ Append(uu, x) \in Seq(Seq(S))
        /\ Cat(ss, Append(uu, x)) = Append(Cat(ss, uu), x)
    BY DEF Cat
  <2>2. /\ FlattenSeq(Append(Cat(ss, uu), x)) = Cat(FlattenSeq(Cat(ss, uu)), x)
        /\ FlattenSeq(Append(uu, x)) = Cat(FlattenSeq(uu), x)
    BY <2>1, FlattenAppend
  <2>3. FlattenSeq(Cat(ss, uu)) = Cat(FlattenSeq(ss), FlattenSeq(uu))
    BY <1>2
  <2>4. Cat(Cat(FlattenSeq(ss), FlattenSeq(uu)), x) = Cat(FlattenSeq(ss), Cat(FlattenSeq(uu), x))
    BY FlattenType, CatAssociative
  <2>q. QED
    BY <2>1, <2>2, <2>3, <2>4, Zenon
<1>3. \A uu \in Seq(Seq(S)) : uu \in T
  <2> HIDE DEF T
  <2>q. QED
    BY <1>1, <1>2, InductionOverSeq
<1>q. QED
  BY <1>3

LEMMA FlattenOne ==
  ASSUME NEW S, NEW x \in Seq(S)
  PROVE  FlattenSeq(<<x>>) = x
<1>1. <<>> \in Seq(Seq(S)) /\ Append(<<>>, x) = <<x>> /\ Cat(<<>>, x) = x
  BY EmptySeq, CatType
<1>2. FlattenSeq(Append(<<>>, x)) = Cat(FlattenSeq(<<>>), x)
  BY <1>1, FlattenAppend
<1>q. QED
  BY <1>1, <1>2, FlattenEmpty, Zenon

LEMMA FlattenNone ==
  ASSUME NEW ss \in Seq({<<>>})
  PROVE  FlattenSeq(ss) = <<>>
<1>1. ss \in Seq(Seq({}))
  <2>1. {<<>>} \subseteq Seq({})
    BY EmptySeq
  <2>q. QED
    BY <2>1, SeqMonotonic, Zenon
<1>2. FlattenSeq(ss) \in Seq({})
  BY <1>1, FlattenType
<1>q. QED
  BY <1>2

LEMMA FlattenSingles ==
  ASSUME NEW S, NEW s \in Seq(S)
  PROVE  FlattenSeq([i \in DOMAIN s |-> <<s[i]>>]) = s
<1> DEFINE Singles(r) == [i \in DOMAIN r |-> <<r[i]>>]
           T == {r \in Seq(S) : FlattenSeq(Singles(r)) = r}
<1>1. <<>> \in T
  <2>1. Singles(<<>>) = <<>>
    OBVIOUS
  <2> HIDE DEF Singles
  <2>q. QED
    BY <2>1, EmptySeq, FlattenEmpty
<1>t. ASSUME NEW r \in Seq(S)
      PROVE  /\ Singles(r) \in Seq(Seq(S)) /\ Len(Singles(r)) = Len(r)
             /\ \A i \in 1..Len(r) : Singles(r)[i] = <<r[i]>>
  <2>1. Singles(r) = [i \in 1..Len(r) |-> <<r[i]>>]
    OBVIOUS
  <2>q. QED
    BY <2>1
<1>2. ASSUME NEW r \in Seq(S), NEW x \in S, r \in T
      PROVE  Append(r, x) \in T
  <2> DEFINE e == Append(r, x)
  <2>1. /\ e \in Seq(S) /\ e = Cat(r, <<x>>) /\ <<x>> \in Seq(S)
        /\ Len(r) \in Nat /\ Len(e) = Len(r) + 1 /\ e[Len(r) + 1] = x
        /\ \A i \in 1..Len(r) : e[i] = r[i]
    BY AppendIsConcat DEF Cat
  <2>2. FlattenSeq(Singles(r)) = r
    BY <1>2
  <2> HIDE DEF e, Singles
  <2>3. Singles(e) = Append(Singles(r), <<x>>)
    <3> DEFINE b == Append(Singles(r), <<x>>)
    <3>1. /\ Singles(e) \in Seq(Seq(S)) /\ Len(Singles(e)) = Len(e)
          /\ \A i \in 1..Len(e) : Singles(e)[i] = <<e[i]>>
      BY <1>t, <2>1
    <3>2. /\ b \in Seq(Seq(S)) /\ Len(b) = Len(r) + 1 /\ b[Len(r) + 1] = <<x>>
          /\ \A i \in 1..Len(r) : b[i] = <<r[i]>>
      BY <1>t, <2>1
    <3> HIDE DEF b
    <3>3. ASSUME NEW i \in 1..Len(e)
          PROVE  Singles(e)[i] = b[i]
      <4>1. CASE i = Len(r) + 1
        BY <2>1, <3>1, <3>2, <4>1
      <4>2. CASE i # Len(r) + 1
        <5>1. i \in 1..Len(r)
          BY <2>1, <4>2
        <5>q. QED
          BY <2>1, <3>1, <3>2, <5>1
      <4>q. QED
        BY <4>1, <4>2
    <3>4. Len(Singles(e)) = Len(b) /\ \A i \in 1..Len(Singles(e)) : Singles(e)[i] = b[i]
      BY <2>1, <3>1, <3>2, <3>3
    <3>5. Singles(e) = b
      BY <3>1, <3>2, <3>4, SeqEqual, Zenon
    <3>q. QED
      BY <3>5 DEF b
  <2>4. FlattenSeq(Append(Singles(r), <<x>>)) = Cat(FlattenSeq(Singles(r)), <<x>>)
    BY <1>t, <2>1, FlattenAppend
  <2>q. QED
    BY <2>1, <2>2, <2>3, <2>4, Zenon DEF e
<1>3. \A r \in Seq(S) : r \in T
  <2> HIDE DEF T
  <2>q. QED
    BY <1>1, <1>2, InductionOverSeq
<1>q. QED
  BY <1>3

-----------------------------------------------------------------------------
(* split_once: the text before a mark ends where the mark first stands.     *)
LEMMA BeforeIs ==
  ASSUME NEW S, NEW s \in Seq(S), NEW mark, NEW n \in 0..Len(s),
         \A i \in 1..n : s[i] # mark, n < Len(s) => s[n + 1] = mark
  PROVE  Before(s, mark) = SubSeq(s, 1, n)
<1> DEFINE I == {i \in 1..Len(s) : s[i] = mark}
<1>1. CASE n = Len(s)
  <2>1. ~Contains(s, mark)
    BY <1>1 DEF Contains
  <2>q. QED
    BY <1>1, <2>1, SubSeqFull DEF Before
<1>2. CASE n < Len(s)
  <2>1. Contains(s, mark) /\ n + 1 \in I /\ \A i \in I : n + 1 <= i
    BY <1>2 DEF Contains
  <2>2. Min(I) = n + 1
    <3>1. \A m \in I : (\A i \in I : m <= i) => m = n + 1
      BY <2>1
    <3> HIDE DEF I
    <3>q. QED
      BY <2>1, <3>1 DEF Min
  <2>3. SelectInSeq(s, LAMBDA x : x = mark) = n + 1
    <3>1. SelectInSeq(s, LAMBDA x : x = mark) = IF I # {} THEN Min(I) ELSE 0
      BY DEF SelectInSeq
    <3> HIDE DEF I
    <3>q. QED
      BY <2>1, <2>2, <3>1
  <2>4. Before(s, mark) = SubSeq(s, 1, (n + 1) - 1)
    BY <2>1, <2>3, Zenon DEF Before
  <2>5. (n + 1) - 1 = n
    OBVIOUS
  <2>q. QED
    BY <2>4, <2>5, Zenon
<1>q. QED
  BY <1>1, <1>2

LEMMA BeforeEnds ==
  ASSUME NEW S, NEW s \in Seq(S), NEW mark
  PROVE  \E n \in 0..Len(s) : /\ \A i \in 1..n : s[i] # mark
                              /\ n < Len(s) => s[n + 1] = mark
<1> DEFINE I == {i \in 1..Len(s) : s[i] = mark}
<1>1. CASE I = {}
  BY <1>1
<1>2. CASE I # {}
  <2>1. PICK m \in I : \A i \in I : m <= i
    <3> I \in SUBSET Nat
      OBVIOUS
    <3> HIDE DEF I
    <3>q. QED
      BY <1>2, LeastNatural
  <2>2. m - 1 \in 0..Len(s) /\ \A i \in 1..(m - 1) : s[i] # mark
    BY <2>1
  <2>3. s[(m - 1) + 1] = mark
    BY <2>1
  <2>q. QED
    BY <2>2, <2>3
<1>q. QED
  BY <1>1, <1>2

LEMMA BeforeType ==
  ASSUME NEW S, NEW s \in Seq(S), NEW mark
  PROVE  /\ Before(s, mark) \in Seq(S \ {mark}) /\ After(s, mark) \in Seq(S)
         /\ Fragment(s) \in Seq(S)
<1>1. PICK n \in 0..Len(s) : (\A i \in 1..n : s[i] # mark) /\ (n < Len(s) => s[n + 1] = mark)
  BY BeforeEnds
<1>2. Before(s, mark) = SubSeq(s, 1, n)
  BY <1>1, BeforeIs
<1>3. SubSeq(s, 1, n) \in Seq(S \ {mark})
  BY <1>1
<1>4. After(s, mark) = SubSeq(s, n + 2, Len(s))
  BY <1>2 DEF After
<1>5. Len(Before(s, "#")) \in Nat
  <2>1. PICK m \in 0..Len(s) : (\A i \in 1..m : s[i] # "#") /\ (m < Len(s) => s[m + 1] = "#")
    BY BeforeEnds
  <2>2. Before(s, "#") = SubSeq(s, 1, m)
    BY <2>1, BeforeIs
  <2>q. QED
    BY <2>2
<1>q. QED
  BY <1>2, <1>3, <1>4, <1>5 DEF Fragment

LEMMA BeforeWhole ==
  ASSUME NEW S, NEW mark, NEW s \in Seq(S \ {mark})
  PROVE  Before(s, mark) = s
<1>1. Before(s, mark) = SubSeq(s, 1, Len(s))
  BY BeforeIs
<1>q. QED
  BY <1>1, SubSeqFull

Rest(b) == IF b = <<>> THEN <<>> ELSE Tail(b)

(* The mark and what follows it.                                            *)
From(s, mark) == SubSeq(s, Len(Before(s, mark)) + 1, Len(s))

LEMMA CatIn ==
  ASSUME NEW S, NEW a \in Seq(S), NEW b \in Seq(S)
  PROVE  Cat(a, b) \in Seq(S)
  BY CatType

(* What stands before the first mark, from it on, and after it, in a text   *)
(* without the mark that one beginning with the mark follows.               *)
LEMMA BeforeOfCat ==
  ASSUME NEW S, NEW mark, NEW a \in Seq(S \ {mark}), NEW b \in Seq(S), b = <<>> \/ b[1] = mark
  PROVE  /\ Before(Cat(a, b), mark) = a
         /\ From(Cat(a, b), mark) = b
         /\ After(Cat(a, b), mark) = Rest(b)
<1> DEFINE s == Cat(a, b)
           n == Len(a)
<1>1. /\ s \in Seq(S) /\ n \in 0..Len(s) /\ Len(s) = n + Len(b) /\ Len(b) \in Nat
      /\ \A i \in 1..n : s[i] = a[i] /\ a[i] # mark
      /\ \A i \in 1..Len(b) : s[n + i] = b[i]
  BY DEF Cat
<1>2. n < Len(s) => s[n + 1] = mark
  BY <1>1, EmptySeq
<1> HIDE DEF s
<1>3. Before(s, mark) = SubSeq(s, 1, n)
  <2>1. s \in Seq(S) /\ n \in 0..Len(s) /\ \A i \in 1..n : s[i] # mark
    BY <1>1
  <2> HIDE DEF n
  <2>q. QED
    BY <1>2, <2>1, BeforeIs
<1>4. SubSeq(s, 1, n) = a
  BY <1>1
<1>5. From(s, mark) = b
  <2>1. SubSeq(s, n + 1, Len(s)) = b
    BY <1>1
  <2>q. QED
    BY <1>3, <1>4, <2>1 DEF From
<1>6. After(s, mark) = SubSeq(s, n + 2, Len(s))
  BY <1>3, <1>4 DEF After
<1>7. CASE b = <<>>
  BY <1>1, <1>3, <1>4, <1>5, <1>6, <1>7 DEF s, Rest
<1>8. CASE b # <<>>
  <2>1. SubSeq(s, n + 2, Len(s)) = Tail(b)
    BY <1>1, <1>8
  <2>q. QED
    BY <1>3, <1>4, <1>5, <1>6, <1>8, <2>1 DEF s, Rest
<1>q. QED
  BY <1>7, <1>8

(* A mark that comes later changes nothing before the first one.            *)
LEMMA BeforeMore ==
  ASSUME NEW S, NEW mark, NEW a \in Seq(S), NEW b \in Seq(S), b # <<>>, b[1] = mark
  PROVE  Before(a \o b, mark) = Before(a, mark)
<1>1. PICK n \in 0..Len(a) : (\A i \in 1..n : a[i] # mark) /\ (n < Len(a) => a[n + 1] = mark)
  BY BeforeEnds
<1> DEFINE s == a \o b
<1>2. /\ s \in Seq(S) /\ n \in 0..Len(s) /\ Len(a) \in Nat
      /\ \A i \in 1..Len(a) : s[i] = a[i]
      /\ Len(a) < Len(s) /\ s[Len(a) + 1] = mark
  OBVIOUS
<1> HIDE DEF s
<1>3. (\A i \in 1..n : s[i] # mark) /\ (n < Len(s) => s[n + 1] = mark)
  <2>1. \A i \in 1..n : s[i] # mark
    BY <1>1, <1>2
  <2>2. CASE n < Len(a)
    <3>1. n + 1 \in 1..Len(a)
      BY <1>2, <2>2
    <3>q. QED
      BY <1>1, <1>2, <2>1, <2>2, <3>1
  <2>3. CASE n = Len(a)
    BY <1>2, <2>1, <2>3
  <2>q. QED
    BY <2>2, <2>3
<1>4. Before(s, mark) = SubSeq(s, 1, n) /\ Before(a, mark) = SubSeq(a, 1, n)
  BY <1>1, <1>2, <1>3, BeforeIs
<1>5. SubSeq(s, 1, n) = SubSeq(a, 1, n)
  BY <1>2
<1>q. QED
  BY <1>4, <1>5 DEF s

-----------------------------------------------------------------------------
(* A parameter as inject_utm_params takes one apart: neither of its parts   *)
(* holds a mark that ended it.                                              *)
ParamOver(S) == [key : Seq(S \ {"#", "&", "="}), value : Seq(S \ {"#", "&"})]

(* What the i-th position of a query contributes to its parameters.         *)
Item(q, i) ==
  IF (i = 1 \/ q[i - 1] = "&") /\ q[i] # "&"
  THEN <<Pair(Before(SubSeq(q, i, Len(q)), "&"))>> ELSE <<>>

Items(q) == [i \in DOMAIN q |-> Item(q, i)]

LEMMA PairType ==
  ASSUME NEW S, NEW p \in Seq(S \ {"#", "&"})
  PROVE  Pair(p) \in ParamOver(S)
<1>1. Before(p, "=") \in Seq((S \ {"#", "&"}) \ {"="}) /\ After(p, "=") \in Seq(S \ {"#", "&"})
  BY BeforeType
<1>2. (S \ {"#", "&"}) \ {"="} = S \ {"#", "&", "="}
  OBVIOUS
<1>q. QED
  BY <1>1, <1>2 DEF Pair, ParamOver

LEMMA ItemType ==
  ASSUME NEW S, NEW q \in Seq(S \ {"#"}), NEW i \in 1..Len(q)
  PROVE  Item(q, i) \in Seq(ParamOver(S))
<1>1. SubSeq(q, i, Len(q)) \in Seq(S \ {"#"})
  OBVIOUS
<1>2. Before(SubSeq(q, i, Len(q)), "&") \in Seq((S \ {"#"}) \ {"&"})
  BY <1>1, BeforeType
<1>3. (S \ {"#"}) \ {"&"} = S \ {"#", "&"}
  OBVIOUS
<1>4. Pair(Before(SubSeq(q, i, Len(q)), "&")) \in ParamOver(S)
  BY <1>2, <1>3, PairType
<1>q. QED
  BY <1>4 DEF Item

LEMMA ItemsType ==
  ASSUME NEW S, NEW q \in Seq(S \ {"#"})
  PROVE  /\ Items(q) \in Seq(Seq(ParamOver(S))) /\ Len(Items(q)) = Len(q)
         /\ \A i \in 1..Len(q) : Items(q)[i] = Item(q, i)
<1>1. Items(q) = [i \in 1..Len(q) |-> Item(q, i)] /\ Len(q) \in Nat
  BY DEF Items
<1>q. QED
  BY <1>1, ItemType

LEMMA SplitIs ==
  ASSUME NEW q
  PROVE  Split(q) = FlattenSeq(Items(q))
  BY DEF Split, Items, Item

LEMMA SplitType ==
  ASSUME NEW S, NEW q \in Seq(S \ {"#"})
  PROVE  Split(q) \in Seq(ParamOver(S))
  BY ItemsType, SplitIs, FlattenType

(* One parameter.                                                           *)
LEMMA SplitWhole ==
  ASSUME NEW S, NEW w \in Seq(S \ {"#", "&"}), w # <<>>
  PROVE  Split(w) = <<Pair(w)>>
<1>0. w \in Seq(S \ {"#"}) /\ w \in Seq(S \ {"&"}) /\ Len(w) \in Nat /\ Len(w) >= 1
  OBVIOUS
<1>1. Item(w, 1) = <<Pair(w)>>
  <2>1. SubSeq(w, 1, Len(w)) = w /\ w[1] # "&"
    BY <1>0, SubSeqFull
  <2>2. Before(w, "&") = w
    BY <1>0, BeforeWhole
  <2>q. QED
    BY <2>1, <2>2 DEF Item
<1>2. ASSUME NEW i \in 2..Len(w)
      PROVE  Item(w, i) = <<>>
  <2>1. i - 1 \in 1..Len(w) /\ w[i - 1] # "&"
    BY <1>0
  <2>q. QED
    BY <2>1 DEF Item
<1> DEFINE one == <<Pair(w)>>
           rest == [i \in 1..(Len(w) - 1) |-> <<>>]
<1>3. one \in Seq(ParamOver(S)) /\ <<one>> \in Seq(Seq(ParamOver(S)))
  <2>1. Pair(w) \in ParamOver(S)
    BY PairType
  <2>q. QED
    BY <2>1
<1>4. rest \in Seq({<<>>}) /\ rest \in Seq(Seq(ParamOver(S))) /\ Len(rest) = Len(w) - 1
      /\ \A i \in 1..(Len(w) - 1) : rest[i] = <<>>
  BY <1>0, EmptySeq
<1>5. Items(w) = Cat(<<one>>, rest)
  <2> DEFINE first == <<one>>
             b == Cat(first, rest)
  <2>1. /\ b \in Seq(Seq(ParamOver(S))) /\ Len(b) = Len(w) /\ b[1] = one
        /\ \A i \in 2..Len(w) : b[i] = <<>>
    <3> HIDE DEF one, rest
    <3>0. first \in Seq(Seq(ParamOver(S))) /\ rest \in Seq(Seq(ParamOver(S)))
      BY <1>3, <1>4
    <3>3. Len(first) = 1 /\ first[1] = one
      OBVIOUS
    <3> HIDE DEF first
    <3>1. b \in Seq(Seq(ParamOver(S)))
      BY <3>0, CatType
    <3>2. /\ Len(b) = Len(first) + Len(rest)
          /\ \A i \in 1..Len(first) : b[i] = first[i]
          /\ \A k \in 1..Len(rest) : b[Len(first) + k] = rest[k]
      BY <3>0, CatAt
    <3> HIDE DEF b
    <3>4. ASSUME NEW i \in 2..Len(w)
          PROVE  b[i] = <<>>
      <4>1. i - 1 \in 1..Len(rest) /\ 1 + (i - 1) = i
        BY <1>0, <1>4
      <4>q. QED
        BY <1>4, <3>2, <3>3, <4>1
    <3>q. QED
      BY <1>0, <1>4, <3>1, <3>2, <3>3, <3>4
  <2> HIDE DEF b
  <2>2. /\ Items(w) \in Seq(Seq(ParamOver(S))) /\ Len(Items(w)) = Len(w)
        /\ \A i \in 1..Len(w) : Items(w)[i] = Item(w, i)
    BY <1>0, ItemsType
  <2>3. ASSUME NEW i \in 1..Len(w)
        PROVE  Items(w)[i] = b[i]
    <3>1. CASE i = 1
      BY <1>1, <2>1, <2>2, <3>1
    <3>2. CASE i # 1
      <4>1. i \in 2..Len(w)
        BY <3>2
      <4>2. Items(w)[i] = <<>> /\ b[i] = <<>>
        BY <1>2, <2>1, <2>2, <4>1
      <4>q. QED
        BY <4>2
    <3>q. QED
      BY <3>1, <3>2
  <2>4. Len(Items(w)) = Len(b) /\ \A i \in 1..Len(Items(w)) : Items(w)[i] = b[i]
    BY <2>1, <2>2, <2>3
  <2>5. Items(w) = b
    BY <2>1, <2>2, <2>4, SeqEqual, Zenon
  <2>q. QED
    BY <2>5 DEF b
<1> HIDE DEF one, rest
<1>6. FlattenSeq(Items(w)) = Cat(FlattenSeq(<<one>>), FlattenSeq(rest))
  BY <1>3, <1>4, <1>5, FlattenConcat
<1>7. FlattenSeq(<<one>>) = one /\ FlattenSeq(rest) = <<>>
  BY <1>3, <1>4, FlattenOne, FlattenNone
<1>8. Cat(one, <<>>) = one
  BY <1>3, CatType
<1>q. QED
  BY <1>6, <1>7, <1>8, SplitIs DEF one

(* The parameters of two queries joined by & are those of the one and then  *)
(* those of the other.                                                      *)
LEMMA SplitConcat ==
  ASSUME NEW S, "&" \in S, NEW a \in Seq(S \ {"#"}), NEW w \in Seq(S \ {"#"})
  PROVE  Split(a \o <<"&">> \o w) = Cat(Split(a), Split(w))
<1> DEFINE P == Seq(ParamOver(S))
           q == a \o <<"&">> \o w
           b == <<"&">> \o w
           n == Len(a)
<1>0. /\ q \in Seq(S \ {"#"}) /\ n \in Nat /\ Len(w) \in Nat /\ Len(q) = n + 1 + Len(w)
      /\ \A i \in 1..n : q[i] = a[i]
      /\ q[n + 1] = "&"
      /\ \A j \in 1..Len(w) : q[n + 1 + j] = w[j]
  OBVIOUS
<1>b. b \in Seq(S \ {"#"}) /\ b # <<>> /\ b[1] = "&" /\ Len(b) = 1 + Len(w)
      /\ \A j \in 1..Len(w) : b[1 + j] = w[j]
  OBVIOUS
<1> HIDE DEF q, b
<1>1. ASSUME NEW i \in 1..n
      PROVE  Item(q, i) = Item(a, i)
  <2>1. q[i] = a[i] /\ (i # 1 => q[i - 1] = a[i - 1])
    BY <1>0
  <2> DEFINE x == SubSeq(a, i, n)
  <2>2. x \in Seq(S \ {"#"}) /\ SubSeq(q, i, Len(q)) = x \o b
    <3> DEFINE y == Cat(x, b)
               z == SubSeq(q, i, Len(q))
    <3>1. x \in Seq(S \ {"#"}) /\ Len(x) = n - i + 1 /\ \A j \in 1..Len(x) : x[j] = a[i + j - 1]
      BY <1>0
    <3>2. z \in Seq(S \ {"#"}) /\ Len(z) = n + 2 + Len(w) - i /\ \A j \in 1..Len(z) : z[j] = q[i + j - 1]
      BY <1>0
    <3> HIDE DEF x
    <3>3. /\ y \in Seq(S \ {"#"}) /\ Len(y) = n + 2 + Len(w) - i
          /\ \A j \in 1..Len(x) : y[j] = x[j]
          /\ \A k \in 1..Len(b) : y[Len(x) + k] = b[k]
      <4>1. y \in Seq(S \ {"#"})
        BY <1>b, <3>1, CatType
      <4>2. /\ Len(y) = Len(x) + Len(b)
            /\ \A j \in 1..Len(x) : y[j] = x[j]
            /\ \A k \in 1..Len(b) : y[Len(x) + k] = b[k]
        <5> DEFINE U == S \ {"#"}
        <5>1. x \in Seq(U) /\ b \in Seq(U)
          BY <1>b, <3>1
        <5> HIDE DEF U
        <5>q. QED
          BY <5>1, CatAt
      <4> HIDE DEF y
      <4>q. QED
        BY <1>0, <1>b, <3>1, <4>1, <4>2
    <3> HIDE DEF y, z
    <3>4. ASSUME NEW j \in 1..Len(z)
          PROVE  z[j] = y[j]
      <4>1. CASE j \in 1..Len(x)
        <5>1. z[j] = q[i + j - 1] /\ y[j] = a[i + j - 1] /\ i + j - 1 \in 1..n
          BY <1>0, <3>1, <3>2, <3>3, <4>1
        <5>q. QED
          BY <1>0, <5>1
      <4>2. CASE j = Len(x) + 1
        <5>1. i + j - 1 = n + 1 /\ 1 \in 1..Len(b)
          BY <1>0, <1>b, <3>1, <4>2
        <5>2. z[j] = q[n + 1]
          BY <3>2, <5>1
        <5>3. y[j] = b[1]
          BY <3>3, <4>2, <5>1
        <5>q. QED
          BY <1>0, <1>b, <5>2, <5>3
      <4>3. CASE j > Len(x) + 1
        <5> DEFINE k == j - Len(x) - 1
        <5>0. /\ n \in Nat /\ i \in Nat /\ j \in Nat /\ Len(w) \in Nat /\ Len(x) = n - i + 1
              /\ Len(b) = 1 + Len(w) /\ j <= n + 2 + Len(w) - i
          BY <1>0, <1>b, <3>1, <3>2
        <5>1. k \in 1..Len(w) /\ j = Len(x) + (1 + k) /\ i + j - 1 = n + 1 + k /\ 1 + k \in 1..Len(b)
          BY <4>3, <5>0
        <5> HIDE DEF k
        <5>2. z[j] = q[n + 1 + k] /\ y[j] = b[1 + k]
          BY <3>2, <3>3, <5>1
        <5>q. QED
          BY <1>0, <1>b, <5>1, <5>2
      <4>q. QED
        <5>1. Len(x) \in Int /\ j \in Nat /\ j >= 1
          BY <1>0, <3>1
        <5>2. j \in 1..Len(x) \/ j = Len(x) + 1 \/ j > Len(x) + 1
          BY <5>1
        <5>q. QED
          BY <4>1, <4>2, <4>3, <5>2
    <3>5. z = y
      BY <3>2, <3>3, <3>4, SeqEqual
    <3>q. QED
      BY <3>1, <3>5 DEF y, z, Cat
  <2> HIDE DEF x
  <2>3. Before(SubSeq(q, i, Len(q)), "&") = Before(x, "&")
    <3>1. Before(x \o b, "&") = Before(x, "&")
      BY <1>b, <2>2, BeforeMore
    <3>q. QED
      BY <2>2, <3>1
  <2>q. QED
    BY <2>1, <2>3 DEF Item, x
<1>2. Item(q, n + 1) = <<>>
  BY <1>0 DEF Item
<1>3. ASSUME NEW j \in 1..Len(w)
      PROVE  Item(q, n + 1 + j) = Item(w, j)
  <2>1. /\ q[n + 1 + j] = w[j] /\ n + 1 + j # 1 /\ (n + 1 + j) - 1 = n + j
        /\ (j = 1 => q[n + j] = "&")
        /\ (j # 1 => q[n + j] = w[j - 1])
    <3>1. j # 1 => j - 1 \in 1..Len(w) /\ n + 1 + (j - 1) = n + j
      BY <1>0
    <3>q. QED
      BY <1>0, <3>1
  <2>2. SubSeq(q, n + 1 + j, Len(q)) = SubSeq(w, j, Len(w))
    <3> DEFINE y == SubSeq(w, j, Len(w))
               z == SubSeq(q, n + 1 + j, Len(q))
    <3>1. y \in Seq(S \ {"#"}) /\ Len(y) = Len(w) - j + 1 /\ \A k \in 1..Len(y) : y[k] = w[j + k - 1]
      BY <1>0
    <3>2. z \in Seq(S \ {"#"}) /\ Len(z) = Len(w) - j + 1
          /\ \A k \in 1..Len(z) : z[k] = q[n + 1 + (j + k - 1)]
      BY <1>0
    <3> HIDE DEF y, z
    <3>3. ASSUME NEW k \in 1..Len(z)
          PROVE  z[k] = y[k]
      <4>1. j + k - 1 \in 1..Len(w)
        BY <1>0, <3>2
      <4>q. QED
        BY <1>0, <3>1, <3>2, <4>1
    <3>4. z = y
      BY <3>1, <3>2, <3>3, SeqEqual
    <3>q. QED
      BY <3>4 DEF y, z
  <2>q. QED
    BY <2>1, <2>2 DEF Item
<1> DEFINE none == <<<<>>>>
           A == Items(a)
           W == Items(w)
           m == Cat(Cat(A, none), W)
<1>4. /\ A \in Seq(P) /\ Len(A) = n /\ \A i \in 1..n : A[i] = Item(a, i)
      /\ W \in Seq(P) /\ Len(W) = Len(w) /\ \A j \in 1..Len(w) : W[j] = Item(w, j)
      /\ Items(q) \in Seq(P) /\ Len(Items(q)) = Len(q) /\ \A i \in 1..Len(q) : Items(q)[i] = Item(q, i)
  BY <1>0, ItemsType
<1>5. none \in Seq(P) /\ none \in Seq({<<>>}) /\ Len(none) = 1 /\ none[1] = <<>>
  BY EmptySeq
<1> HIDE DEF A, W, none, P
<1>6. Cat(A, none) \in Seq(P)
  BY <1>4, <1>5, CatType
<1>7. Items(q) = m
  <2>1. /\ m \in Seq(P) /\ Len(m) = Len(q)
        /\ \A i \in 1..n : m[i] = A[i]
        /\ m[n + 1] = <<>>
        /\ \A j \in 1..Len(w) : m[n + 1 + j] = W[j]
    <3> DEFINE An == Cat(A, none)
    <3>1. /\ An \in Seq(P) /\ Len(An) = n + 1
          /\ (\A i \in 1..n : An[i] = A[i]) /\ An[n + 1] = <<>>
      <4>1. An \in Seq(P)
        BY <1>4, <1>5, CatType
      <4>2. /\ Len(An) = Len(A) + Len(none)
            /\ \A i \in 1..Len(A) : An[i] = A[i]
            /\ \A k \in 1..Len(none) : An[Len(A) + k] = none[k]
        <5>1. A \in Seq(P) /\ none \in Seq(P)
          BY <1>4, <1>5
        <5>q. QED
          BY <5>1, CatAt
      <4> HIDE DEF An
      <4>q. QED
        BY <1>4, <1>5, <4>1, <4>2
    <3> HIDE DEF An
    <3>2. /\ Cat(An, W) \in Seq(P) /\ Len(Cat(An, W)) = n + 1 + Len(w)
          /\ \A i \in 1..(n + 1) : Cat(An, W)[i] = An[i]
          /\ \A j \in 1..Len(w) : Cat(An, W)[n + 1 + j] = W[j]
      <4>1. Cat(An, W) \in Seq(P)
        BY <1>4, <3>1, CatType
      <4>2. /\ Len(Cat(An, W)) = Len(An) + Len(W)
            /\ \A i \in 1..Len(An) : Cat(An, W)[i] = An[i]
            /\ \A j \in 1..Len(W) : Cat(An, W)[Len(An) + j] = W[j]
        <5>1. An \in Seq(P) /\ W \in Seq(P)
          BY <1>4, <3>1
        <5>q. QED
          BY <5>1, CatAt
      <4>q. QED
        BY <1>4, <3>1, <4>1, <4>2
    <3>3. m = Cat(An, W)
      BY DEF An
    <3> HIDE DEF m
    <3>4. \A i \in 1..n : i \in 1..(n + 1)
      BY <1>0
    <3>5. n + 1 \in 1..(n + 1)
      BY <1>0
    <3>q. QED
      BY <1>0, <3>1, <3>2, <3>3, <3>4, <3>5
  <2> HIDE DEF m
  <2>2. ASSUME NEW i \in 1..Len(q)
        PROVE  Items(q)[i] = m[i]
    <3>1. CASE i \in 1..n
      BY <1>1, <1>4, <2>1, <3>1
    <3>2. CASE i = n + 1
      BY <1>2, <1>4, <2>1, <3>2
    <3>3. CASE i > n + 1
      <4> DEFINE j == i - n - 1
      <4>1. j \in 1..Len(w) /\ i = n + 1 + j
        BY <1>0, <3>3
      <4> HIDE DEF j
      <4>2. Items(q)[i] = Item(q, n + 1 + j) /\ m[i] = W[j]
        BY <1>4, <2>1, <4>1
      <4>q. QED
        BY <1>3, <1>4, <4>1, <4>2
    <3>q. QED
      BY <1>0, <3>1, <3>2, <3>3
  <2>3. Len(Items(q)) = Len(m) /\ \A i \in 1..Len(Items(q)) : Items(q)[i] = m[i]
    BY <1>4, <2>1, <2>2
  <2>q. QED
    BY <1>4, <2>1, <2>3, SeqEqual, Zenon
<1>8. FlattenSeq(m) = Cat(Cat(FlattenSeq(A), FlattenSeq(none)), FlattenSeq(W))
  <2> USE DEF P
  <2>1. FlattenSeq(Cat(Cat(A, none), W)) = Cat(FlattenSeq(Cat(A, none)), FlattenSeq(W))
    BY <1>4, <1>6, FlattenConcat
  <2>2. FlattenSeq(Cat(A, none)) = Cat(FlattenSeq(A), FlattenSeq(none))
    BY <1>4, <1>5, FlattenConcat
  <2>q. QED
    BY <2>1, <2>2
<1>9. FlattenSeq(none) = <<>> /\ Cat(FlattenSeq(A), <<>>) = FlattenSeq(A)
  BY <1>4, <1>5, FlattenNone, FlattenType, CatType DEF P
<1>10. Split(q) = FlattenSeq(m) /\ Split(a) = FlattenSeq(A) /\ Split(w) = FlattenSeq(W)
  BY <1>7, SplitIs DEF A, W
<1>q. QED
  BY <1>8, <1>9, <1>10, Zenon DEF q

(* A parameter is read back from its text.                                  *)
LEMMA TextOfParam ==
  ASSUME NEW S, "=" \in S, NEW p \in ParamOver(S)
  PROVE  /\ Text(p) \in Seq(S \ {"#", "&"}) /\ Text(p) # <<>>
         /\ Pair(Text(p)) = p
<1>1. /\ p.key \in Seq(S \ {"#", "&", "="}) /\ p.value \in Seq(S \ {"#", "&"})
      /\ p = [key |-> p.key, value |-> p.value]
  BY DEF ParamOver
<1> DEFINE k == p.key
           v == p.value
           b == <<"=">> \o v
<1>2. k \in Seq((S \ {"#", "&"}) \ {"="}) /\ k \in Seq(S \ {"#", "&"})
  <2>1. S \ {"#", "&", "="} = (S \ {"#", "&"}) \ {"="}
    OBVIOUS
  <2>2. k \in Seq((S \ {"#", "&"}) \ {"="})
    BY <1>1, <2>1
  <2> HIDE DEF k
  <2>q. QED
    BY <2>2
<1>3. v \in Seq(S \ {"#", "&"})
  BY <1>1
<1> HIDE DEF k, v
<1>4. b \in Seq(S \ {"#", "&"}) /\ b # <<>> /\ b[1] = "=" /\ Tail(b) = v
  BY <1>3
<1>5. Text(p) = k \o b
  <2>1. Text(p) = (k \o <<"=">>) \o v
    BY Zenon DEF Text, k, v
  <2>2. (k \o <<"=">>) \o v = k \o b
    BY <1>2, <1>3
  <2>q. QED
    BY <2>1, <2>2, Zenon
<1> HIDE DEF b
<1>6. Text(p) \in Seq(S \ {"#", "&"}) /\ Text(p) # <<>>
  BY <1>2, <1>4, <1>5
<1>7. Before(k \o b, "=") = k /\ After(k \o b, "=") = v
  <2> DEFINE U == S \ {"#", "&"}
  <2>1. k \in Seq(U \ {"="}) /\ b \in Seq(U) /\ (b = <<>> \/ b[1] = "=")
    BY <1>2, <1>4
  <2> HIDE DEF U
  <2>2. Before(Cat(k, b), "=") = k /\ After(Cat(k, b), "=") = Rest(b)
    BY <2>1, BeforeOfCat
  <2>q. QED
    BY <1>4, <2>2, Zenon DEF Cat, Rest
<1>8. Pair(Text(p)) = [key |-> k, value |-> v]
  BY <1>5, <1>7 DEF Pair
<1>q. QED
  BY <1>1, <1>6, <1>8 DEF k, v

(* A query is a word per parameter: a mark and the parameter's text.        *)
Word(ps, i) == <<IF i = 1 THEN "?" ELSE "&">> \o Text(ps[i])

LEMMA WordType ==
  ASSUME NEW S, {"?", "&", "="} \subseteq S, NEW ps \in Seq(ParamOver(S)), NEW i \in 1..Len(ps)
  PROVE  Word(ps, i) \in Seq(S \ {"#"})
<1>1. Text(ps[i]) \in Seq(S \ {"#", "&"})
  BY TextOfParam
<1>2. Text(ps[i]) \in Seq(S \ {"#"}) /\ <<IF i = 1 THEN "?" ELSE "&">> \in Seq(S \ {"#"})
  BY <1>1
<1>q. QED
  BY <1>2 DEF Word

QueryWords(ps) == [i \in DOMAIN ps |-> Word(ps, i)]

LEMMA WordsType ==
  ASSUME NEW S, {"?", "&", "="} \subseteq S, NEW ps \in Seq(ParamOver(S))
  PROVE  /\ QueryWords(ps) \in Seq(Seq(S \ {"#"})) /\ Len(QueryWords(ps)) = Len(ps)
         /\ \A i \in 1..Len(ps) : QueryWords(ps)[i] = Word(ps, i)
<1>1. QueryWords(ps) = [i \in 1..Len(ps) |-> Word(ps, i)] /\ Len(ps) \in Nat
  BY DEF QueryWords
<1>q. QED
  BY <1>1, WordType

LEMMA QueryAppend ==
  ASSUME NEW S, {"?", "&", "="} \subseteq S, NEW ps \in Seq(ParamOver(S)), NEW p \in ParamOver(S)
  PROVE  /\ Query(ps) \in Seq(S \ {"#"})
         /\ Query(Append(ps, p)) =
              Cat(Query(ps), Cat(<<IF ps = <<>> THEN "?" ELSE "&">>, Text(p)))
<1> DEFINE e == Append(ps, p)
           n == Len(ps)
           w == Cat(<<IF ps = <<>> THEN "?" ELSE "&">>, Text(p))
<1>1. /\ e \in Seq(ParamOver(S)) /\ n \in Nat /\ Len(e) = n + 1 /\ e[n + 1] = p
      /\ (\A i \in 1..n : e[i] = ps[i]) /\ (n = 0 <=> ps = <<>>)
  BY AppendProperties, EmptySeq
<1> HIDE DEF e
<1>2. Word(e, n + 1) = w
  <2>1. n + 1 = 1 <=> ps = <<>>
    BY <1>1
  <2>q. QED
    BY <1>1, <2>1 DEF Word, Cat
<1>3. \A i \in 1..n : Word(e, i) = Word(ps, i)
  BY <1>1 DEF Word
<1>4. /\ QueryWords(e) \in Seq(Seq(S \ {"#"})) /\ Len(QueryWords(e)) = n + 1
      /\ \A i \in 1..(n + 1) : QueryWords(e)[i] = Word(e, i)
  BY <1>1, WordsType
<1>5. /\ QueryWords(ps) \in Seq(Seq(S \ {"#"})) /\ Len(QueryWords(ps)) = n
      /\ \A i \in 1..n : QueryWords(ps)[i] = Word(ps, i)
  BY WordsType
<1>6. w \in Seq(S \ {"#"})
  BY <1>1, <1>2, WordType
<1> HIDE DEF w
<1>7. QueryWords(e) = Append(QueryWords(ps), w)
  <2> DEFINE b == Append(QueryWords(ps), w)
  <2>1. /\ b \in Seq(Seq(S \ {"#"})) /\ Len(b) = n + 1 /\ b[n + 1] = w
        /\ \A i \in 1..n : b[i] = QueryWords(ps)[i]
    BY <1>5, <1>6
  <2> HIDE DEF b
  <2>2. ASSUME NEW i \in 1..(n + 1)
        PROVE  QueryWords(e)[i] = b[i]
    <3>1. CASE i = n + 1
      BY <1>1, <1>2, <1>4, <2>1, <3>1
    <3>2. CASE i # n + 1
      <4>1. i \in 1..n
        BY <1>1, <3>2
      <4>q. QED
        BY <1>3, <1>4, <1>5, <2>1, <4>1
    <3>q. QED
      BY <3>1, <3>2
  <2>3. Len(QueryWords(e)) = Len(b) /\ \A i \in 1..Len(QueryWords(e)) : QueryWords(e)[i] = b[i]
    BY <1>4, <2>1, <2>2
  <2>4. QueryWords(e) = b
    BY <1>4, <2>1, <2>3, SeqEqual, Zenon
  <2>q. QED
    BY <2>4 DEF b
<1>8. FlattenSeq(Append(QueryWords(ps), w)) = Cat(FlattenSeq(QueryWords(ps)), w)
  BY <1>5, <1>6, FlattenAppend
<1>9. Query(ps) = FlattenSeq(QueryWords(ps)) /\ Query(e) = FlattenSeq(QueryWords(e))
  BY DEF Query, QueryWords, Word
<1>10. Query(ps) \in Seq(S \ {"#"})
  BY <1>5, <1>9, FlattenType
<1>q. QED
  BY <1>7, <1>8, <1>9, <1>10 DEF e, w

LEMMA QueryEmpty ==
  Query(<<>>) = <<>>
<1>1. QueryWords(<<>>) = <<>>
  BY DEF QueryWords
<1>2. Query(<<>>) = FlattenSeq(QueryWords(<<>>))
  BY DEF Query, QueryWords, Word
<1>q. QED
  BY <1>1, <1>2, FlattenEmpty, Zenon

LEMMA QueryType ==
  ASSUME NEW S, {"?", "&", "="} \subseteq S, NEW ps \in Seq(ParamOver(S))
  PROVE  Query(ps) \in Seq(S \ {"#"})
<1>1. Query(ps) = FlattenSeq(QueryWords(ps))
  BY DEF Query, QueryWords, Word
<1>q. QED
  BY <1>1, WordsType, FlattenType

LEMMA TailOfCat ==
  ASSUME NEW S, NEW a \in Seq(S), NEW b \in Seq(S), a # <<>>
  PROVE  Cat(a, b) # <<>> /\ Cat(a, b)[1] = a[1] /\ Tail(Cat(a, b)) = Cat(Tail(a), b)
  BY DEF Cat

(* The parameters read from a query are those it was made of.               *)
LEMMA QueryRound ==
  ASSUME NEW S, {"?", "&", "="} \subseteq S, NEW ps \in Seq(ParamOver(S)), ps # <<>>
  PROVE  Query(ps) # <<>> /\ Query(ps)[1] = "?" /\ Split(Tail(Query(ps))) = ps
<1> DEFINE Round(rs) == Query(rs) # <<>> /\ Query(rs)[1] = "?" /\ Split(Tail(Query(rs))) = rs
           T == {rs \in Seq(ParamOver(S)) : rs # <<>> => Round(rs)}
<1>1. <<>> \in T
  BY EmptySeq
<1>2. ASSUME NEW rs \in Seq(ParamOver(S)), NEW p \in ParamOver(S), rs \in T
      PROVE  Append(rs, p) \in T
  <2> DEFINE t == Text(p)
             q == Query(rs)
             e == Append(rs, p)
  <2>1. t \in Seq(S \ {"#", "&"}) /\ t \in Seq(S \ {"#"}) /\ t # <<>> /\ Pair(t) = p
    <3>1. t \in Seq(S \ {"#", "&"}) /\ t # <<>> /\ Pair(t) = p
      BY TextOfParam
    <3> HIDE DEF t
    <3>q. QED
      BY <3>1
  <2>2. Split(t) = <<p>>
    <3> HIDE DEF t
    <3>1. Split(t) = <<Pair(t)>>
      BY <2>1, SplitWhole
    <3>q. QED
      BY <2>1, <3>1, Zenon
  <2>3. q \in Seq(S \ {"#"}) /\ Query(e) = Cat(q, Cat(<<IF rs = <<>> THEN "?" ELSE "&">>, t))
    BY QueryAppend
  <2>4. e \in Seq(ParamOver(S)) /\ e = Cat(rs, <<p>>) /\ e # <<>>
    BY AppendIsConcat DEF Cat
  <2> HIDE DEF t, q, e
  <2>5. CASE rs = <<>>
    <3> DEFINE b == Cat(<<"?">>, t)
    <3>1. b \in Seq(S \ {"#"}) /\ b # <<>> /\ b[1] = "?" /\ Tail(b) = t
      BY <2>1 DEF Cat
    <3>2. Query(e) = Cat(q, b) /\ q = <<>>
      BY <2>3, <2>5, QueryEmpty DEF q
    <3> HIDE DEF b
    <3>3. Query(e) = b
      BY <3>1, <3>2, CatType
    <3>4. Cat(rs, <<p>>) = <<p>>
      BY <2>5 DEF Cat
    <3>5. Split(Tail(Query(e))) = e
      BY <2>2, <2>4, <3>1, <3>3, <3>4, Zenon
    <3>q. QED
      BY <2>4, <3>1, <3>3, <3>5 DEF e
  <2>6. CASE rs # <<>>
    <3>1. q # <<>> /\ q[1] = "?" /\ Split(Tail(q)) = rs
      BY <1>2, <2>6 DEF q
    <3>2. Query(e) = Cat(q, Cat(<<"&">>, t))
      BY <2>3, <2>6
    <3> DEFINE r == Tail(q)
    <3>3. r \in Seq(S \ {"#"})
      BY <2>3, <3>1
    <3> DEFINE b == Cat(<<"&">>, t)
    <3>b. b \in Seq(S \ {"#"})
      BY <2>1 DEF Cat
    <3>a. Cat(r, b) = r \o <<"&">> \o t
      <4> HIDE DEF r
      <4>q. QED
        <5>1. Cat(Cat(r, <<"&">>), t) = Cat(r, Cat(<<"&">>, t))
          <6> DEFINE m == <<"&">>
                     U == S \ {"#"}
          <6>1. r \in Seq(U) /\ m \in Seq(U) /\ t \in Seq(U)
            BY <2>1, <3>3
          <6> HIDE DEF m, U
          <6>2. Cat(Cat(r, m), t) = Cat(r, Cat(m, t))
            BY <6>1, CatAssociative
          <6>q. QED
            BY <6>2, Zenon DEF m
        <5>q. QED
          BY <5>1, Zenon DEF Cat
    <3> HIDE DEF b
    <3>4. Query(e) # <<>> /\ Query(e)[1] = "?" /\ Tail(Query(e)) = Cat(r, b)
      <4>1. Cat(q, b) # <<>> /\ Cat(q, b)[1] = q[1] /\ Tail(Cat(q, b)) = Cat(Tail(q), b)
        BY <2>3, <3>1, <3>b, TailOfCat
      <4>2. Query(e) = Cat(q, b)
        BY <3>2 DEF b
      <4>q. QED
        BY <3>1, <4>1, <4>2
    <3> HIDE DEF r
    <3>5. Split(r \o <<"&">> \o t) = Cat(Split(r), Split(t))
      BY <2>1, <3>3, SplitConcat
    <3>6. Split(r) = rs
      BY <3>1 DEF r
    <3>7. Split(Tail(Query(e))) = e
      BY <2>2, <2>4, <3>4, <3>5, <3>6, <3>a, Zenon
    <3>q. QED
      BY <2>4, <3>4, <3>7 DEF e
  <2>q. QED
    BY <2>5, <2>6
<1>3. \A rs \in Seq(ParamOver(S)) : rs \in T
  <2> HIDE DEF T
  <2>q. QED
    BY <1>1, <1>2, InductionOverSeq
<1>q. QED
  BY <1>3

-----------------------------------------------------------------------------
(* What an address is taken apart into, and that what is put together from  *)
(* such parts is taken apart into them again.                               *)
LEMMA SplitEmpty ==
  Split(<<>>) = <<>>
<1>1. Items(<<>>) = <<>>
  BY DEF Items
<1>q. QED
  BY <1>1, SplitIs, FlattenEmpty, Zenon

(* A fragment is empty or begins with its mark.                             *)
Ends(f) == f = <<>> \/ f[1] = "#"

LEMMA UrlParts ==
  ASSUME NEW S, NEW url \in Seq(S)
  PROVE  /\ Base(url) \in Seq(S \ {"#", "?"})
         /\ Fragment(url) \in Seq(S) /\ Ends(Fragment(url))
         /\ Params(url) \in Seq(ParamOver(S))
<1>1. Before(url, "#") \in Seq(S \ {"#"}) /\ Fragment(url) \in Seq(S)
  BY BeforeType
<1>2. Base(url) \in Seq((S \ {"#"}) \ {"?"}) /\ After(Before(url, "#"), "?") \in Seq(S \ {"#"})
  BY <1>1, BeforeType DEF Base
<1>3. (S \ {"#"}) \ {"?"} = S \ {"#", "?"}
  OBVIOUS
<1>4. Params(url) \in Seq(ParamOver(S))
  BY <1>2, SplitType DEF Params
<1>5. Ends(Fragment(url))
  <2>1. PICK n \in 0..Len(url) : (\A i \in 1..n : url[i] # "#") /\ (n < Len(url) => url[n + 1] = "#")
    BY BeforeEnds
  <2>2. Before(url, "#") = SubSeq(url, 1, n) /\ Len(SubSeq(url, 1, n)) = n
    BY <2>1, BeforeIs
  <2>3. Fragment(url) = SubSeq(url, n + 1, Len(url))
    BY <2>2 DEF Fragment
  <2> DEFINE f == SubSeq(url, n + 1, Len(url))
  <2>4. f = <<>> \/ f[1] = "#"
    BY <2>1
  <2>q. QED
    BY <2>3, <2>4 DEF Ends
<1>q. QED
  BY <1>1, <1>2, <1>3, <1>4, <1>5

(* An address put together from a base, a list of parameters and a fragment *)
(* is taken apart into them: what inject_utm_params writes, it can read.    *)
THEOREM AddressesRoundTrip ==
  ASSUME NEW S, {"?", "&", "="} \subseteq S, NEW B \in Seq(S \ {"#", "?"}),
         NEW ps \in Seq(ParamOver(S)), NEW F \in Seq(S), Ends(F)
  PROVE  LET url == B \o Query(ps) \o F
         IN  url \in Seq(S) /\ Base(url) = B /\ Fragment(url) = F /\ Params(url) = ps
<1> DEFINE Q == Query(ps)
           U == S \ {"#"}
           mark == "?"
           BQ == Cat(B, Q)
           url == Cat(BQ, F)
<1>1. Q \in Seq(U) /\ (Q = <<>> \/ Q[1] = "?") /\ Split(Rest(Q)) = ps
  <2>1. Q \in Seq(U)
    BY QueryType
  <2>2. CASE ps = <<>>
    BY <2>1, <2>2, QueryEmpty, SplitEmpty DEF Rest
  <2>3. CASE ps # <<>>
    BY <2>1, <2>3, QueryRound DEF Rest
  <2>q. QED
    BY <2>2, <2>3
<1>2. B \in Seq(U \ {"?"}) /\ B \in Seq(U)
  <2>1. S \ {"#", "?"} = U \ {"?"}
    OBVIOUS
  <2>2. B \in Seq(U \ {"?"})
    BY <2>1
  <2>q. QED
    BY <2>2
<1> HIDE DEF Q
<1>3. BQ \in Seq(U) /\ BQ \in Seq(S) /\ url \in Seq(S)
  <2>1. BQ \in Seq(U)
    BY <1>1, <1>2, CatType
  <2> HIDE DEF BQ
  <2>2. BQ \in Seq(S)
    BY <2>1
  <2>3. url \in Seq(S)
    BY <2>2, CatIn, Zenon
  <2>q. QED
    BY <2>1, <2>2, <2>3, Zenon
<1>4. Before(BQ, "?") = B /\ After(BQ, "?") = Rest(Q)
  <2>1. B \in Seq(U \ {"?"}) /\ Q \in Seq(U) /\ (Q = <<>> \/ Q[1] = "?")
    BY <1>1, <1>2
  <2>2. B \in Seq(U \ {mark}) /\ Q \in Seq(U) /\ (Q = <<>> \/ Q[1] = mark)
    BY <2>1
  <2> HIDE DEF U, mark
  <2>3. Before(Cat(B, Q), mark) = B /\ After(Cat(B, Q), mark) = Rest(Q)
    BY <2>2, BeforeOfCat, SMTT(30)
  <2>q. QED
    BY <2>3, Zenon DEF mark
<1> HIDE DEF BQ
<1>5. Before(url, "#") = BQ /\ From(url, "#") = F
  <2>1. BQ \in Seq(S \ {"#"}) /\ F \in Seq(S) /\ (F = <<>> \/ F[1] = "#")
    BY <1>3 DEF Ends
  <2>q. QED
    BY <2>1, BeforeOfCat, SMTT(30)
<1> HIDE DEF url
<1>6. Base(url) = B /\ Fragment(url) = F /\ Params(url) = ps
  <2>1. Base(url) = Before(BQ, "?") /\ Params(url) = Split(After(BQ, "?"))
    BY <1>5, Zenon DEF Base, Params
  <2>2. Fragment(url) = From(url, "#")
    BY DEF Fragment, From
  <2>q. QED
    BY <1>1, <1>4, <1>5, <2>1, <2>2, Zenon
<1>7. url = B \o Query(ps) \o F
  BY Zenon DEF url, BQ, Q, Cat
<1>q. QED
  BY <1>3, <1>6, <1>7, Zenon

-----------------------------------------------------------------------------
(* The parameters a redirect keeps.                                         *)
Single(p) == IF IsUtm(p.key) THEN <<>> ELSE <<p>>

Singles(ps) == [i \in DOMAIN ps |-> Single(ps[i])]

(* The parameters that are not utm parameters, and those that are.          *)
Foreign(S) == {p \in S : ~IsUtm(p.key)}

Attributed(S) == {p \in S : IsUtm(p.key)}

LEMMA SinglesType ==
  ASSUME NEW S, NEW ps \in Seq(S)
  PROVE  /\ Others(ps) = FlattenSeq(Singles(ps))
         /\ Singles(ps) \in Seq(Seq(Foreign(S))) /\ Len(Singles(ps)) = Len(ps)
         /\ \A i \in 1..Len(ps) : Singles(ps)[i] = Single(ps[i])
<1>1. Others(ps) = FlattenSeq(Singles(ps))
  BY DEF Others, Singles, Single
<1>2. Singles(ps) = [i \in 1..Len(ps) |-> Single(ps[i])] /\ Len(ps) \in Nat
  BY DEF Singles
<1>3. ASSUME NEW i \in 1..Len(ps)
      PROVE  Single(ps[i]) \in Seq(Foreign(S))
  <2>1. CASE IsUtm(ps[i].key)
    BY <2>1, EmptySeq DEF Single
  <2>2. CASE ~IsUtm(ps[i].key)
    <3>1. ps[i] \in Foreign(S)
      BY <2>2 DEF Foreign
    <3>2. Single(ps[i]) = <<ps[i]>>
      BY <2>2 DEF Single
    <3>q. QED
      BY <3>1, <3>2
  <2>q. QED
    BY <2>1, <2>2
<1>q. QED
  BY <1>1, <1>2, <1>3

LEMMA OthersType ==
  ASSUME NEW S, NEW ps \in Seq(S)
  PROVE  Others(ps) \in Seq(Foreign(S))
  BY SinglesType, FlattenType

LEMMA OthersOfForeign ==
  ASSUME NEW S, NEW ps \in Seq(Foreign(S))
  PROVE  Others(ps) = ps
<1>1. \A i \in DOMAIN ps : Single(ps[i]) = <<ps[i]>>
  BY DEF Single, Foreign
<1>2. Singles(ps) = [i \in DOMAIN ps |-> <<ps[i]>>]
  BY <1>1, Zenon DEF Singles
<1>3. FlattenSeq([i \in DOMAIN ps |-> <<ps[i]>>]) = ps
  BY FlattenSingles
<1>q. QED
  BY <1>2, <1>3, Zenon DEF Others, Singles, Single

LEMMA OthersOfOwn ==
  ASSUME NEW S, NEW ps \in Seq(Attributed(S))
  PROVE  Others(ps) = <<>>
<1>1. \A i \in 1..Len(ps) : Single(ps[i]) = <<>>
  BY DEF Single, Attributed
<1>2. Singles(ps) \in Seq({<<>>})
  <2>1. Singles(ps) = [i \in 1..Len(ps) |-> Single(ps[i])] /\ Len(ps) \in Nat
    BY DEF Singles
  <2>q. QED
    BY <1>1, <2>1
<1>q. QED
  BY <1>2, FlattenNone, Zenon DEF Others, Singles, Single

LEMMA OthersOfCat ==
  ASSUME NEW S, NEW a \in Seq(S), NEW b \in Seq(S)
  PROVE  Others(Cat(a, b)) = Cat(Others(a), Others(b))
<1> DEFINE c == Cat(a, b)
           P == Seq(Foreign(S))
           m == Cat(Singles(a), Singles(b))
<1>1. /\ c \in Seq(S) /\ Len(c) = Len(a) + Len(b) /\ Len(a) \in Nat /\ Len(b) \in Nat
      /\ \A i \in 1..Len(a) : c[i] = a[i]
      /\ \A k \in 1..Len(b) : c[Len(a) + k] = b[k]
  <2>1. c \in Seq(S)
    BY CatType
  <2>2. /\ Len(c) = Len(a) + Len(b)
        /\ \A i \in 1..Len(a) : c[i] = a[i]
        /\ \A k \in 1..Len(b) : c[Len(a) + k] = b[k]
    BY CatAt
  <2> HIDE DEF c
  <2>q. QED
    BY <2>1, <2>2
<1> HIDE DEF c
<1>2. /\ Singles(c) \in Seq(P) /\ Len(Singles(c)) = Len(c)
      /\ \A i \in 1..Len(c) : Singles(c)[i] = Single(c[i])
  BY <1>1, SinglesType
<1>3. /\ Singles(a) \in Seq(P) /\ Len(Singles(a)) = Len(a)
      /\ \A i \in 1..Len(a) : Singles(a)[i] = Single(a[i])
  BY SinglesType
<1>4. /\ Singles(b) \in Seq(P) /\ Len(Singles(b)) = Len(b)
      /\ \A i \in 1..Len(b) : Singles(b)[i] = Single(b[i])
  BY SinglesType
<1> HIDE DEF P
<1>5. /\ m \in Seq(P) /\ Len(m) = Len(a) + Len(b)
      /\ \A i \in 1..Len(a) : m[i] = Single(a[i])
      /\ \A k \in 1..Len(b) : m[Len(a) + k] = Single(b[k])
  <2>1. Singles(a) \in Seq(P) /\ Singles(b) \in Seq(P)
    BY <1>3, <1>4
  <2>2. m \in Seq(P)
    BY <2>1, CatType
  <2>3. /\ Len(m) = Len(Singles(a)) + Len(Singles(b))
        /\ \A i \in 1..Len(Singles(a)) : m[i] = Singles(a)[i]
        /\ \A k \in 1..Len(Singles(b)) : m[Len(Singles(a)) + k] = Singles(b)[k]
    BY <2>1, CatAt
  <2> HIDE DEF m
  <2>q. QED
    BY <1>3, <1>4, <2>2, <2>3
<1> HIDE DEF m
<1>6. ASSUME NEW i \in 1..Len(c)
      PROVE  Singles(c)[i] = m[i]
  <2>1. CASE i \in 1..Len(a)
    BY <1>1, <1>2, <1>5, <2>1
  <2>2. CASE i > Len(a)
    <3> DEFINE k == i - Len(a)
    <3>1. k \in 1..Len(b) /\ i = Len(a) + k
      BY <1>1, <2>2
    <3> HIDE DEF k
    <3>q. QED
      BY <1>1, <1>2, <1>5, <3>1
  <2>q. QED
    BY <1>1, <2>1, <2>2
<1>7. Singles(c) = m
  <2>1. Len(Singles(c)) = Len(m) /\ \A i \in 1..Len(Singles(c)) : Singles(c)[i] = m[i]
    BY <1>1, <1>2, <1>5, <1>6
  <2>q. QED
    BY <1>2, <1>5, <2>1, SeqEqual, Zenon
<1>8. FlattenSeq(Cat(Singles(a), Singles(b))) = Cat(FlattenSeq(Singles(a)), FlattenSeq(Singles(b)))
  BY <1>3, <1>4, FlattenConcat DEF P
<1>9. /\ Others(c) = FlattenSeq(Singles(c)) /\ Others(a) = FlattenSeq(Singles(a))
      /\ Others(b) = FlattenSeq(Singles(b))
  BY <1>1, SinglesType
<1>q. QED
  BY <1>7, <1>8, <1>9, Zenon DEF m, c

-----------------------------------------------------------------------------
(* The names of masters, and how they are coded.                            *)
Tokens ==
  Words \cup DOMAIN Percent \cup Range(Percent) \cup Range(UtmKeys)
    \cup {"https://host", "UTM_SOURCE"}

LEMMA PercentCodes ==
  /\ DOMAIN Percent = {"#", "?", "&", "="}
  /\ Range(Percent) = {"%23", "%3F", "%26", "%3D"}
  /\ \A x, y \in DOMAIN Percent : Percent[x] = Percent[y] => x = y
  /\ \A x \in DOMAIN Percent : Percent[x] \in Range(Percent)
<1>1. DOMAIN Percent = {"#", "?", "&", "="}
  BY DEF Percent
<1>2. Percent["#"] = "%23" /\ Percent["?"] = "%3F" /\ Percent["&"] = "%26" /\ Percent["="] = "%3D"
  BY DEF Percent
<1>3. Range(Percent) = {Percent[x] : x \in {"#", "?", "&", "="}}
  BY <1>1 DEF Range
<1>4. Range(Percent) = {"%23", "%3F", "%26", "%3D"}
  BY <1>2, <1>3
<1>5. ASSUME NEW x \in DOMAIN Percent, NEW y \in DOMAIN Percent, Percent[x] = Percent[y]
      PROVE  x = y
  BY <1>1, <1>2, <1>5
<1>6. ASSUME NEW x \in DOMAIN Percent
      PROVE  Percent[x] \in Range(Percent)
  BY DEF Range
<1>q. QED
  BY <1>1, <1>4, <1>5, <1>6

LEMMA UtmKeysAre ==
  /\ DOMAIN UtmKeys = 1..3
  /\ Range(UtmKeys) = {"utm_campaign", "utm_source", "utm_medium"}
  /\ \A k \in Range(UtmKeys) : IsUtm(<<k>>)
<1>1. DOMAIN UtmKeys = 1..3
  BY DEF UtmKeys
<1>2. UtmKeys[1] = "utm_campaign" /\ UtmKeys[2] = "utm_source" /\ UtmKeys[3] = "utm_medium"
  BY DEF UtmKeys
<1>3. Range(UtmKeys) = {UtmKeys[i] : i \in 1..3}
  BY <1>1 DEF Range
<1>4. Range(UtmKeys) = {"utm_campaign", "utm_source", "utm_medium"}
  BY <1>2, <1>3
<1>5. \A k \in Range(UtmKeys) : IsUtm(<<k>>)
  BY DEF IsUtm
<1>q. QED
  BY <1>1, <1>4, <1>5

(* What is coded holds no mark of a query, and is read as it was.           *)
LEMMA CodedName ==
  ASSUME NEW name \in MasterNames
  PROVE  Encoded(name) \in Seq(Tokens \ {"#", "&"}) /\ Decoded(Encoded(name)) = name
<1> DEFINE e == Encoded(name)
<1>1. /\ name \in Seq(Words \cup DOMAIN Percent) /\ Words \cap Range(Percent) = {}
      /\ Len(name) \in Nat /\ \A i \in 1..Len(name) : name[i] \in Words \cup DOMAIN Percent
  BY RedirectAssumption
<1>2. /\ e = [i \in 1..Len(name) |-> IF name[i] \in DOMAIN Percent THEN Percent[name[i]] ELSE name[i]]
      /\ DOMAIN e = 1..Len(name)
  BY <1>1 DEF Encoded
<1> HIDE DEF e
<1>3. ASSUME NEW i \in 1..Len(name)
      PROVE  /\ e[i] \in Tokens \ {"#", "&"}
             /\ (IF e[i] \in Range(Percent)
                 THEN CHOOSE x \in DOMAIN Percent : Percent[x] = e[i] ELSE e[i]) = name[i]
  <2>1. CASE name[i] \in DOMAIN Percent
    <3>1. e[i] = Percent[name[i]] /\ e[i] \in Range(Percent)
      BY <1>2, <2>1, PercentCodes
    <3>2. \A x \in DOMAIN Percent : Percent[x] = e[i] => x = name[i]
      BY <2>1, <3>1, PercentCodes
    <3>3. (CHOOSE x \in DOMAIN Percent : Percent[x] = e[i]) = name[i]
      BY <2>1, <3>1, <3>2
    <3>4. e[i] \in Tokens \ {"#", "&"}
      BY <3>1, PercentCodes DEF Tokens
    <3>q. QED
      BY <3>1, <3>3, <3>4
  <2>2. CASE name[i] \notin DOMAIN Percent
    <3>1. e[i] = name[i] /\ e[i] \in Words
      BY <1>1, <1>2, <2>2
    <3>2. e[i] \notin Range(Percent)
      BY <1>1, <3>1
    <3>3. e[i] \in Tokens \ {"#", "&"}
      BY <2>2, <3>1, PercentCodes DEF Tokens
    <3>q. QED
      BY <3>1, <3>2, <3>3
  <2>q. QED
    BY <2>1, <2>2
<1>4. e \in Seq(Tokens \ {"#", "&"})
  BY <1>1, <1>2, <1>3
<1>5. Decoded(e) = name
  <2>1. Decoded(e) = [i \in 1..Len(name) |-> IF e[i] \in Range(Percent)
                        THEN CHOOSE x \in DOMAIN Percent : Percent[x] = e[i] ELSE e[i]]
    BY <1>2, Zenon DEF Decoded
  <2>2. Decoded(e) = [i \in 1..Len(name) |-> name[i]]
    BY <1>3, <2>1, Zenon
  <2>3. name = [i \in 1..Len(name) |-> name[i]]
    BY <1>1
  <2>q. QED
    BY <2>2, <2>3, Zenon
<1>q. QED
  BY <1>4, <1>5 DEF e

(* A parameter a tracker adds.                                              *)
Attribution == [key : {<<k>> : k \in Range(UtmKeys)}, value : MasterNames]

LEMMA AddedType ==
  ASSUME NEW masters \in Attributions
  PROVE  Added(masters) \in Seq(Attribution)
<1> DEFINE One(i) == IF masters[UtmKeys[i]] = NoName THEN <<>>
                     ELSE <<[key |-> <<UtmKeys[i]>>, value |-> masters[UtmKeys[i]]]>>
           ones == [i \in DOMAIN UtmKeys |-> One(i)]
<1>1. ASSUME NEW i \in 1..3
      PROVE  One(i) \in Seq(Attribution)
  <2>1. UtmKeys[i] \in Range(UtmKeys)
    BY UtmKeysAre DEF Range
  <2>2. masters[UtmKeys[i]] \in MasterNames \cup {NoName}
    BY <2>1 DEF Attributions
  <2>3. CASE masters[UtmKeys[i]] = NoName
    BY <2>3, EmptySeq
  <2>4. CASE masters[UtmKeys[i]] # NoName
    <3>1. [key |-> <<UtmKeys[i]>>, value |-> masters[UtmKeys[i]]] \in Attribution
      BY <2>1, <2>2, <2>4 DEF Attribution
    <3>2. One(i) = <<[key |-> <<UtmKeys[i]>>, value |-> masters[UtmKeys[i]]]>>
      BY <2>4
    <3> HIDE DEF One
    <3>q. QED
      BY <3>1, <3>2
  <2>q. QED
    BY <2>3, <2>4
<1> HIDE DEF One
<1>2. ones \in Seq(Seq(Attribution))
  <2>1. ones = [i \in 1..3 |-> One(i)]
    BY UtmKeysAre
  <2>q. QED
    BY <1>1, <2>1
<1>3. Added(masters) = FlattenSeq(ones)
  BY DEF Added, One
<1>q. QED
  BY <1>2, <1>3, FlattenType

(* What the parameters say, decoded.                                        *)
Said(p) == [p EXCEPT !.value = Decoded(@)]

Sayings(S) == {Said(p) : p \in S}

LEMMA PlainType ==
  ASSUME NEW S, NEW ps \in Seq(S)
  PROVE  /\ Plain(ps) \in Seq(Sayings(S)) /\ Len(Plain(ps)) = Len(ps)
         /\ \A i \in 1..Len(ps) : Plain(ps)[i] = Said(ps[i])
<1>1. Plain(ps) = [i \in 1..Len(ps) |-> Said(ps[i])] /\ Len(ps) \in Nat
  BY DEF Plain, Said
<1>2. \A i \in 1..Len(ps) : Said(ps[i]) \in Sayings(S)
  BY DEF Sayings
<1>q. QED
  BY <1>1, <1>2

LEMMA PlainOfCat ==
  ASSUME NEW S, NEW a \in Seq(S), NEW b \in Seq(S)
  PROVE  Plain(Cat(a, b)) = Cat(Plain(a), Plain(b))
<1> DEFINE c == Cat(a, b)
           P == Sayings(S)
           m == Cat(Plain(a), Plain(b))
<1>1. /\ c \in Seq(S) /\ Len(c) = Len(a) + Len(b) /\ Len(a) \in Nat /\ Len(b) \in Nat
      /\ \A i \in 1..Len(a) : c[i] = a[i]
      /\ \A k \in 1..Len(b) : c[Len(a) + k] = b[k]
  <2>1. c \in Seq(S)
    BY CatType
  <2>2. /\ Len(c) = Len(a) + Len(b)
        /\ \A i \in 1..Len(a) : c[i] = a[i]
        /\ \A k \in 1..Len(b) : c[Len(a) + k] = b[k]
    BY CatAt
  <2> HIDE DEF c
  <2>q. QED
    BY <2>1, <2>2
<1> HIDE DEF c
<1>2. /\ Plain(c) \in Seq(P) /\ Len(Plain(c)) = Len(c)
      /\ \A i \in 1..Len(c) : Plain(c)[i] = Said(c[i])
  BY <1>1, PlainType
<1>3. /\ Plain(a) \in Seq(P) /\ Len(Plain(a)) = Len(a)
      /\ \A i \in 1..Len(a) : Plain(a)[i] = Said(a[i])
  BY PlainType
<1>4. /\ Plain(b) \in Seq(P) /\ Len(Plain(b)) = Len(b)
      /\ \A i \in 1..Len(b) : Plain(b)[i] = Said(b[i])
  BY PlainType
<1> HIDE DEF P
<1>5. /\ m \in Seq(P) /\ Len(m) = Len(a) + Len(b)
      /\ \A i \in 1..Len(a) : m[i] = Said(a[i])
      /\ \A k \in 1..Len(b) : m[Len(a) + k] = Said(b[k])
  <2>1. Plain(a) \in Seq(P) /\ Plain(b) \in Seq(P)
    BY <1>3, <1>4
  <2>2. m \in Seq(P)
    BY <2>1, CatType
  <2>3. /\ Len(m) = Len(Plain(a)) + Len(Plain(b))
        /\ \A i \in 1..Len(Plain(a)) : m[i] = Plain(a)[i]
        /\ \A k \in 1..Len(Plain(b)) : m[Len(Plain(a)) + k] = Plain(b)[k]
    BY <2>1, CatAt
  <2> HIDE DEF m
  <2>q. QED
    BY <1>3, <1>4, <2>2, <2>3
<1> HIDE DEF m
<1>6. ASSUME NEW i \in 1..Len(c)
      PROVE  Plain(c)[i] = m[i]
  <2>1. CASE i \in 1..Len(a)
    BY <1>1, <1>2, <1>5, <2>1
  <2>2. CASE i > Len(a)
    <3> DEFINE k == i - Len(a)
    <3>1. k \in 1..Len(b) /\ i = Len(a) + k
      BY <1>1, <2>2
    <3> HIDE DEF k
    <3>q. QED
      BY <1>1, <1>2, <1>5, <3>1
  <2>q. QED
    BY <1>1, <2>1, <2>2
<1>7. Len(Plain(c)) = Len(m) /\ \A i \in 1..Len(Plain(c)) : Plain(c)[i] = m[i]
  BY <1>1, <1>2, <1>5, <1>6
<1>8. Plain(c) = m
  BY <1>2, <1>5, <1>7, SeqEqual, Zenon
<1>q. QED
  BY <1>8 DEF c, m

(* The parameters as they are written into the address.                     *)
Coded(added) == [i \in DOMAIN added |-> [added[i] EXCEPT !.value = Encoded(@)]]

LEMMA CodedType ==
  ASSUME NEW added \in Seq(Attribution)
  PROVE  /\ Coded(added) \in Seq(Attributed(ParamOver(Tokens)))
         /\ Plain(Coded(added)) = added
<1> DEFINE c == Coded(added)
           V == [key : {<<k>> : k \in Range(UtmKeys)}, value : Seq(Tokens \ {"#", "&"})]
<1>1. /\ c = [i \in 1..Len(added) |-> [added[i] EXCEPT !.value = Encoded(@)]] /\ Len(added) \in Nat
  BY DEF Coded
<1>2. ASSUME NEW i \in 1..Len(added)
      PROVE  c[i] \in V /\ Said(c[i]) = added[i]
  <2>1. /\ added[i] \in Attribution /\ added[i].value \in MasterNames
        /\ added[i].key \in {<<k>> : k \in Range(UtmKeys)}
        /\ added[i] = [key |-> added[i].key, value |-> added[i].value]
    <3>1. ASSUME NEW r \in Attribution
          PROVE  /\ r.value \in MasterNames /\ r.key \in {<<k>> : k \in Range(UtmKeys)}
                 /\ r = [key |-> r.key, value |-> r.value]
      <4> DEFINE K == {<<k>> : k \in Range(UtmKeys)}
      <4>1. r \in [key : K, value : MasterNames]
        BY DEF Attribution
      <4> HIDE DEF K
      <4>2. r.value \in MasterNames /\ r.key \in K /\ r = [key |-> r.key, value |-> r.value]
        BY <4>1
      <4>q. QED
        BY <4>2 DEF K
    <3>2. added[i] \in Attribution
      OBVIOUS
    <3>q. QED
      BY <3>1, <3>2
  <2>2. c[i] = [key |-> added[i].key, value |-> Encoded(added[i].value)]
    BY <1>1, <2>1
  <2>3. Encoded(added[i].value) \in Seq(Tokens \ {"#", "&"}) /\ Decoded(Encoded(added[i].value)) = added[i].value
    BY <2>1, CodedName
  <2>4. c[i] \in V
    BY <2>1, <2>2, <2>3
  <2>5. Said(c[i]) = [key |-> added[i].key, value |-> Decoded(Encoded(added[i].value))]
    BY <2>2 DEF Said
  <2>q. QED
    BY <2>1, <2>3, <2>4, <2>5
<1>3. V \subseteq Attributed(ParamOver(Tokens))
  <2> SUFFICES ASSUME NEW p \in V
               PROVE  p \in Attributed(ParamOver(Tokens))
    OBVIOUS
  <2>1. PICK k \in Range(UtmKeys) : p.key = <<k>>
    OBVIOUS
  <2>2. k \in Tokens \ {"#", "&", "="} /\ IsUtm(<<k>>)
    BY UtmKeysAre DEF Tokens
  <2>3. p.key \in Seq(Tokens \ {"#", "&", "="})
    BY <2>1, <2>2
  <2>q. QED
    BY <2>1, <2>2, <2>3 DEF Attributed, ParamOver
<1> HIDE DEF c
<1>4. c \in Seq(V) /\ DOMAIN c = 1..Len(added)
  <2> HIDE DEF V
  <2>q. QED
    <3> DEFINE d(i) == [added[i] EXCEPT !.value = Encoded(@)]
    <3>1. c = [i \in 1..Len(added) |-> d(i)]
      BY <1>1
    <3> HIDE DEF d
    <3>q. QED
      BY <1>1, <1>2, <3>1
<1>5. c \in Seq(Attributed(ParamOver(Tokens)))
  <2> HIDE DEF V
  <2>q. QED
    BY <1>3, <1>4, SeqMonotonic
<1>6. Plain(c) = added
  <2>1. Plain(c) = [i \in 1..Len(added) |-> Said(c[i])]
    BY <1>4, Zenon DEF Plain, Said
  <2>2. Plain(c) = [i \in 1..Len(added) |-> added[i]]
    BY <1>2, <2>1, Zenon
  <2>3. added = [i \in 1..Len(added) |-> added[i]]
    OBVIOUS
  <2>q. QED
    BY <2>2, <2>3, Zenon
<1>q. QED
  BY <1>5, <1>6 DEF c

-----------------------------------------------------------------------------
(* TargetsAreKept.  What a redirect keeps is the same after any number of   *)
(* trackers; what it adds is of the last.                                   *)
RedirectTypes ==
  /\ link \in Seq(Tokens) /\ location \in Seq(Tokens)
  /\ names \in Attributions \cup {NoName}

RestIsKept ==
  /\ Base(location) = Base(link) /\ Fragment(location) = Fragment(link)
  /\ Kept(location) = Kept(link)

LastIsAdded ==
  names # NoName => Plain(Params(location)) = Cat(Plain(Kept(link)), Added(names))

RedirectInv == RedirectTypes /\ RestIsKept /\ LastIsAdded

LEMMA UrlsType == Urls \subseteq Seq(Tokens)
<1> DEFINE X == Words \cup DOMAIN Percent \cup {"utm_source", "UTM_SOURCE"}
<1> SUFFICES ASSUME NEW url \in Urls
             PROVE  url \in Seq(Tokens)
  OBVIOUS
<1>1. PICK page \in {<<"https://host">>, <<"https://host", "?">>}, tail \in BoundedSeq(X, MaxTokens) :
        url = page \o tail
  <2> DEFINE pages == {<<"https://host">>, <<"https://host", "?">>}
             tails == BoundedSeq(X, MaxTokens)
  <2>1. Urls = {Cat(page, tail) : page \in pages, tail \in tails}
    BY DEF Urls, Cat
  <2> HIDE DEF pages, tails
  <2>2. \E page \in pages, tail \in tails : url = Cat(page, tail)
    BY <2>1
  <2>q. QED
    BY <2>2, Zenon DEF pages, tails, Cat
<1>2. X \subseteq Tokens
  BY UtmKeysAre DEF Tokens
<1>3. tail \in Seq(Tokens)
  <2>1. PICK n \in 0..MaxTokens : tail \in [1..n -> X]
    BY DEF BoundedSeq, SeqOf
  <2>2. tail \in [1..n -> Tokens] /\ n \in Nat
    <3> HIDE DEF X
    <3>q. QED
      BY <1>2, <2>1, RedirectAssumption
  <2>q. QED
    BY <2>2
<1>4. page \in Seq(Tokens)
  <2>1. "https://host" \in Tokens /\ "?" \in Tokens
    BY PercentCodes DEF Tokens
  <2>2. <<"https://host">> \in Seq(Tokens) /\ <<"https://host", "?">> \in Seq(Tokens)
    BY <2>1
  <2>3. page = <<"https://host">> \/ page = <<"https://host", "?">>
    OBVIOUS
  <2>q. QED
    BY <2>2, <2>3, Zenon
<1>q. QED
  BY <1>1, <1>3, <1>4

(* One tracker.                                                             *)
LEMMA RedirectStep ==
  ASSUME NEW url \in Seq(Tokens), NEW masters \in Attributions
  PROVE  LET next == inject_utm_params(url, masters)
         IN  /\ next \in Seq(Tokens)
             /\ Base(next) = Base(url) /\ Fragment(next) = Fragment(url)
             /\ Kept(next) = Kept(url)
             /\ Plain(Params(next)) = Cat(Plain(Kept(url)), Added(masters))
<1> DEFINE P == ParamOver(Tokens)
           B == Base(url)
           F == Fragment(url)
           K == Kept(url)
           A == Added(masters)
           C == Coded(A)
           ps == Cat(K, C)
           next == inject_utm_params(url, masters)
<1>1. {"?", "&", "="} \subseteq Tokens
  BY PercentCodes DEF Tokens
<1>2. B \in Seq(Tokens \ {"#", "?"}) /\ F \in Seq(Tokens) /\ Ends(F) /\ Params(url) \in Seq(P)
  BY UrlParts
<1>3. K \in Seq(Foreign(P))
  BY <1>2, OthersType DEF Kept
<1>4. A \in Seq(Attribution)
  BY AddedType
<1>5. C \in Seq(Attributed(P)) /\ Plain(C) = A
  <2> HIDE DEF A
  <2>q. QED
    BY <1>4, CodedType
<1>6. next = B \o Query(K \o C) \o F
  BY Zenon DEF inject_utm_params, Coded
<1> HIDE DEF K, C
<1>7. K \in Seq(P) /\ C \in Seq(P)
  <2>1. Foreign(P) \subseteq P /\ Attributed(P) \subseteq P
    BY DEF Foreign, Attributed
  <2> HIDE DEF P
  <2>q. QED
    BY <1>3, <1>5, <2>1, SeqMonotonic, Zenon
<1>8. ps \in Seq(P)
  <2> HIDE DEF P
  <2>q. QED
    BY <1>7, CatType
<1>9. next = B \o Query(ps) \o F
  BY <1>6, Zenon DEF ps, Cat
<1> HIDE DEF ps, B, F, next
<1>10. next \in Seq(Tokens) /\ Base(next) = B /\ Fragment(next) = F /\ Params(next) = ps
  <2>1. B \in Seq(Tokens \ {"#", "?"}) /\ F \in Seq(Tokens) /\ Ends(F) /\ ps \in Seq(P)
    BY <1>2, <1>8
  <2>2. LET u == B \o Query(ps) \o F
        IN  u \in Seq(Tokens) /\ Base(u) = B /\ Fragment(u) = F /\ Params(u) = ps
    BY <1>1, <2>1, AddressesRoundTrip, SMTT(30)
  <2>q. QED
    BY <1>9, <2>2, Zenon
<1> HIDE DEF P
<1>11. Others(ps) = K
  <2>1. Others(K) = K
    BY <1>3, OthersOfForeign
  <2>2. Others(C) = <<>>
    BY <1>5, OthersOfOwn
  <2>3. Others(ps) = Cat(Others(K), Others(C))
    BY <1>7, OthersOfCat DEF ps
  <2>4. Cat(K, <<>>) = K
    BY <1>7, CatType
  <2>q. QED
    BY <2>1, <2>2, <2>3, <2>4, Zenon
<1>12. Plain(ps) = Cat(Plain(K), A)
  <2>1. Plain(ps) = Cat(Plain(K), Plain(C))
    BY <1>7, PlainOfCat DEF ps
  <2>q. QED
    BY <1>5, <2>1, Zenon
<1>13. Kept(next) = K
  BY <1>10, <1>11, Zenon DEF Kept
<1>q. QED
  BY <1>10, <1>12, <1>13, Zenon DEF next, K, B, F

LEMMA RedirectInvInit == RedirectInit => RedirectInv
  BY UrlsType DEF RedirectInit, AtTarget, RedirectInv, RedirectTypes, RestIsKept, LastIsAdded

LEMMA RedirectInvNext ==
  RedirectInv /\ [Redirect]_redirectVars => RedirectInv'
<1>1. ASSUME RedirectInv, Redirect
      PROVE  RedirectInv'
  <2>1. /\ link \in Seq(Tokens) /\ location \in Seq(Tokens)
        /\ Base(location) = Base(link) /\ Fragment(location) = Fragment(link)
        /\ Kept(location) = Kept(link)
    BY <1>1 DEF RedirectInv, RedirectTypes, RestIsKept
  <2>2. link' = link /\ names' \in Attributions /\ location' = inject_utm_params(location, names')
    BY <1>1 DEF Redirect
  <2>3. /\ location' \in Seq(Tokens)
        /\ Base(location') = Base(location) /\ Fragment(location') = Fragment(location)
        /\ Kept(location') = Kept(location)
        /\ Plain(Params(location')) = Cat(Plain(Kept(location)), Added(names'))
    BY <2>1, <2>2, RedirectStep
  <2>4. RedirectTypes'
    BY <2>1, <2>2, <2>3 DEF RedirectTypes
  <2>5. RestIsKept'
    BY <2>1, <2>2, <2>3, Zenon DEF RestIsKept
  <2>6. LastIsAdded'
    BY <2>1, <2>2, <2>3, Zenon DEF LastIsAdded
  <2>q. QED
    BY <2>4, <2>5, <2>6 DEF RedirectInv
<1>2. ASSUME RedirectInv, UNCHANGED redirectVars
      PROVE  RedirectInv'
  BY <1>2, Zenon DEF RedirectInv, RedirectTypes, RestIsKept, LastIsAdded, redirectVars
<1>q. QED
  BY <1>1, <1>2

(* Whatever trackers a visitor passes, with whatever names of masters, the  *)
(* address he has ends with the target's page, fragment and other           *)
(* parameters, and the names of the last tracker's masters, readable.       *)
THEOREM RedirectsKeepTheirTarget == RedirectSpec => []TargetsAreKept
<1>1. RedirectInv => TargetsAreKept
  BY Zenon DEF RedirectInv, RestIsKept, LastIsAdded, TargetsAreKept, Cat
<1>q. QED
  BY <1>1, RedirectInvInit, RedirectInvNext, PTL DEF RedirectSpec
===============================================================================
