------------------------------ MODULE GrantProofs ------------------------------
(***************************************************************************)
(* Proofs about BadgeGrants and Certification, for any badges, users,      *)
(* calls, policies, months, edits, facts and surveys.                      *)
(*   - BadgeGrants: type correctness, the monthly cap, the ladder, and     *)
(*     that the keyed grant implements ExactlyOnceGrants.                  *)
(*   - Certification: beside any facts, surveys, names and edits the       *)
(*     grants are still those of BadgeGrants, so that whatever is proved   *)
(*     about BadgeGrants holds of certifications too; a badge keeps the    *)
(*     survey that certified it first; and an answer names the badge's     *)
(*     survey.  The invariant adds to the properties that what a fact read *)
(*     is still so when it settles its lineage (Carried).                  *)
(***************************************************************************)
EXTENDS Certification, FiniteSetTheorems, TLAPS

-----------------------------------------------------------------------------
(* Badge grants.                                                            *)

(* A row's call is over: what it read and when it began never change again. *)
RowsEnded == \A r \in rows : pc[r] \in {"committed", "answered"}

BeganPast == \A c \in Calls : began[c] <= month

(* A peer call past the ladder has climbed it, and still has.               *)
Climbed(c) ==
  pc[c] \in {"admitted", "locked", "counted"} =>
    seen[c] \in Policies /\ seen[c].cap # NoNumber /\ Respected(c)

(* A peer call that counts holds its badge and sender's lock.               *)
OwnLock(c) ==
  pc[c] \in {"locked", "counted"} => lock[Slot(c)] = c /\ seen[c].cap # Uncapped

(* Its count still stands when it inserts.                                  *)
CountStands(c) ==
  pc[c] = "counted" =>
    Cardinality(CappedRows(c.badge, c.sender, began[c])) < seen[c].cap

PeerInv ==
  /\ RowsEnded
  /\ BeganPast
  /\ \A c \in PeerCalls : pc[c] = "found" => seen[c] \in Policies
  /\ \A c \in PeerCalls : Climbed(c) /\ OwnLock(c) /\ CountStands(c)
  /\ CapHolds
  /\ LadderHolds

(* A pending row is alone with its key.                                     *)
PendingAlone ==
  \A c \in SystemCalls : pc[c] = "inserted" =>
    pending[c.key] = c /\ KeyHolders(c.key) = {}

(* A winner that has not answered yet is the one its key's row names.       *)
WinnersHaveRows == \A c \in SystemCalls : pc[c] = "committed" => c \in rows

Unanswered == \A c \in SystemCalls : pc[c] # "answered" => answer[c] = None

KeyInv ==
  /\ RowsEnded
  /\ PendingAlone
  /\ WinnersHaveRows
  /\ Unanswered
  /\ KeyedOnce

-----------------------------------------------------------------------------
LEMMA InitTypeOK == Init => TypeOK
  BY BadgeAssumption DEF Init, TypeOK, Steps, Ended

LEMMA NextTypeOK == TypeOK /\ [Next]_vars => TypeOK'
<1> SUFFICES ASSUME TypeOK, [Next]_vars PROVE TypeOK'
  OBVIOUS
<1>a. \A c \in PeerCalls : c.badge \in Badges /\ c.sender \in Users
  BY BadgeAssumption
<1>b. \A c \in SystemCalls : c.badge \in Badges /\ c.key \in Keys
  BY BadgeAssumption
<1>c. None \notin PeerCalls /\ None \notin SystemCalls /\ PeerCalls \cap SystemCalls = {}
        /\ PeerCalls \subseteq Calls /\ SystemCalls \subseteq Calls
  BY BadgeAssumption DEF Calls
<1>1. CASE NextMonth
  BY <1>1 DEF NextMonth, TypeOK
<1>2. ASSUME NEW b \in Badges, EditBadge(b) PROVE TypeOK'
  BY <1>2 DEF EditBadge, TypeOK
<1>3. ASSUME NEW c \in Calls, Begin(c) PROVE TypeOK'
  BY <1>3, <1>c DEF Begin, TypeOK, Goto, calendar, Steps
<1>4. ASSUME NEW c \in Calls, FindBadge(c) PROVE TypeOK'
  <2>1. c.badge \in Badges
    BY <1>a, <1>b DEF Calls
  <2>2. QED BY <1>4, <2>1, <1>c DEF FindBadge, TypeOK, Goto, calendar, Steps, Ended
<1>5. ASSUME NEW c \in Calls, Rollback(c) PROVE TypeOK'
  BY <1>5, <1>c DEF Rollback, Release, TypeOK, Goto, calendar, Steps, Ended
<1>6. ASSUME NEW c \in PeerCalls, Admit(c) PROVE TypeOK'
  BY <1>6, <1>c DEF Admit, TypeOK, Goto, calendar, Steps, Ended
<1>7. ASSUME NEW c \in PeerCalls, LockPeerGrants(c) PROVE TypeOK'
  <2>1. Slot(c) \in Badges \X Users
    BY <1>a DEF Slot
  <2>2. QED BY <1>7, <1>c, <2>1 DEF LockPeerGrants, TypeOK, Goto, calendar, Steps
<1>8. ASSUME NEW c \in PeerCalls, CountPeerGrants(c) PROVE TypeOK'
  BY <1>8, <1>c DEF CountPeerGrants, TypeOK, Goto, calendar, Steps
<1>9. ASSUME NEW c \in PeerCalls, CapReached(c) PROVE TypeOK'
  BY <1>9, <1>c DEF CapReached, Release, TypeOK, Goto, calendar, Steps, Ended
<1>10. ASSUME NEW c \in PeerCalls, InsertPeer(c) PROVE TypeOK'
  BY <1>10, <1>c DEF InsertPeer, Release, TypeOK, Goto, calendar, Steps, Ended
<1>11. ASSUME NEW c \in SystemCalls, InsertKeyed(c) PROVE TypeOK'
  BY <1>11, <1>b, <1>c DEF InsertKeyed, TypeOK, Goto, calendar, Steps
<1>12. ASSUME NEW c \in SystemCalls, Conflict(c) PROVE TypeOK'
  BY <1>12, <1>c DEF Conflict, TypeOK, Goto, calendar, Steps
<1>13. ASSUME NEW c \in SystemCalls, CommitKeyed(c) PROVE TypeOK'
  BY <1>13, <1>c DEF CommitKeyed, Release, TypeOK, Goto, calendar, Steps, Ended
<1>14. ASSUME NEW c \in SystemCalls, Converge(c) PROVE TypeOK'
  BY <1>14, <1>c DEF Converge, KeyHolders, TypeOK, Goto, calendar, Steps, Ended
<1>15. ASSUME NEW c \in SystemCalls, Answer(c) PROVE TypeOK'
  BY <1>15, <1>c DEF Answer, TypeOK, Goto, calendar, Steps, Ended
<1>16. CASE UNCHANGED vars
  BY <1>16 DEF vars, TypeOK
<1>17. QED
  BY <1>1, <1>2, <1>3, <1>4, <1>5, <1>6, <1>7, <1>8, <1>9, <1>10, <1>11, <1>12,
     <1>13, <1>14, <1>15, <1>16, <1>c
  DEF Next, grant_peer, grant_system

-----------------------------------------------------------------------------
(* A step that adds no peer row and keeps what rows read and when they      *)
(* began keeps every capped set.                                            *)
LEMMA CappedFrame ==
  ASSUME PeerRows' = PeerRows,
         \A r \in PeerRows : began'[r] = began[r] /\ seen'[r] = seen[r]
  PROVE  \A b, s, m : CappedRows(b, s, m)' = CappedRows(b, s, m)
  BY DEF CappedRows

LEMMA CappedFinite == \A b, s, m : IsFiniteSet(CappedRows(b, s, m))
<1> SUFFICES ASSUME NEW b, NEW s, NEW m PROVE IsFiniteSet(CappedRows(b, s, m))
  OBVIOUS
<1>1. CappedRows(b, s, m) \subseteq PeerCalls
  BY DEF CappedRows, PeerRows
<1>2. QED BY <1>1, FS_Subset, BadgeAssumption

(* Grants are never taken away, so a climbed ladder stays climbed.          *)
LEMMA RespectedStays ==
  ASSUME NEW c \in PeerCalls, rows \subseteq rows', seen'[c] = seen[c], Respected(c)
  PROVE  Respected(c)'
  BY DEF Respected, Holds

(* Holding as many of the listed badges as the list is long is holding each.*)
LEMMA HoldsAll ==
  ASSUME NEW n \in Nat, NEW q \in [1..n -> Badges], NEW H,
         H \subseteq {q[i] : i \in 1..n}, Cardinality(H) = n
  PROVE  \A i \in 1..n : q[i] \in H
<1> DEFINE L == {q[i] : i \in 1..n}
<1>1. IsFiniteSet(1..n) /\ Cardinality(1..n) = n
  BY FS_Interval
<1>2. q \in Surjection(1..n, L)
  BY DEF Surjection
<1>3. IsFiniteSet(L) /\ Cardinality(L) <= n
  BY <1>1, <1>2, FS_Surjection
<1>4. IsFiniteSet(H) /\ Cardinality(H) <= Cardinality(L)
        /\ (Cardinality(L) = Cardinality(H) => L = H)
  BY <1>3, FS_Subset
<1>5. Cardinality(L) \in Nat
  BY <1>3, FS_CardinalityType
<1>6. L = H
  BY <1>3, <1>4, <1>5
<1>7. QED BY <1>6

LEMMA LadderRespected ==
  ASSUME TypeOK, NEW c \in PeerCalls, seen[c] \in Policies, Admissible(c)
  PROVE  Respected(c)
<1>1. seen[c] \in Policy
  BY BadgeAssumption
<1>2. CASE seen[c].auth = "having"
  <2>0. ~(seen[c].auth = "everyone") /\ ~(seen[c].auth = "users")
    BY <1>2
  <2> DEFINE q == seen[c].prereqs
             n == Len(q)
             H == {b \in {q[i] : i \in 1..Len(q)} : Holds(c.sender, b)}
  <2>1. q \in Seq(Badges)
    BY <1>1 DEF Policy
  <2>2. n \in Nat /\ q \in [1..n -> Badges]
    BY <2>1
  <2>3. Cardinality(H) = n
    BY <2>0 DEF Admissible, Ladder
  <2>4. \A i \in 1..n : q[i] \in H
    <3> HIDE DEF n, q
    <3>1. H \subseteq {q[i] : i \in 1..n}
      BY DEF n
    <3>2. QED BY <2>2, <2>3, <3>1, HoldsAll
  <2>5. QED BY <1>2, <2>4 DEF Respected, Admissible
<1>3. CASE seen[c].auth # "having"
  BY <1>1, <1>3 DEF Respected, Admissible, Ladder, Policy
<1>4. QED BY <1>2, <1>3

LEMMA InitPeerInv == Init => PeerInv
<1> SUFFICES ASSUME Init PROVE PeerInv
  OBVIOUS
<1>1. PeerRows = {} /\ rows = {}
  BY DEF Init, PeerRows
<1>2. \A b, s, m : CappedRows(b, s, m) = {}
  BY <1>1 DEF CappedRows
<1>3. /\ RowsEnded
      /\ \A c \in PeerCalls : pc[c] = "found" => seen[c] \in Policies
      /\ \A c \in PeerCalls : Climbed(c) /\ OwnLock(c) /\ CountStands(c)
  BY <1>1 DEF Init, RowsEnded, Climbed, OwnLock, CountStands, Calls
<1>4. BeganPast
  BY DEF Init, BeganPast
<1>5. CapHolds /\ LadderHolds
  BY <1>1, <1>2 DEF CapHolds, LadderHolds
<1>6. QED BY <1>3, <1>4, <1>5 DEF PeerInv
(* What every step leaves alone in the calls it is not a statement of.      *)
LEMMA OtherCalls ==
  ASSUME TypeOK, PeerInv, NEW S \in SUBSET PeerCalls,
         PeerRows' = PeerRows, rows \subseteq rows',
         \A r \in PeerRows : began'[r] = began[r] /\ seen'[r] = seen[r],
         \A d \in S : /\ pc'[d] = pc[d]
                      /\ began'[d] = began[d]
                      /\ seen'[d] = seen[d]
                      /\ pc[d] \in {"locked", "counted"} => lock'[Slot(d)] = lock[Slot(d)]
  PROVE  /\ \A d \in S : Climbed(d)' /\ OwnLock(d)' /\ CountStands(d)'
         /\ month' = month => CapHolds'
         /\ LadderHolds'
<1>1. \A b, s, m : CappedRows(b, s, m)' = CappedRows(b, s, m)
  BY CappedFrame
<1>2. \A d \in S : Climbed(d)'
  BY RespectedStays DEF PeerInv, Climbed
<1>3. \A d \in S : OwnLock(d)'
  BY DEF PeerInv, OwnLock, Slot
<1>4. \A d \in S : CountStands(d)'
  <2> SUFFICES ASSUME NEW d \in S, pc'[d] = "counted"
               PROVE  Cardinality(CappedRows(d.badge, d.sender, began[d]))' < seen'[d].cap
    BY DEF CountStands
  <2>1. Cardinality(CappedRows(d.badge, d.sender, began[d])) < seen[d].cap
    BY DEF PeerInv, CountStands
  <2>2. CappedRows(d.badge, d.sender, began[d])' = CappedRows(d.badge, d.sender, began[d])
    BY <1>1 DEF CappedRows
  <2>3. QED BY <2>1, <2>2
<1>5. ASSUME month' = month PROVE CapHolds'
  <2> SUFFICES ASSUME NEW b \in Badges, NEW s \in Users, NEW m \in 0..month,
                      CappedRows(b, s, m)' # {}
               PROVE  \E r \in CappedRows(b, s, m)' :
                        Cardinality(CappedRows(b, s, m)') <= seen'[r].cap
    BY <1>5 DEF CapHolds
  <2>1. CappedRows(b, s, m)' = CappedRows(b, s, m)
    BY <1>1
  <2>2. PICK r \in CappedRows(b, s, m) : Cardinality(CappedRows(b, s, m)) <= seen[r].cap
    BY <2>1 DEF PeerInv, CapHolds
  <2>3. seen'[r] = seen[r]
    BY DEF CappedRows
  <2>4. QED BY <2>1, <2>2, <2>3
<1>6. LadderHolds'
  <2>1. \A r \in PeerRows : r \in PeerCalls
    BY DEF PeerRows
  <2>2. QED BY <2>1, RespectedStays DEF PeerInv, LadderHolds
<1>7. QED BY <1>2, <1>3, <1>4, <1>5, <1>6

(* The step that commits a peer row.                                        *)
LEMMA InsertPeerInv ==
  ASSUME TypeOK, PeerInv, NEW c \in PeerCalls, InsertPeer(c)
  PROVE  PeerInv'
<1>a. RowsEnded /\ BeganPast /\ CapHolds /\ LadderHolds
  BY DEF PeerInv
<1>b. c \in Calls /\ c.badge \in Badges /\ c.sender \in Users
  BY BadgeAssumption DEF Calls
<1>c. c \notin rows
  BY <1>a DEF RowsEnded, InsertPeer
<1>d. PeerRows' = PeerRows \cup {c} /\ rows' = rows \cup {c} /\ began' = began
        /\ seen' = seen /\ month' = month
  BY DEF InsertPeer, PeerRows, calendar
<1>e. /\ pc' = [pc EXCEPT ![c] = "committed"]
      /\ pc[c] \in {"counted", "admitted"}
      /\ pc[c] = "admitted" => seen[c].cap = Uncapped
  BY DEF InsertPeer, Goto
<1>f. seen[c] \in Policies /\ seen[c].cap # NoNumber /\ Respected(c)
  BY <1>e DEF PeerInv, Climbed
<1>g. seen[c].cap \in Int \cup {Uncapped, NoNumber}
  BY <1>f, BadgeAssumption DEF Policy
<1>1. RowsEnded' /\ BeganPast'
  BY <1>a, <1>b, <1>d, <1>e DEF TypeOK, RowsEnded, BeganPast
<1>2. \A d \in PeerCalls : d # c =>
        /\ pc'[d] = pc[d]
        /\ pc[d] \in {"locked", "counted"} => lock'[Slot(d)] = lock[Slot(d)]
  <2> SUFFICES ASSUME NEW d \in PeerCalls, d # c, pc[d] \in {"locked", "counted"}
               PROVE  lock'[Slot(d)] = lock[Slot(d)]
    BY <1>b, <1>e DEF TypeOK, Calls
  <2>1. lock[Slot(d)] = d /\ Slot(d) \in Badges \X Users
    BY BadgeAssumption DEF PeerInv, OwnLock, Slot
  <2>2. QED BY <2>1 DEF InsertPeer, Release
<1>3. \A b, s, m : CappedRows(b, s, m)' =
        CappedRows(b, s, m) \cup
          (IF c.badge = b /\ c.sender = s /\ began[c] = m /\ seen[c].cap # Uncapped
           THEN {c} ELSE {})
  BY <1>d DEF CappedRows
<1>4. ASSUME NEW d \in PeerCalls PROVE Climbed(d)' /\ OwnLock(d)' /\ CountStands(d)'
  <2>1. CASE d = c
    BY <1>b, <1>e, <2>1 DEF TypeOK, Climbed, OwnLock, CountStands
  <2>2. CASE d # c
    <3>1. Climbed(d)'
      BY <1>2, <1>d, <2>2, RespectedStays DEF PeerInv, Climbed
    <3>2. OwnLock(d)'
      BY <1>2, <1>d, <2>2 DEF PeerInv, OwnLock, Slot
    <3>3. ASSUME pc[d] = "counted"
          PROVE  CappedRows(d.badge, d.sender, began[d])' = CappedRows(d.badge, d.sender, began[d])
      <4>1. lock[Slot(d)] = d
        BY <3>3 DEF PeerInv, OwnLock
      <4>2. seen[c].cap # Uncapped => pc[c] = "counted" /\ lock[Slot(c)] = c
        BY <1>e DEF PeerInv, OwnLock
      <4>3. seen[c].cap # Uncapped => ~(c.badge = d.badge /\ c.sender = d.sender)
        BY <4>1, <4>2, <2>2 DEF Slot
      <4>4. began'[d] = began[d]
        BY <1>d
      <4>5. CappedRows(d.badge, d.sender, began[d])' = CappedRows(d.badge, d.sender, began[d])
        BY <1>d, <4>3 DEF CappedRows
      <4>6. QED BY <4>5
    <3>4. CountStands(d)'
      BY <3>3, <1>2, <1>d, <2>2 DEF PeerInv, CountStands
    <3>5. QED BY <3>1, <3>2, <3>4
  <2>3. QED BY <2>1, <2>2
<1>5. CapHolds'
  <2> SUFFICES ASSUME NEW b \in Badges, NEW s \in Users, NEW m \in 0..month,
                      CappedRows(b, s, m)' # {}
               PROVE  \E r \in CappedRows(b, s, m)' :
                        Cardinality(CappedRows(b, s, m)') <= seen'[r].cap
    BY <1>d DEF CapHolds
  <2>1. CASE c.badge = b /\ c.sender = s /\ began[c] = m /\ seen[c].cap # Uncapped
    <3>1. CappedRows(b, s, m)' = CappedRows(b, s, m) \cup {c}
      BY <1>3, <2>1
    <3>2. Cardinality(CappedRows(b, s, m)) < seen[c].cap
      BY <1>e, <2>1 DEF PeerInv, CountStands
    <3>3. c \notin CappedRows(b, s, m)
      BY <1>c DEF CappedRows, PeerRows
    <3>4. IsFiniteSet(CappedRows(b, s, m))
      BY CappedFinite
    <3>5. Cardinality(CappedRows(b, s, m) \cup {c}) = Cardinality(CappedRows(b, s, m)) + 1
            /\ Cardinality(CappedRows(b, s, m)) \in Nat
      BY <3>3, <3>4, FS_AddElement, FS_CardinalityType
    <3>6. seen[c].cap \in Int
      BY <1>f, <1>g, <2>1
    <3>7. Cardinality(CappedRows(b, s, m)') <= seen'[c].cap
      BY <1>d, <3>1, <3>2, <3>5, <3>6
    <3>8. QED BY <3>1, <3>7
  <2>2. CASE ~(c.badge = b /\ c.sender = s /\ began[c] = m /\ seen[c].cap # Uncapped)
    <3>1. CappedRows(b, s, m)' = CappedRows(b, s, m)
      BY <1>3, <2>2
    <3>2. PICK r \in CappedRows(b, s, m) : Cardinality(CappedRows(b, s, m)) <= seen[r].cap
      BY <1>a, <3>1 DEF CapHolds
    <3>3. QED BY <1>d, <3>1, <3>2
  <2>3. QED BY <2>1, <2>2
<1>6. LadderHolds'
  <2>1. \A r \in PeerRows' : r \in PeerCalls /\ Respected(r)
    BY <1>a, <1>d, <1>f DEF LadderHolds, PeerRows
  <2>2. \A r \in PeerRows' : Respected(r)'
    BY <2>1, <1>d, RespectedStays
  <2>3. QED BY <2>2 DEF LadderHolds
<1>7. \A d \in PeerCalls : pc'[d] = "found" => seen'[d] \in Policies
  BY <1>b, <1>d, <1>e DEF TypeOK, PeerInv, Calls
<1>8. QED BY <1>1, <1>4, <1>5, <1>6, <1>7 DEF PeerInv
(* A step of one call that adds no peer row: what is left to show is about  *)
(* that call.                                                               *)
LEMMA QuietStep ==
  ASSUME TypeOK, PeerInv, NEW c \in Calls,
         month' = month, PeerRows' = PeerRows, rows \subseteq rows', RowsEnded',
         \A r \in PeerRows : began'[r] = began[r] /\ seen'[r] = seen[r],
         \A d \in Calls \ {c} : pc'[d] = pc[d] /\ began'[d] = began[d] /\ seen'[d] = seen[d],
         \A k \in Badges \X Users : lock[k] # c /\ lock[k] # None => lock'[k] = lock[k],
         began'[c] <= month,
         c \in PeerCalls => /\ pc'[c] = "found" => seen'[c] \in Policies
                            /\ Climbed(c)' /\ OwnLock(c)' /\ CountStands(c)'
  PROVE  PeerInv'
<1>1. \A d \in PeerCalls \ {c} :
        pc[d] \in {"locked", "counted"} => lock'[Slot(d)] = lock[Slot(d)]
  <2> SUFFICES ASSUME NEW d \in PeerCalls \ {c}, pc[d] \in {"locked", "counted"}
               PROVE  lock'[Slot(d)] = lock[Slot(d)]
    OBVIOUS
  <2>1. lock[Slot(d)] = d /\ Slot(d) \in Badges \X Users
    BY BadgeAssumption DEF PeerInv, OwnLock, Slot
  <2>2. d # None
    BY BadgeAssumption DEF Calls
  <2>3. QED BY <2>1, <2>2
<1>2. \A d \in PeerCalls \ {c} :
        /\ pc'[d] = pc[d] /\ began'[d] = began[d] /\ seen'[d] = seen[d]
        /\ pc[d] \in {"locked", "counted"} => lock'[Slot(d)] = lock[Slot(d)]
  BY <1>1 DEF Calls
<1>3. /\ \A d \in PeerCalls \ {c} : Climbed(d)' /\ OwnLock(d)' /\ CountStands(d)'
      /\ CapHolds' /\ LadderHolds'
  <2> DEFINE S == PeerCalls \ {c}
  <2>1. S \in SUBSET PeerCalls
    OBVIOUS
  <2> HIDE DEF S
  <2>2. \A d \in S : /\ pc'[d] = pc[d]
                     /\ began'[d] = began[d]
                     /\ seen'[d] = seen[d]
                     /\ pc[d] \in {"locked", "counted"} => lock'[Slot(d)] = lock[Slot(d)]
    BY <1>2 DEF S
  <2>3. QED BY <2>1, <2>2, OtherCalls DEF S
<1>4. BeganPast'
  BY DEF PeerInv, BeganPast
<1>5. \A d \in PeerCalls : pc'[d] = "found" => seen'[d] \in Policies
  BY DEF PeerInv, Calls
<1>6. \A d \in PeerCalls : Climbed(d)' /\ OwnLock(d)' /\ CountStands(d)'
  BY <1>3
<1>7. QED BY <1>3, <1>4, <1>5, <1>6 DEF PeerInv

LEMMA NextPeerInv == TypeOK /\ TypeOK' /\ PeerInv /\ [Next]_vars => PeerInv'
<1> SUFFICES ASSUME TypeOK, TypeOK', PeerInv, [Next]_vars PROVE PeerInv'
  OBVIOUS
<1>a. RowsEnded /\ BeganPast /\ CapHolds /\ LadderHolds
  BY DEF PeerInv
<1>b. PeerRows \subseteq PeerCalls /\ PeerRows \subseteq rows
  BY DEF PeerRows
<1>c. /\ PeerCalls \subseteq Calls /\ SystemCalls \subseteq Calls
      /\ \A c \in SystemCalls : c \notin PeerCalls
  BY BadgeAssumption DEF Calls
<1>1. CASE NextMonth
  <2>1. \A b, s, m : CappedRows(b, s, m)' = CappedRows(b, s, m)
    BY <1>1, CappedFrame DEF NextMonth, PeerRows
  <2>2. CapHolds'
    <3> SUFFICES ASSUME NEW b \in Badges, NEW s \in Users, NEW m \in 0..(month + 1),
                        CappedRows(b, s, m) # {}
                 PROVE  \E r \in CappedRows(b, s, m) :
                          Cardinality(CappedRows(b, s, m)) <= seen[r].cap
      BY <1>1, <2>1 DEF NextMonth, CapHolds
    <3>1. PICK r \in CappedRows(b, s, m) : TRUE
      OBVIOUS
    <3>2. began[r] = m /\ r \in Calls
      BY <1>b, <1>c DEF CappedRows
    <3>3. m \in 0..month
      BY <1>a, <3>2 DEF BeganPast, TypeOK
    <3>4. QED BY <1>a, <3>3 DEF CapHolds
  <2>3. /\ \A d \in PeerCalls : Climbed(d)' /\ OwnLock(d)' /\ CountStands(d)'
        /\ LadderHolds'
    BY <1>1, OtherCalls DEF NextMonth, PeerRows
  <2>4. RowsEnded' /\ BeganPast'
    BY <1>a, <1>1 DEF NextMonth, RowsEnded, BeganPast, TypeOK
  <2>5. QED BY <1>1, <2>2, <2>3, <2>4 DEF NextMonth, PeerInv
<1>2. ASSUME NEW b \in Badges, EditBadge(b) PROVE PeerInv'
  <2>1. RowsEnded' /\ BeganPast'
    BY <1>a, <1>2 DEF EditBadge, RowsEnded, BeganPast
  <2>2. /\ \A d \in PeerCalls : Climbed(d)' /\ OwnLock(d)' /\ CountStands(d)'
        /\ CapHolds' /\ LadderHolds'
    BY <1>2, OtherCalls DEF EditBadge, PeerRows
  <2>3. QED BY <1>2, <2>1, <2>2 DEF EditBadge, PeerInv
<1>3. ASSUME NEW c \in Calls, Begin(c) PROVE PeerInv'
  <2>1. RowsEnded' /\ c \notin rows
    BY <1>a, <1>3 DEF Begin, Goto, RowsEnded, TypeOK
  <2>2. Climbed(c)' /\ OwnLock(c)' /\ CountStands(c)' /\ pc'[c] = "begun"
    BY <1>3 DEF Begin, Goto, TypeOK, Climbed, OwnLock, CountStands
  <2>3. began'[c] <= month
    BY <1>3 DEF Begin, TypeOK
  <2>4. QED
    BY <1>3, <1>b, <2>1, <2>2, <2>3, QuietStep
    DEF Begin, Goto, calendar, TypeOK, PeerRows
<1>4. ASSUME NEW c \in Calls, FindBadge(c) PROVE PeerInv'
  <2>1. RowsEnded' /\ c \notin rows
    BY <1>a, <1>4 DEF FindBadge, Goto, RowsEnded, TypeOK, Ended
  <2>2. Climbed(c)' /\ OwnLock(c)' /\ CountStands(c)'
    BY <1>4 DEF FindBadge, Goto, TypeOK, Climbed, OwnLock, CountStands
  <2>3. pc'[c] = "found" => seen'[c] \in Policies
    <3>1. c.badge \in Badges
      BY BadgeAssumption DEF Calls
    <3>2. QED BY <1>4, <3>1 DEF FindBadge, Goto, TypeOK
  <2>4. began'[c] <= month
    BY <1>a, <1>4 DEF FindBadge, BeganPast
  <2>5. QED
    BY <1>4, <1>b, <2>1, <2>2, <2>3, <2>4, QuietStep
    DEF FindBadge, Goto, calendar, TypeOK, PeerRows
<1>5. ASSUME NEW c \in Calls, Rollback(c) PROVE PeerInv'
  <2>1. RowsEnded'
    BY <1>a, <1>5 DEF Rollback, Goto, RowsEnded, TypeOK, Ended
  <2>2. Climbed(c)' /\ OwnLock(c)' /\ CountStands(c)' /\ pc'[c] = "aborted"
    BY <1>5 DEF Rollback, Goto, TypeOK, Climbed, OwnLock, CountStands
  <2>3. began'[c] <= month
    BY <1>a, <1>5 DEF Rollback, BeganPast
  <2>4. QED
    BY <1>5, <1>b, <2>1, <2>2, <2>3, QuietStep
    DEF Rollback, Release, Goto, calendar, TypeOK, PeerRows
<1>6. ASSUME NEW c \in PeerCalls, Admit(c) PROVE PeerInv'
  <2>1. RowsEnded' /\ c \in Calls
    BY <1>a, <1>c, <1>6 DEF Admit, Goto, RowsEnded, TypeOK
  <2>2. Climbed(c)'
    <3> SUFFICES ASSUME Admissible(c) PROVE Climbed(c)'
      BY <1>6, <2>1 DEF Admit, Goto, TypeOK, Climbed
    <3>1. seen[c] \in Policies
      BY <1>6 DEF PeerInv, Admit
    <3>2. Respected(c)
      BY <3>1, LadderRespected
    <3>3. Respected(c)'
      BY <1>6, <3>2, RespectedStays DEF Admit
    <3>4. QED BY <1>6, <3>1, <3>3 DEF Admit, Admissible, Climbed
  <2>3. OwnLock(c)' /\ CountStands(c)' /\ pc'[c] # "found"
    BY <1>6, <2>1 DEF Admit, Goto, TypeOK, OwnLock, CountStands
  <2>4. began'[c] <= month
    BY <1>a, <1>6, <2>1 DEF Admit, BeganPast
  <2>5. QED
    BY <1>6, <1>b, <2>1, <2>2, <2>3, <2>4, QuietStep
    DEF Admit, Goto, calendar, TypeOK, PeerRows
<1>7. ASSUME NEW c \in PeerCalls, LockPeerGrants(c) PROVE PeerInv'
  <2>1. RowsEnded' /\ c \in Calls
    BY <1>a, <1>c, <1>7 DEF LockPeerGrants, Goto, RowsEnded, TypeOK
  <2>2. Climbed(c)'
    BY <1>7, RespectedStays DEF PeerInv, LockPeerGrants, Climbed
  <2>3. Slot(c) \in Badges \X Users
    BY BadgeAssumption DEF Slot
  <2>4. OwnLock(c)' /\ CountStands(c)' /\ pc'[c] = "locked"
    BY <1>7, <2>1, <2>3 DEF LockPeerGrants, Goto, TypeOK, OwnLock, CountStands, Slot
  <2>5. began'[c] <= month
    BY <1>a, <1>7, <2>1 DEF LockPeerGrants, BeganPast
  <2>6. \A k \in Badges \X Users : lock[k] # c /\ lock[k] # None => lock'[k] = lock[k]
    BY <1>7, <2>3 DEF LockPeerGrants, TypeOK
  <2>7. QED
    BY <1>7, <1>b, <2>1, <2>2, <2>4, <2>5, <2>6, QuietStep
    DEF LockPeerGrants, Goto, calendar, TypeOK, PeerRows
<1>8. ASSUME NEW c \in PeerCalls, CountPeerGrants(c) PROVE PeerInv'
  <2>1. RowsEnded' /\ c \in Calls
    BY <1>a, <1>c, <1>8 DEF CountPeerGrants, Goto, RowsEnded, TypeOK
  <2>2. Climbed(c)'
    BY <1>8, RespectedStays DEF PeerInv, CountPeerGrants, Climbed
  <2>3. OwnLock(c)' /\ pc'[c] = "counted"
    BY <1>8, <2>1 DEF PeerInv, CountPeerGrants, Goto, TypeOK, OwnLock, Slot
  <2>4. CountStands(c)'
    <3> DEFINE C == CappedRows(c.badge, c.sender, began[c])
               D == {r \in PeerRows : r.badge = c.badge /\ r.sender = c.sender
                                        /\ began[r] >= began[c]}
    <3>1. C \subseteq D
      <4>1. \A r \in PeerRows : began[r] \in Nat
        BY <1>b, <1>c DEF TypeOK
      <4>2. QED BY <4>1, <2>1 DEF CappedRows, TypeOK
    <3>2. IsFiniteSet(D)
      BY <1>b, FS_Subset, BadgeAssumption
    <3>3. Cardinality(C) <= Cardinality(D) /\ Cardinality(C) \in Nat /\ Cardinality(D) \in Nat
      BY <3>1, <3>2, FS_Subset, FS_CardinalityType
    <3>4. Cardinality(D) < seen[c].cap
      BY <1>8 DEF CountPeerGrants, Spent
    <3>5. seen[c].cap \in Int
      <4>1. seen[c] \in Policies /\ seen[c].cap # NoNumber /\ seen[c].cap # Uncapped
        BY <1>8 DEF PeerInv, Climbed, OwnLock, CountPeerGrants
      <4>2. QED BY <4>1, BadgeAssumption DEF Policy
    <3>6. CappedRows(c.badge, c.sender, began[c])' = C
      BY <1>8 DEF CountPeerGrants, CappedRows, PeerRows
    <3>7. Cardinality(C) < seen[c].cap
      BY <3>3, <3>4, <3>5
    <3>8. QED BY <1>8, <3>6, <3>7 DEF CountPeerGrants, CountStands
  <2>5. began'[c] <= month
    BY <1>a, <1>8, <2>1 DEF CountPeerGrants, BeganPast
  <2>6. QED
    BY <1>8, <1>b, <2>1, <2>2, <2>3, <2>4, <2>5, QuietStep
    DEF CountPeerGrants, Goto, calendar, TypeOK, PeerRows
<1>9. ASSUME NEW c \in PeerCalls, CapReached(c) PROVE PeerInv'
  <2>1. RowsEnded' /\ c \in Calls
    BY <1>a, <1>c, <1>9 DEF CapReached, Goto, RowsEnded, TypeOK
  <2>2. Climbed(c)' /\ OwnLock(c)' /\ CountStands(c)' /\ pc'[c] = "refused"
    BY <1>9, <2>1 DEF CapReached, Goto, TypeOK, Climbed, OwnLock, CountStands
  <2>3. began'[c] <= month
    BY <1>a, <1>9, <2>1 DEF CapReached, BeganPast
  <2>4. QED
    BY <1>9, <1>b, <2>1, <2>2, <2>3, QuietStep
    DEF CapReached, Release, Goto, calendar, TypeOK, PeerRows
<1>10. ASSUME NEW c \in PeerCalls, InsertPeer(c) PROVE PeerInv'
  BY <1>10, InsertPeerInv
<1>11. ASSUME NEW c \in SystemCalls,
              InsertKeyed(c) \/ Conflict(c) \/ CommitKeyed(c) \/ Converge(c) \/ Answer(c)
       PROVE  PeerInv'
  <2>1. PeerRows' = PeerRows /\ rows \subseteq rows' /\ c \in Calls /\ c \notin PeerCalls
    BY <1>11, <1>c
    DEF InsertKeyed, Conflict, CommitKeyed, Converge, Answer, PeerRows
  <2>2. RowsEnded'
    BY <1>a, <1>11, <2>1
    DEF InsertKeyed, Conflict, CommitKeyed, Converge, Answer, Goto, RowsEnded, TypeOK
  <2>3. \A k \in Badges \X Users : lock[k] # c => lock'[k] = lock[k]
    BY <1>11 DEF InsertKeyed, Conflict, CommitKeyed, Converge, Answer, Release
  <2>4. /\ month' = month /\ began' = began /\ seen' = seen
        /\ \A d \in Calls \ {c} : pc'[d] = pc[d]
    BY <1>11
    DEF InsertKeyed, Conflict, CommitKeyed, Converge, Answer, Goto, calendar, TypeOK
  <2>5. began[c] <= month
    BY <1>a, <2>1 DEF BeganPast
  <2>6. QED BY <2>1, <2>2, <2>3, <2>4, <2>5, QuietStep
<1>12. CASE UNCHANGED vars
  <2>1. RowsEnded' /\ BeganPast'
    BY <1>a, <1>12 DEF vars, RowsEnded, BeganPast
  <2>2. /\ \A d \in PeerCalls : Climbed(d)' /\ OwnLock(d)' /\ CountStands(d)'
        /\ CapHolds' /\ LadderHolds'
    BY <1>12, OtherCalls DEF vars, PeerRows
  <2>3. QED BY <1>12, <2>1, <2>2 DEF vars, PeerInv
<1>13. QED
  BY <1>1, <1>2, <1>3, <1>4, <1>5, <1>6, <1>7, <1>8, <1>9, <1>10, <1>11, <1>12, <1>c
  DEF Next, grant_peer, grant_system
(* The variables keep their types, and no advisory lock or pending key      *)
(* outlives its transaction.                                                *)
THEOREM TypeCorrect == Spec => []TypeOK
<1>1. QED BY InitTypeOK, NextTypeOK, PTL DEF Spec

(* No two peer rows of one month pass the cap they were admitted under.     *)
THEOREM CapIsHeld == Spec => []CapHolds
<1>1. Init => TypeOK /\ PeerInv
  BY InitTypeOK, InitPeerInv
<1>2. TypeOK /\ PeerInv /\ [Next]_vars => (TypeOK /\ PeerInv)'
  BY NextTypeOK, NextPeerInv
<1>3. PeerInv => CapHolds
  BY DEF PeerInv
<1>4. QED BY <1>1, <1>2, <1>3, PTL DEF Spec

(* No peer row bypasses its badge's ladder.                                 *)
THEOREM LadderIsHeld == Spec => []LadderHolds
<1>1. Init => TypeOK /\ PeerInv
  BY InitTypeOK, InitPeerInv
<1>2. TypeOK /\ PeerInv /\ [Next]_vars => (TypeOK /\ PeerInv)'
  BY NextTypeOK, NextPeerInv
<1>3. PeerInv => LadderHolds
  BY DEF PeerInv
<1>4. QED BY <1>1, <1>2, <1>3, PTL DEF Spec

-----------------------------------------------------------------------------
LEMMA InitKeyInv == Init => KeyInv
  BY DEF Init, KeyInv, RowsEnded, PendingAlone, WinnersHaveRows, Unanswered, KeyedOnce,
         Calls

(* Steps that touch no keyed row and no system call's keyed statement.      *)
LEMMA KeyFrame ==
  ASSUME TypeOK, KeyInv, NEW c \in Calls,
         rows' \cap SystemCalls = rows \cap SystemCalls, RowsEnded',
         \A d \in Calls \ {c} : pc'[d] = pc[d],
         answer' = answer,
         \A k \in Keys : pending[k] # c /\ pending[k] # None => pending'[k] = pending[k],
         c \in SystemCalls => pc'[c] \notin {"inserted", "committed", "answered"},
         c \in SystemCalls => pc[c] # "answered",
         c \in SystemCalls /\ pc'[c] = "conflict" => KeyHolders(c.key) # {}
  PROVE  KeyInv'
<1>1. \A k : KeyHolders(k)' = KeyHolders(k)
  BY DEF KeyHolders
<1>2. \A d \in SystemCalls : d \in Calls /\ d.key \in Keys /\ d # None
  BY BadgeAssumption DEF Calls
<1>3. PendingAlone'
  BY <1>1, <1>2 DEF KeyInv, PendingAlone, KeyHolders
<1>4. WinnersHaveRows' /\ Unanswered'
  BY <1>2 DEF KeyInv, WinnersHaveRows, Unanswered
<1>5. KeyedOnce'
  <2>1. \A d \in SystemCalls : pc'[d] = "conflict" => KeyHolders(d.key) # {}
    BY <1>2 DEF KeyInv, KeyedOnce
  <2>2. QED BY <1>1, <2>1 DEF KeyInv, KeyedOnce, KeyHolders
<1>6. QED BY <1>3, <1>4, <1>5 DEF KeyInv

LEMMA NextKeyInv == TypeOK /\ TypeOK' /\ KeyInv /\ [Next]_vars => KeyInv'
<1> SUFFICES ASSUME TypeOK, TypeOK', KeyInv, [Next]_vars PROVE KeyInv'
  OBVIOUS
<1>a. RowsEnded /\ PendingAlone /\ WinnersHaveRows /\ Unanswered /\ KeyedOnce
  BY DEF KeyInv
<1>b. /\ PeerCalls \subseteq Calls /\ SystemCalls \subseteq Calls
      /\ \A c \in SystemCalls : c \notin PeerCalls /\ c.key \in Keys /\ c # None
  BY BadgeAssumption DEF Calls
<1>1. ASSUME UNCHANGED <<rows, pc, pending, answer>> PROVE KeyInv'
  BY <1>a, <1>1
  DEF KeyInv, RowsEnded, PendingAlone, WinnersHaveRows, Unanswered, KeyedOnce, KeyHolders
<1>2. ASSUME NEW c \in Calls, Begin(c) \/ FindBadge(c) \/ Rollback(c) PROVE KeyInv'
  <2>1. /\ rows' = rows /\ answer' = answer
        /\ \A d \in Calls \ {c} : pc'[d] = pc[d]
        /\ pc[c] \notin Ended
        /\ pc'[c] \in {"begun", "found", "refused", "aborted"}
    BY <1>2 DEF Begin, FindBadge, Rollback, Goto, TypeOK, Ended
  <2>2. RowsEnded'
    BY <1>a, <2>1 DEF RowsEnded, TypeOK, Ended
  <2>3. \A k \in Keys : pending[k] # c => pending'[k] = pending[k]
    BY <1>2 DEF Begin, FindBadge, Rollback, Release
  <2>4. QED BY <2>1, <2>2, <2>3, KeyFrame DEF Ended
<1>3. ASSUME NEW c \in PeerCalls,
             Admit(c) \/ LockPeerGrants(c) \/ CountPeerGrants(c) \/ CapReached(c)
               \/ InsertPeer(c)
      PROVE  KeyInv'
  <2>1. /\ rows' \cap SystemCalls = rows \cap SystemCalls
        /\ answer' = answer
        /\ \A d \in Calls \ {c} : pc'[d] = pc[d]
        /\ c \notin SystemCalls /\ c \in Calls
    BY <1>3, <1>b
    DEF Admit, LockPeerGrants, CountPeerGrants, CapReached, InsertPeer, Goto, TypeOK
  <2>2. RowsEnded'
    BY <1>a, <1>3, <2>1
    DEF Admit, LockPeerGrants, CountPeerGrants, CapReached, InsertPeer, Goto, TypeOK,
        RowsEnded
  <2>3. \A k \in Keys : pending[k] # c => pending'[k] = pending[k]
    BY <1>3
    DEF Admit, LockPeerGrants, CountPeerGrants, CapReached, InsertPeer, Release
  <2>4. QED BY <2>1, <2>2, <2>3, KeyFrame
<1>4. ASSUME NEW c \in SystemCalls, InsertKeyed(c) PROVE KeyInv'
  <2>1. \A k : KeyHolders(k)' = KeyHolders(k)
    BY <1>4 DEF InsertKeyed, KeyHolders
  <2>2. \A d \in SystemCalls : d # c => pc'[d] = pc[d]
    BY <1>4, <1>b DEF InsertKeyed, Goto, TypeOK
  <2>3. PendingAlone'
    <3> SUFFICES ASSUME NEW d \in SystemCalls, pc'[d] = "inserted"
                 PROVE  pending'[d.key] = d /\ KeyHolders(d.key) = {}
      BY <2>1 DEF PendingAlone, KeyHolders
    <3>1. CASE d = c
      BY <1>4, <1>b, <3>1 DEF InsertKeyed, TypeOK
    <3>2. CASE d # c
      <4>1. pending[d.key] = d /\ KeyHolders(d.key) = {}
        BY <1>a, <2>2, <3>2 DEF PendingAlone
      <4>2. d.key # c.key
        BY <1>4, <1>b, <4>1 DEF InsertKeyed
      <4>3. QED BY <1>4, <4>1, <4>2, <1>b DEF InsertKeyed, TypeOK
    <3>3. QED BY <3>1, <3>2
  <2>4. RowsEnded' /\ WinnersHaveRows' /\ Unanswered'
    BY <1>4, <1>a, <1>b
    DEF InsertKeyed, Goto, TypeOK, RowsEnded, WinnersHaveRows, Unanswered
  <2>5. KeyedOnce'
    <3>1. \A d \in SystemCalls : pc'[d] = "conflict" => KeyHolders(d.key) # {}
      BY <1>4, <1>a, <1>b, <2>2 DEF InsertKeyed, Goto, TypeOK, KeyedOnce
    <3>2. QED BY <1>4, <1>a, <2>1, <3>1 DEF InsertKeyed, KeyedOnce, KeyHolders
  <2>6. QED BY <2>3, <2>4, <2>5 DEF KeyInv
<1>5. ASSUME NEW c \in SystemCalls, Conflict(c) PROVE KeyInv'
  <2>1. RowsEnded'
    BY <1>5, <1>a, <1>b DEF Conflict, Goto, TypeOK, RowsEnded
  <2>2. QED
    BY <1>5, <1>b, <2>1, KeyFrame DEF Conflict, Goto, TypeOK
<1>6. ASSUME NEW c \in SystemCalls, CommitKeyed(c) PROVE KeyInv'
  <2>1. rows' = rows \cup {c} /\ pc' = [pc EXCEPT ![c] = "committed"] /\ answer' = answer
    BY <1>6 DEF CommitKeyed, Goto
  <2>2. \A d \in SystemCalls : d # c => pc'[d] = pc[d]
    BY <2>1, <1>b DEF TypeOK
  <2>3. pc'[c] = "committed" /\ pc[c] = "inserted"
    BY <1>6, <1>b, <2>1 DEF CommitKeyed, TypeOK
  <2>4. \A d \in SystemCalls : pc[d] = "inserted" /\ d # c => d.key # c.key
    BY <1>a, <2>3 DEF PendingAlone
  <2>5. PendingAlone'
    <3> SUFFICES ASSUME NEW d \in SystemCalls, pc'[d] = "inserted"
                 PROVE  pending'[d.key] = d /\ KeyHolders(d.key)' = {}
      BY DEF PendingAlone, KeyHolders
    <3>1. d # c /\ pc[d] = "inserted"
      BY <2>2, <2>3
    <3>2. pending[d.key] = d /\ KeyHolders(d.key) = {}
      BY <1>a, <3>1 DEF PendingAlone
    <3>3. pending'[d.key] = d
      BY <1>6, <1>b, <3>1, <3>2 DEF CommitKeyed, Release
    <3>4. KeyHolders(d.key)' = {}
      BY <2>1, <2>4, <3>1, <3>2 DEF KeyHolders
    <3>5. QED BY <3>3, <3>4
  <2>6. RowsEnded' /\ WinnersHaveRows' /\ Unanswered'
    BY <1>a, <1>b, <2>1, <2>3 DEF TypeOK, RowsEnded, WinnersHaveRows, Unanswered
  <2>7. KeyedOnce'
    <3>1. KeyHolders(c.key) = {}
      BY <1>a, <2>3 DEF PendingAlone
    <3>2. \A r, s \in rows' \cap SystemCalls : r.key = s.key => r = s
      BY <1>a, <2>1, <3>1 DEF KeyedOnce, KeyHolders
    <3>3. \A d \in SystemCalls : pc'[d] = "conflict" => KeyHolders(d.key)' # {}
      BY <1>a, <2>1, <2>2, <2>3 DEF KeyedOnce, KeyHolders
    <3>4. QED BY <3>2, <3>3 DEF KeyedOnce, KeyHolders
  <2>8. QED BY <2>5, <2>6, <2>7 DEF KeyInv
<1>7. ASSUME NEW c \in SystemCalls, Converge(c) \/ Answer(c) PROVE KeyInv'
  <2>1. /\ rows' = rows /\ pending' = pending /\ pc' = [pc EXCEPT ![c] = "answered"]
        /\ pc[c] \in {"conflict", "committed"}
        /\ \A d \in SystemCalls : d # c => answer'[d] = answer[d]
    BY <1>7 DEF Converge, Answer, Goto, TypeOK
  <2>2. /\ \A d \in SystemCalls : d # c => pc'[d] = pc[d]
        /\ pc'[c] = "answered"
    BY <2>1, <1>b DEF TypeOK
  <2>3. PendingAlone'
    BY <1>a, <2>1, <2>2 DEF PendingAlone, KeyHolders
  <2>4. RowsEnded' /\ WinnersHaveRows' /\ Unanswered'
    BY <1>a, <1>b, <2>1, <2>2 DEF TypeOK, RowsEnded, WinnersHaveRows, Unanswered
  <2>5. KeyedOnce'
    BY <1>a, <2>1, <2>2 DEF KeyedOnce, KeyHolders
  <2>6. QED BY <2>3, <2>4, <2>5 DEF KeyInv
<1>8. QED
  BY <1>1, <1>2, <1>3, <1>4, <1>5, <1>6, <1>7, <1>b
  DEF Next, NextMonth, EditBadge, vars, grant_peer, grant_system

(* A key is minted once, and a conflict always finds the row it lost to.    *)
THEOREM KeyedGrantsAreUnique == Spec => []KeyedOnce
<1>1. Init => TypeOK /\ KeyInv
  BY InitTypeOK, InitKeyInv
<1>2. TypeOK /\ KeyInv /\ [Next]_vars => (TypeOK /\ KeyInv)'
  BY NextTypeOK, NextKeyInv
<1>3. KeyInv => KeyedOnce
  BY DEF KeyInv
<1>4. QED BY <1>1, <1>2, <1>3, PTL DEF Spec
-----------------------------------------------------------------------------
(* The row of a key, as the promise names it.                               *)
LEMMA MintedIs ==
  ASSUME KeyedOnce, NEW k \in Keys
  PROVE  /\ KeyHolders(k) = {} => Minted[k] = None
         /\ \A r \in KeyHolders(k) : Minted[k] = r
<1>1. \A r, s \in KeyHolders(k) : r = s
  BY DEF KeyHolders, KeyedOnce
<1>2. \A r \in KeyHolders(k) : TheOnly(KeyHolders(k)) = r
  BY <1>1 DEF TheOnly
<1>3. QED BY <1>2 DEF Minted

LEMMA MintedFrame ==
  ASSUME rows' \cap SystemCalls = rows \cap SystemCalls
  PROVE  Minted' = Minted
<1>1. \A k : KeyHolders(k)' = KeyHolders(k)
  BY DEF KeyHolders
<1>2. QED BY <1>1 DEF Minted

LEMMA StepRefines ==
  TypeOK /\ KeyInv /\ KeyInv' /\ [Next]_vars => [Promise!AbsNext]_(Promise!absVars)
<1> SUFFICES ASSUME TypeOK, KeyInv, KeyInv', [Next]_vars
             PROVE  [Promise!AbsNext]_(Promise!absVars)
  OBVIOUS
<1>a. KeyedOnce /\ KeyedOnce' /\ WinnersHaveRows /\ Unanswered /\ PendingAlone
  BY DEF KeyInv
<1>b. /\ \A c \in SystemCalls : c \in Calls /\ c.key \in Keys /\ c # None
      /\ \A c \in PeerCalls : c \notin SystemCalls
  BY BadgeAssumption DEF Calls
<1>1. ASSUME rows' \cap SystemCalls = rows \cap SystemCalls, answer' = answer
      PROVE  [Promise!AbsNext]_(Promise!absVars)
  BY <1>1, MintedFrame DEF Promise!absVars
<1>2. ASSUME NEW c \in SystemCalls, CommitKeyed(c) PROVE Promise!Mint(c)
  <2>1. rows' = rows \cup {c} /\ answer' = answer
    BY <1>2 DEF CommitKeyed
  <2>2. KeyHolders(c.key) = {} /\ c.key \in Keys
    BY <1>2, <1>a, <1>b DEF CommitKeyed, PendingAlone
  <2>3. Minted[c.key] = None
    BY <1>a, <2>2, MintedIs
  <2>4. c \in KeyHolders(c.key)'
    BY <2>1 DEF KeyHolders
  <2>5. \A k \in Keys : k # c.key => KeyHolders(k)' = KeyHolders(k)
    BY <2>1 DEF KeyHolders
  <2>6. Minted' = [Minted EXCEPT ![c.key] = c]
    <3>1. \A r \in KeyHolders(c.key)' : r = c
      BY <1>a, <2>1, <2>2 DEF KeyHolders
    <3>2. Minted'[c.key] = c
      <4>1. TheOnly(KeyHolders(c.key)') = c
        BY <2>4, <3>1 DEF TheOnly
      <4>2. QED BY <2>2, <2>4, <4>1 DEF Minted
    <3>3. \A k \in Keys : k # c.key => Minted'[k] = Minted[k]
      BY <2>5 DEF Minted
    <3>4. Minted = [k \in Keys |-> Minted[k]] /\ Minted' = [k \in Keys |-> Minted'[k]]
      BY DEF Minted
    <3>5. [k \in Keys |-> Minted'[k]] = [Minted EXCEPT ![c.key] = c]
      BY <3>2, <3>3, <3>4, <2>2
    <3>6. QED BY <3>4, <3>5
  <2>7. QED BY <2>1, <2>3, <2>6 DEF Promise!Mint
<1>3. ASSUME NEW c \in SystemCalls, Converge(c) \/ Answer(c) PROVE Promise!Tell(c)
  <2>1. PICK r \in KeyHolders(c.key) : answer' = [answer EXCEPT ![c] = r]
    <3>1. CASE Converge(c)
      BY <3>1 DEF Converge
    <3>2. CASE Answer(c)
      <4>1. c \in KeyHolders(c.key)
        BY <1>a, <3>2 DEF Answer, WinnersHaveRows, KeyHolders
      <4>2. QED BY <3>2, <4>1 DEF Answer
    <3>3. QED BY <1>3, <3>1, <3>2
  <2>2. Minted[c.key] = r /\ r # None
    BY <1>a, <1>b, <2>1, MintedIs DEF KeyHolders
  <2>3. answer[c] = None
    BY <1>3, <1>a DEF Converge, Answer, Unanswered
  <2>4. Minted' = Minted
    BY <1>3, MintedFrame DEF Converge, Answer
  <2>5. QED BY <2>1, <2>2, <2>3, <2>4 DEF Promise!Tell
<1>4. ASSUME NEW c \in PeerCalls, grant_peer(c)
      PROVE  rows' \cap SystemCalls = rows \cap SystemCalls /\ answer' = answer
  BY <1>4, <1>b
  DEF grant_peer, Begin, FindBadge, Admit, LockPeerGrants, CountPeerGrants, CapReached,
      InsertPeer, Rollback
<1>5. ASSUME NEW c \in SystemCalls, grant_system(c)
      PROVE  [Promise!AbsNext]_(Promise!absVars)
  <2>1. CASE CommitKeyed(c) \/ Converge(c) \/ Answer(c)
    BY <2>1, <1>2, <1>3 DEF Promise!AbsNext
  <2>2. CASE Begin(c) \/ FindBadge(c) \/ InsertKeyed(c) \/ Conflict(c) \/ Rollback(c)
    BY <2>2, <1>1 DEF Begin, FindBadge, InsertKeyed, Conflict, Rollback
  <2>3. QED BY <1>5, <2>1, <2>2 DEF grant_system
<1>6. CASE NextMonth \/ (\E b \in Badges : EditBadge(b)) \/ UNCHANGED vars
  BY <1>1, <1>6 DEF NextMonth, EditBadge, vars
<1>7. QED BY <1>1, <1>4, <1>5, <1>6 DEF Next

(* The keyed grant implements ExactlyOnceGrants: rollbacks, redeliveries    *)
(* and conflicts only mint a free key or tell a caller of the row it has.   *)
THEOREM KeyedGrantImplementsItsPromise == Spec => ExactlyOnce
<1>1. Init => TypeOK /\ KeyInv
  BY InitTypeOK, InitKeyInv
<1>2. TypeOK /\ KeyInv /\ [Next]_vars => (TypeOK /\ KeyInv)'
  BY NextTypeOK, NextKeyInv
<1>3. Init => Promise!AbsInit
  BY DEF Init, Promise!AbsInit, Minted, KeyHolders
<1>4. QED BY <1>1, <1>2, <1>3, StepRefines, PTL DEF Spec, ExactlyOnce, Promise!AbsSpec

-----------------------------------------------------------------------------
(* Certifications.                                                          *)

(* A survey that a fact read on its badge is still there, unless a generic  *)
(* edit moved it.                                                           *)
Carried ==
  \A f \in Facts :
    step[f] = "resolved" /\ carried[f] # None
      => found[f] \in moved \/ survey[found[f]] = carried[f]

CertInv == TypeOK /\ CertTypeOK /\ Carried /\ LineageIsTheBadges

-----------------------------------------------------------------------------
(* The grants of two facts, or of one on two badges, are two calls.         *)
LEMMA GrantsDiffer ==
  ASSUME NEW f, NEW g, NEW b, NEW d, GrantOf(f, b) = GrantOf(g, d)
  PROVE  f = g /\ b = d
<1>1. GrantOf(f, b).id = f /\ GrantOf(g, d).id = g
  BY DEF GrantOf
<1>2. GrantOf(f, b).badge = b /\ GrantOf(g, d).badge = d
  BY DEF GrantOf
<1> QED BY <1>1, <1>2

LEMMA FactGrant ==
  ASSUME NEW f \in Facts, NEW b \in Named(f)
  PROVE  GrantOf(f, b) \in CertGrants /\ GrantOf(f, b) \in SystemCalls /\ b \in Badges
  BY CertificationAssumption DEF CertGrants, Named

(* The other grants leave alone a fact's grant that has not begun.          *)
LEMMA GrantsWait ==
  ASSUME TypeOK, Grants, NEW d \in CertGrants, pc[d] = "idle"
  PROVE  pc'[d] = "idle"
<1>a. d \in SystemCalls /\ d \in Calls /\ d \notin PeerCalls /\ PeerCalls \subseteq Calls
        /\ SystemCalls \subseteq Calls /\ pc \in [Calls -> Steps]
  BY CertificationAssumption, BadgeAssumption DEF CertGrants, Calls, TypeOK
<1>1. CASE NextMonth
  BY <1>1 DEF NextMonth
<1>2. ASSUME NEW b \in Badges, EditNamed(b) PROVE pc'[d] = "idle"
  BY <1>2 DEF EditNamed, EditBadge
<1>3. ASSUME NEW c \in PeerCalls, grant_peer(c) PROVE pc'[d] = "idle"
  <2>1. c # d /\ c \in Calls
    BY <1>a
  <2> QED BY <1>3, <1>a, <2>1
          DEF grant_peer, Begin, FindBadge, Admit, LockPeerGrants, CountPeerGrants, CapReached,
              InsertPeer, Rollback, Goto
<1>4. ASSUME NEW c \in SystemCalls, c \in CertGrants => pc[c] # "idle", grant_system(c)
      PROVE  pc'[d] = "idle"
  <2>1. c # d /\ c \in Calls
    BY <1>4, <1>a
  <2> QED BY <1>4, <1>a, <2>1
          DEF grant_system, Begin, FindBadge, InsertKeyed, Conflict, CommitKeyed, Converge,
              Answer, Rollback, Goto
<1> QED BY <1>1, <1>2, <1>3, <1>4 DEF Grants

(* Every step of a certification is a step of the grants or none.           *)
LEMMA CertStepGrants == CertInv /\ [CertNext]_allVars => [Next]_vars
<1> SUFFICES ASSUME CertInv, [CertNext]_allVars PROVE [Next]_vars
  OBVIOUS
<1>1. CASE Grants
  BY <1>1 DEF Grants, EditNamed, Next
<1>2. ASSUME NEW b \in Badges, EditSurvey(b) PROVE UNCHANGED vars
  BY <1>2 DEF EditSurvey
<1>3. ASSUME NEW f \in Facts, Grant(f) PROVE Next
  <2>1. found[f] \in Named(f)
    BY <1>3 DEF Grant, CertInv, CertTypeOK
  <2>2. GrantOf(f, found[f]) \in SystemCalls
    BY <2>1, FactGrant
  <2> QED BY <1>3, <2>2 DEF Grant, Next, grant_system
<1>4. ASSUME NEW f \in Facts, certification_passed(f), ~Grant(f) PROVE UNCHANGED vars
  BY <1>4 DEF certification_passed, Resolve, Stamp, StampRefused, Keep, Answered, Lost, Die
<1>5. CASE UNCHANGED allVars
  BY <1>5 DEF allVars
<1> QED BY <1>1, <1>2, <1>3, <1>4, <1>5 DEF CertNext

(* A step that leaves the survey a fact names or read where it is.          *)
LEMMA SurveysStay ==
  ASSUME CertInv, [CertNext]_allVars, NEW b \in Badges, survey[b] # None, b \notin moved'
  PROVE  survey'[b] = survey[b] /\ b \notin moved
<1>1. CASE Grants /\ UNCHANGED certVars
  BY <1>1 DEF certVars
<1>2. ASSUME NEW d \in Badges, EditSurvey(d) PROVE survey'[b] = survey[b] /\ b \notin moved
  <2>1. d # b /\ b \notin moved
    BY <1>2 DEF EditSurvey
  <2> QED BY <1>2, <2>1 DEF EditSurvey, CertInv, CertTypeOK
<1>3. ASSUME NEW f \in Facts, Stamp(f) PROVE survey'[b] = survey[b] /\ b \notin moved
  <2>1. found[f] # b
    BY <1>3 DEF Stamp, Stampable
  <2> QED BY <1>3, <2>1 DEF Stamp, CertInv, CertTypeOK
<1>4. ASSUME NEW f \in Facts, certification_passed(f), ~Stamp(f)
      PROVE  survey'[b] = survey[b] /\ b \notin moved
  BY <1>4 DEF certification_passed, Resolve, StampRefused, Keep, Grant, Answered, Lost, Die
<1>5. CASE UNCHANGED allVars
  BY <1>5 DEF allVars, certVars
<1> QED BY <1>1, <1>2, <1>3, <1>4, <1>5 DEF CertNext

-----------------------------------------------------------------------------
LEMMA InitCertInv == CertInit => CertInv
<1> SUFFICES ASSUME CertInit PROVE CertInv
  OBVIOUS
<1>1. Init /\ TypeOK
  BY InitTypeOK DEF CertInit
<1>2. \A f \in Facts : \A b \in Named(f) : pc[GrantOf(f, b)] = "idle"
  BY <1>1, FactGrant DEF Init, Calls
<1>3. CertTypeOK
  BY <1>2 DEF CertInit, CertTypeOK, CertSteps, Delivered
<1> QED BY <1>1, <1>3 DEF CertInit, CertInv, Carried, LineageIsTheBadges

LEMMA NextCertTypeOK == CertInv /\ [CertNext]_allVars => CertTypeOK'
<1> SUFFICES ASSUME CertInv, [CertNext]_allVars PROVE CertTypeOK'
  OBVIOUS
<1>a. TypeOK /\ CertTypeOK
  BY DEF CertInv
<1>b. \A f \in Facts : f.survey \in Surveys \cup {None}
  BY CertificationAssumption
<1>c. \A f \in Facts : \A b \in Named(f) : b \in Badges
  BY DEF Named
<1>1. CASE Grants /\ UNCHANGED certVars
  <2>1. \A f \in Facts : \A b \in Named(f) :
          pc'[GrantOf(f, b)] # "idle" => pc[GrantOf(f, b)] # "idle"
    BY <1>1, <1>a, FactGrant, GrantsWait
  <2> QED BY <1>1, <1>a, <2>1 DEF CertTypeOK, certVars
<1>2. ASSUME NEW b \in Badges, EditSurvey(b) PROVE CertTypeOK'
  BY <1>2, <1>a DEF EditSurvey, CertTypeOK, vars
<1>3. ASSUME NEW f \in Facts, Resolve(f) PROVE CertTypeOK'
  <2>1. \A b \in Named(f) : pc[GrantOf(f, b)] = "idle"
    BY <1>3, <1>a DEF Resolve, CertTypeOK
  <2>2. UNCHANGED <<pc, survey, moved, stamped, lineage>>
    BY <1>3 DEF Resolve, vars
  <2>3. CASE step' = [step EXCEPT ![f] = "unknown"] /\ UNCHANGED <<found, carried>>
    BY <1>a, <2>1, <2>2, <2>3 DEF CertTypeOK, CertSteps, Delivered
  <2>4. ASSUME NEW b \in Named(f), found' = [found EXCEPT ![f] = b],
               carried' = [carried EXCEPT ![f] = survey[b]], step' = [step EXCEPT ![f] = "resolved"]
        PROVE  CertTypeOK'
    <3>1. b \in Badges /\ survey[b] \in Surveys \cup {None}
      BY <1>a, <1>c DEF CertTypeOK
    <3> QED BY <1>a, <2>1, <2>2, <2>4, <3>1 DEF CertTypeOK, CertSteps, Delivered
  <2> QED BY <1>3, <2>3, <2>4 DEF Resolve, Advance
<1>4. ASSUME NEW f \in Facts, Stamp(f) PROVE CertTypeOK'
  <2>1. /\ UNCHANGED <<pc, moved, found, carried>> /\ found[f] \in Named(f)
        /\ survey' \in [Badges -> Surveys \cup {None}]
        /\ stamped' = stamped \cup {f} /\ lineage' = [lineage EXCEPT ![f] = f.survey]
        /\ step' = [step EXCEPT ![f] = "settled"] /\ step[f] = "resolved"
    BY <1>4, <1>a, <1>b DEF Stamp, Advance, CertTypeOK, vars
  <2> QED BY <1>a, <1>b, <2>1 DEF CertTypeOK, CertSteps, Delivered
<1>5. ASSUME NEW f \in Facts, StampRefused(f) PROVE CertTypeOK'
  BY <1>5, <1>a DEF StampRefused, CertTypeOK, Advance, CertSteps, Delivered, vars
<1>6. ASSUME NEW f \in Facts, Keep(f) PROVE CertTypeOK'
  <2>1. /\ UNCHANGED <<pc, survey, moved, found, carried, stamped>>
        /\ lineage' = [lineage EXCEPT ![f] = carried[f]]
        /\ step' = [step EXCEPT ![f] = "settled"] /\ step[f] = "resolved"
    BY <1>6 DEF Keep, Effective, Advance, vars
  <2> QED BY <1>a, <2>1 DEF CertTypeOK, CertSteps, Delivered
<1>7. ASSUME NEW f \in Facts, Grant(f) PROVE CertTypeOK'
  <2>1. found[f] \in Named(f) /\ step[f] = "settled"
    BY <1>7, <1>a DEF Grant, CertTypeOK
  <2>2. \A g \in Facts : \A b \in Named(g) :
          GrantOf(g, b) # GrantOf(f, found[f]) => pc'[GrantOf(g, b)] = pc[GrantOf(g, b)]
    BY <1>7 DEF Grant, Begin, Goto
  <2>3. ASSUME NEW g \in Facts, NEW b \in Named(g), pc'[GrantOf(g, b)] # "idle"
        PROVE  found'[g] = b /\ step'[g] \in {"granting", "failed", "answered"}
    <3>1. CASE GrantOf(g, b) = GrantOf(f, found[f])
      <4>1. g = f /\ b = found[f]
        BY <3>1, GrantsDiffer
      <4> QED BY <1>7, <1>a, <4>1 DEF Grant, Advance, CertTypeOK
    <3>2. CASE GrantOf(g, b) # GrantOf(f, found[f])
      <4>1. found[g] = b /\ step[g] \in {"granting", "failed", "answered"}
        BY <1>a, <2>2, <2>3, <3>2 DEF CertTypeOK
      <4> QED BY <1>7, <1>a, <4>1 DEF Grant, Advance, CertTypeOK
    <3> QED BY <3>1, <3>2
  <2> QED BY <1>7, <1>a, <2>1, <2>3 DEF Grant, CertTypeOK, Advance, CertSteps, Delivered
<1>8. ASSUME NEW f \in Facts, Answered(f) PROVE CertTypeOK'
  BY <1>8, <1>a DEF Answered, CertTypeOK, Advance, CertSteps, Delivered, vars
<1>9. ASSUME NEW f \in Facts, Lost(f) PROVE CertTypeOK'
  BY <1>9, <1>a DEF Lost, CertTypeOK, Advance, CertSteps, Delivered, vars
<1>10. ASSUME NEW f \in Facts, Die(f) PROVE CertTypeOK'
  BY <1>10, <1>a DEF Die, CertTypeOK, Advance, CertSteps, Delivered, vars
<1>11. CASE UNCHANGED allVars
  BY <1>11, <1>a DEF allVars, certVars, vars, CertTypeOK
<1> QED BY <1>1, <1>2, <1>3, <1>4, <1>5, <1>6, <1>7, <1>8, <1>9, <1>10, <1>11
        DEF CertNext, certification_passed

(* What a fact knows of its badge is still so: the survey it read there,    *)
(* and the one it names.                                                    *)
KnowsItsBadge(g) ==
  /\ step[g] = "resolved" /\ carried[g] # None
       => found[g] \in moved \/ survey[found[g]] = carried[g]
  /\ step[g] \in {"settled", "granting", "answered"} /\ lineage[g] # None
       => found[g] \in moved \/ survey[found[g]] = lineage[g]

(* It stays so whatever others do, and while the fact settles nothing.      *)
LEMMA KnowledgeStays ==
  ASSUME CertInv, [CertNext]_allVars, NEW g \in Facts,
         UNCHANGED <<found[g], carried[g], lineage[g]>>,
         step'[g] \in {"settled", "granting", "answered"}
           => step[g] \in {"settled", "granting", "answered"},
         step'[g] = "resolved" => step[g] = "resolved"
  PROVE  KnowsItsBadge(g)'
<1>a. CertTypeOK /\ Carried /\ LineageIsTheBadges
  BY DEF CertInv
<1>b. \A f \in Facts : Named(f) \subseteq Badges
  BY DEF Named
<1>c. moved \subseteq moved'
  BY DEF CertNext, certVars, allVars, EditSurvey, certification_passed, Resolve, Stamp,
         StampRefused, Keep, Grant, Answered, Lost, Die
<1>1. step[g] \in {"resolved", "settled", "granting", "answered"} => found[g] \in Badges
  BY <1>a, <1>b DEF CertTypeOK
<1>2. ASSUME NEW s, s # None, found[g] \in Badges, found[g] \in moved \/ survey[found[g]] = s
      PROVE  found[g] \in moved' \/ survey'[found[g]] = s
  BY <1>c, <1>2, SurveysStay
<1>3. step'[g] = "resolved" /\ carried'[g] # None
        => found'[g] \in moved' \/ survey'[found'[g]] = carried'[g]
  BY <1>a, <1>1, <1>2 DEF Carried
<1>4. step'[g] \in {"settled", "granting", "answered"} /\ lineage'[g] # None
        => found'[g] \in moved' \/ survey'[found'[g]] = lineage'[g]
  BY <1>a, <1>1, <1>2 DEF LineageIsTheBadges
<1> QED BY <1>3, <1>4 DEF KnowsItsBadge

LEMMA NextLineage ==
  CertInv /\ [CertNext]_allVars => Carried' /\ LineageIsTheBadges'
<1> SUFFICES ASSUME CertInv, [CertNext]_allVars, NEW g \in Facts PROVE KnowsItsBadge(g)'
  BY DEF KnowsItsBadge, Carried, LineageIsTheBadges
<1>a. CertTypeOK /\ Carried /\ LineageIsTheBadges
  BY DEF CertInv
<1>1. CASE Grants /\ UNCHANGED certVars
  BY <1>1, KnowledgeStays DEF certVars
<1>2. ASSUME NEW b \in Badges, EditSurvey(b) PROVE KnowsItsBadge(g)'
  BY <1>2, KnowledgeStays DEF EditSurvey
<1>3. ASSUME NEW f \in Facts, certification_passed(f), f # g PROVE KnowsItsBadge(g)'
  <2>1. UNCHANGED <<found[g], carried[g], lineage[g], step[g]>>
    BY <1>3, <1>a DEF certification_passed, Resolve, Stamp, StampRefused, Keep, Grant, Answered,
                      Lost, Die, Advance, CertTypeOK
  <2> QED BY <2>1, KnowledgeStays
<1>4. CASE Resolve(g)
  BY <1>4, <1>a DEF Resolve, Advance, CertTypeOK, KnowsItsBadge
<1>5. CASE Stamp(g)
  <2>1. found[g] \in Badges /\ found'[g] = found[g]
    BY <1>5, <1>a DEF Stamp, CertTypeOK, Named
  <2> QED BY <1>5, <1>a, <2>1 DEF Stamp, Advance, CertTypeOK, KnowsItsBadge
<1>6. CASE Keep(g)
  <2>1. lineage'[g] = carried[g] /\ step[g] = "resolved" /\ step'[g] = "settled"
          /\ UNCHANGED <<found, survey, moved>>
    BY <1>6, <1>a DEF Keep, Effective, Advance, CertTypeOK
  <2> QED BY <1>a, <2>1 DEF Carried, KnowsItsBadge
<1>7. CASE Grant(g) \/ Answered(g)
  BY <1>7, <1>a, KnowledgeStays DEF Grant, Answered, Advance, CertTypeOK
<1>8. CASE StampRefused(g) \/ Lost(g) \/ Die(g)
  BY <1>8, <1>a, KnowledgeStays DEF StampRefused, Lost, Die, Advance, CertTypeOK
<1>9. CASE UNCHANGED allVars
  BY <1>9, KnowledgeStays DEF allVars, certVars
<1> QED BY <1>1, <1>2, <1>3, <1>4, <1>5, <1>6, <1>7, <1>8, <1>9
        DEF CertNext, certification_passed

(* The invariant of certifications: the types, what each fact read and what *)
(* it tells of its badge, at every step of every fact beside any grants.    *)
THEOREM CertInvariant == CertSpec => []CertInv
<1>1. CertInv /\ [CertNext]_allVars => CertInv'
  BY CertStepGrants, NextTypeOK, NextCertTypeOK, NextLineage DEF CertInv
<1> QED BY InitCertInv, <1>1, PTL DEF CertSpec

(* A fact's grant runs only on the badge it found, after its lineage is     *)
(* settled: certification_passed never grants twice for one delivery.       *)
THEOREM CertTypeCorrect == CertSpec => []CertTypeOK
<1>1. CertInv => CertTypeOK
  BY DEF CertInv
<1> QED BY CertInvariant, <1>1, PTL

(* "the EFFECTIVE lineage": the survey an answer names is the one its badge *)
(* carries, whatever races stamped it, until a generic edit moves it.       *)
THEOREM LineageIsKept == CertSpec => []LineageIsTheBadges
<1>1. CertInv => LineageIsTheBadges
  BY DEF CertInv
<1> QED BY CertInvariant, <1>1, PTL

(* stamp_badge_survey_lineage's WHERE survey_id IS NULL: the first          *)
(* certification of a badge keeps it from all later ones.                   *)
THEOREM FirstCertificationKeepsTheBadge == CertSpec => FirstCertificationWins
<1>1. CertInv /\ [CertNext]_allVars
        => [\A b \in Badges : survey[b] # None /\ b \notin moved' => survey'[b] = survey[b]]_allVars
  BY SurveysStay
<1> QED BY CertInvariant, <1>1, PTL DEF CertSpec, FirstCertificationWins

(* A certification grants through grant_system and nothing else: beside any *)
(* facts the grants behave as BadgeGrants says.                             *)
THEOREM CertificationsAreGrants == CertSpec => Spec
<1>1. CertInit => Init
  BY DEF CertInit
<1> QED BY CertInvariant, CertStepGrants, <1>1, PTL DEF CertSpec, Spec

(* ... so that a redelivered fact adds no grant: one keyed grant per key    *)
(* and badge among every fact and every other system call.                  *)
THEOREM CertifiedOnce == CertSpec => ExactlyOnce
  BY CertificationsAreGrants, KeyedGrantImplementsItsPromise, PTL
=============================================================================
