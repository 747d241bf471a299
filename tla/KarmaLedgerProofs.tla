-------------------------- MODULE KarmaLedgerProofs --------------------------
(***************************************************************************)
(* Proofs about KarmaLedger, for any users, calls, movements, lock-key     *)
(* hash and balance width: type correctness, that every committed row      *)
(* starts from the projection over the rows before it, and that no         *)
(* movement is lost while appends commit in the order they began.          *)
(***************************************************************************)
EXTENDS KarmaLedger, TLAPS

Holding == {"locked", "read"}

(* A transaction past its lock statement holds its user's key.              *)
HoldsItsLock ==
  \A t \in Txns : pc[t] \in Holding => lock[HashText[user[t]]] = t

(* Row ids are never drawn twice.                                           *)
IdsDistinct ==
  \A i, j \in 1..Len(ledger) : ledger[i].id = ledger[j].id => i = j

(* A user with rows has a newest one: the ORDER BY has a first row.         *)
NewestExists ==
  \A u \in Users : RowsOf(Len(ledger), u) # {} => Newest(Len(ledger), u) # {}

(* What a lock holder has read is still the projection.                     *)
ReadStillCurrent ==
  \A t \in Txns : pc[t] = "read" => old[t] = Balance(user[t])

IInv ==
  /\ TypeOK
  /\ HoldsItsLock
  /\ IdsDistinct
  /\ NewestExists
  /\ ReadStillCurrent
  /\ RowReadsProjection

-----------------------------------------------------------------------------
LEMMA AddI32Int == \A a, b \in Int : AddI32(a, b) \in Int
  BY KarmaAssumption DEF AddI32

(* An append leaves the rows before it, and everything computed from them,  *)
(* as they were.                                                            *)
LEMMA PrefixUnchanged ==
  ASSUME ledger \in Seq(Row), NEW r \in Row, ledger' = Append(ledger, r),
         NEW k \in Nat, k <= Len(ledger), NEW u \in Users
  PROVE  /\ RowsOf(k, u)' = RowsOf(k, u)
         /\ Newest(k, u)' = Newest(k, u)
         /\ Projection(k, u)' = Projection(k, u)
<1>1. \A i \in 1..k : ledger'[i] = ledger[i]
  OBVIOUS
<1>2. RowsOf(k, u)' = RowsOf(k, u)
  BY <1>1 DEF RowsOf
<1>3. RowsOf(k, u) \subseteq 1..k
  BY DEF RowsOf
<1>4. \A i, j \in 1..k : Before(i, j)' <=> Before(i, j)
  BY <1>1 DEF Before
<1>5. Newest(k, u)' = Newest(k, u)
  <2>1. Newest(k, u)' = {i \in RowsOf(k, u) :
                           \A j \in RowsOf(k, u) \ {i} : Before(j, i)'}
    BY <1>2 DEF Newest
  <2>2. QED BY <2>1, <1>3, <1>4 DEF Newest
<1>6. {ledger[i].new_value : i \in Newest(k, u)}'
        = {ledger[i].new_value : i \in Newest(k, u)}
  <2>1. Newest(k, u) \subseteq 1..k
    BY <1>3 DEF Newest
  <2>2. {ledger[i].new_value : i \in Newest(k, u)}'
          = {ledger'[i].new_value : i \in Newest(k, u)}
    BY <1>5
  <2>3. QED BY <1>1, <2>1, <2>2
<1>7. QED BY <1>2, <1>5, <1>6 DEF Projection

(* Balances are i32 once a user's rows have a newest one.                   *)
LEMMA BalanceInt ==
  ASSUME TypeOK, NewestExists, NEW u \in Users
  PROVE  Balance(u) \in Int
<1>1. CASE RowsOf(Len(ledger), u) = {}
  BY <1>1 DEF Balance, Projection
<1>2. CASE RowsOf(Len(ledger), u) # {}
  <2> DEFINE V == {ledger[i].new_value : i \in Newest(Len(ledger), u)}
  <2>1. V # {}
    BY <1>2 DEF NewestExists
  <2>2. V \subseteq Int
    <3>1. \A i \in 1..Len(ledger) : ledger[i] \in Row
      BY DEF TypeOK
    <3>2. Newest(Len(ledger), u) \subseteq 1..Len(ledger)
      BY DEF Newest, RowsOf
    <3>3. QED BY <3>1, <3>2 DEF Row
  <2>3. TheOnly(V) \in V
    BY <2>1 DEF TheOnly
  <2>4. Balance(u) = TheOnly(V)
    BY <1>2 DEF Balance, Projection
  <2>5. QED BY <2>2, <2>3, <2>4
<1>3. QED BY <1>1, <1>2

LEMMA InitIInv == Init => IInv
<1> SUFFICES ASSUME Init PROVE IInv
  OBVIOUS
<1>1. TypeOK
  <2>1. \A k \in LockKeys : lock[k] = NoTxn
    BY DEF Init
  <2>2. QED
    BY <2>1, KarmaAssumption DEF Init, TypeOK
<1>2. Len(ledger) = 0
  BY DEF Init
<1>3. \A u \in Users : RowsOf(Len(ledger), u) = {}
  BY <1>2 DEF RowsOf
<1>4. QED
  BY <1>1, <1>2, <1>3
  DEF Init, IInv, HoldsItsLock, Holding, IdsDistinct, NewestExists,
      ReadStillCurrent, RowReadsProjection

(* Every statement that inserts nothing: the ledger, and so every           *)
(* projection over it, stays as it is.                                      *)
LEMMA LedgerUnchanged ==
  ASSUME UNCHANGED ledger
  PROVE  /\ \A u \in Users : Balance(u)' = Balance(u)
         /\ IdsDistinct => IdsDistinct'
         /\ NewestExists => NewestExists'
         /\ RowReadsProjection => RowReadsProjection'
<1>1. \A k, u : RowsOf(k, u)' = RowsOf(k, u)
  BY DEF RowsOf
<1>2. \A k, u : Newest(k, u)' = Newest(k, u)
  BY <1>1 DEF Newest, Before
<1>3. \A k, u : Projection(k, u)' = Projection(k, u)
  BY <1>1, <1>2 DEF Projection
<1>4. QED
  BY <1>1, <1>2, <1>3 DEF Balance, IdsDistinct, NewestExists, RowReadsProjection

(* The step that commits a row.                                             *)
LEMMA AppendRowKeepsIInv ==
  ASSUME IInv, NEW t \in Txns, AppendRow(t)
  PROVE  IInv'
<1>a. TypeOK /\ HoldsItsLock /\ IdsDistinct /\ NewestExists /\ ReadStillCurrent
        /\ RowReadsProjection
  BY DEF IInv
<1>b. PICK id \in RowIds \ UsedIds : ledger' = Append(ledger, NewRow(t, id))
  BY DEF AppendRow
<1>n. PICK n \in Nat, w \in Users, r \in {NewRow(t, id)} :
             n = Len(ledger) /\ w = user[t] /\ r = NewRow(t, id)
  BY <1>a DEF TypeOK
<1>c. r \in Row
  BY <1>a, <1>n, AddI32Int, KarmaAssumption DEF TypeOK, Row, NewRow
<1>d. /\ ledger \in Seq(Row)
      /\ Len(ledger) = n
      /\ ledger' = Append(ledger, r)
      /\ Len(ledger') = n + 1
      /\ ledger'[n + 1] = r
      /\ \A i \in 1..n : ledger'[i] = ledger[i]
      /\ r.id = id /\ r.user = w /\ r.old_value = old[t]
  BY <1>a, <1>b, <1>c, <1>n DEF TypeOK, NewRow
<1>e. \A k \in Nat, u \in Users : k <= n =>
        /\ RowsOf(k, u)' = RowsOf(k, u)
        /\ Newest(k, u)' = Newest(k, u)
        /\ Projection(k, u)' = Projection(k, u)
  BY <1>c, <1>d, PrefixUnchanged
<1>f. lock[HashText[w]] = t /\ pc[t] = "read"
  BY <1>a, <1>n DEF HoldsItsLock, Holding, AppendRow
<1>g. \A u \in Users : u # w =>
        /\ RowsOf(n + 1, u)' = RowsOf(n, u)
        /\ Newest(n + 1, u)' = Newest(n, u)
        /\ Projection(n + 1, u)' = Projection(n, u)
  <2> SUFFICES ASSUME NEW u \in Users, u # w
               PROVE  /\ RowsOf(n + 1, u)' = RowsOf(n, u)
                      /\ Newest(n + 1, u)' = Newest(n, u)
                      /\ Projection(n + 1, u)' = Projection(n, u)
    OBVIOUS
  <2>1. RowsOf(n + 1, u)' = RowsOf(n, u)'
    BY <1>d DEF RowsOf
  <2>2. Newest(n + 1, u)' = Newest(n, u)'
    BY <2>1 DEF Newest
  <2>3. Projection(n + 1, u)' = Projection(n, u)'
    BY <2>1, <2>2 DEF Projection
  <2>4. QED BY <2>1, <2>2, <2>3, <1>d, <1>e
<1>1. TypeOK'
  <2>1. ledger' \in Seq(Row)
    BY <1>b, <1>c, <1>d
  <2>2. QED
    BY <1>a, <2>1 DEF TypeOK, AppendRow, Unlock
<1>2. HoldsItsLock'
  BY <1>a, <1>f DEF TypeOK, HoldsItsLock, Holding, AppendRow, Unlock, LockKeys
<1>3. IdsDistinct'
  <2>1. \A i \in 1..n : ledger[i].id # id
    BY <1>b, <1>n DEF UsedIds
  <2>2. QED BY <1>a, <1>d, <2>1 DEF IdsDistinct
<1>4. NewestExists'
  <2> SUFFICES ASSUME NEW u \in Users, RowsOf(n + 1, u)' # {}
               PROVE  Newest(n + 1, u)' # {}
    BY <1>d DEF NewestExists
  <2>1. CASE u # w
    <3>1. Newest(n, u) # {}
      BY <2>1, <1>a, <1>d, <1>g DEF NewestExists
    <3>2. QED BY <2>1, <3>1, <1>g
  <2>2. CASE u = w
    <3>1. RowsOf(n + 1, w)' = RowsOf(n, w) \cup {n + 1}
      <4>1. RowsOf(n + 1, w)' = RowsOf(n, w)' \cup {n + 1}
        BY <1>d DEF RowsOf
      <4>2. QED BY <4>1, <1>d, <1>e
    <3>2. RowsOf(n, w) \subseteq 1..n
      BY DEF RowsOf
    <3>3. CASE RowsOf(n, w) = {}
      <4>1. n + 1 \in Newest(n + 1, w)'
        BY <3>1, <3>3 DEF Newest
      <4>2. QED BY <4>1, <2>2
    <3>4. ASSUME NEW m \in Newest(n, w)
          PROVE  Newest(n + 1, w)' # {}
      <4>1. m \in RowsOf(n, w) /\ m \in 1..n
        BY <3>2 DEF Newest
      <4>2. \A j \in RowsOf(n, w) \ {m} : Before(j, m)
        BY DEF Newest
      <4>3. \A i \in 1..(n + 1) : ledger'[i].date \in Nat /\ ledger'[i].id \in Nat
        <5>1. \A i \in 1..(n + 1) : ledger'[i] \in Row
          BY <1>c, <1>d
        <5>2. QED BY <5>1, KarmaAssumption DEF Row
      <4>4. \A j \in RowsOf(n, w) \ {m} : Before(j, m)'
        BY <4>1, <4>2, <3>2, <1>d DEF Before
      <4>5. ledger'[m].id # ledger'[n + 1].id
        BY <4>1, <1>b, <1>d DEF UsedIds
      <4>6. CASE Before(m, n + 1)'
        <5>1. \A j \in RowsOf(n, w) : Before(j, n + 1)'
          <6>1. SUFFICES ASSUME NEW j \in RowsOf(n, w), j # m
                         PROVE  Before(j, n + 1)'
            BY <4>6
          <6>2. Before(j, m)' /\ j \in 1..(n + 1) /\ m \in 1..(n + 1)
            BY <6>1, <4>1, <4>4, <3>2
          <6>3. QED BY <6>2, <4>3, <4>6 DEF Before
        <5>2. n + 1 \in Newest(n + 1, w)'
          BY <5>1, <3>1 DEF Newest
        <5>3. QED BY <5>2
      <4>7. CASE ~Before(m, n + 1)'
        <5>1. Before(n + 1, m)'
          BY <4>1, <4>3, <4>5, <4>7, <1>d DEF Before
        <5>2. m \in Newest(n + 1, w)'
          BY <5>1, <4>1, <4>4, <3>1 DEF Newest
        <5>3. QED BY <5>2
      <4>8. QED BY <4>6, <4>7
    <3>5. QED BY <3>3, <3>4, <2>2, <1>a, <1>d DEF NewestExists
  <2>3. QED BY <2>1, <2>2
<1>5. ReadStillCurrent'
  <2> SUFFICES ASSUME NEW s \in Txns, pc'[s] = "read"
               PROVE  old'[s] = Balance(user[s])'
    BY DEF ReadStillCurrent
  <2>1. s # t /\ pc[s] = "read" /\ old' = old /\ user' = user
    BY <1>a DEF AppendRow, TypeOK
  <2>2. PICK v \in Users : v = user[s] /\ v = user'[s] /\ v # w
    BY <2>1, <1>a, <1>f, <1>n DEF HoldsItsLock, Holding, TypeOK
  <2>3. Balance(user[s])' = Projection(n + 1, v)'
    BY <1>d, <2>2 DEF Balance
  <2>4. Projection(n + 1, v)' = Projection(n, v)
    BY <1>g, <2>2
  <2>5. old[s] = Projection(n, v)
    BY <2>1, <2>2, <1>a, <1>n DEF ReadStillCurrent, Balance
  <2>6. QED BY <2>1, <2>3, <2>4, <2>5
<1>6. RowReadsProjection'
  <2> SUFFICES ASSUME NEW i \in 1..(n + 1)
               PROVE  ledger'[i].old_value = Projection(i - 1, ledger[i].user)'
    BY <1>d DEF RowReadsProjection
  <2>1. CASE i \in 1..n
    <3>1. ledger[i] \in Row /\ i - 1 \in Nat /\ i - 1 <= n
      BY <2>1, <1>d
    <3>2. ledger'[i] = ledger[i] /\ ledger[i].user \in Users
      BY <2>1, <3>1, <1>d DEF Row
    <3>3. Projection(i - 1, ledger[i].user)' = Projection(i - 1, ledger[i].user)
      <4>1. \A u \in Users : Projection(i - 1, u)' = Projection(i - 1, u)
        BY <1>e, <3>1
      <4>2. PICK u \in Users : u = ledger[i].user /\ u = ledger'[i].user
        BY <3>2
      <4>3. Projection(i - 1, ledger[i].user)' = Projection(i - 1, u)'
        BY <4>2
      <4>4. QED BY <4>1, <4>2, <4>3
    <3>4. QED
      BY <1>a, <2>1, <1>d, <3>2, <3>3 DEF RowReadsProjection
  <2>2. CASE i = n + 1
    <3>1. ledger'[i].old_value = old[t] /\ ledger'[i].user = w /\ i - 1 = n
      BY <2>2, <1>d
    <3>2. old[t] = Projection(n, w)
      BY <1>a, <1>f, <1>n DEF ReadStillCurrent, Balance
    <3>3. Projection(n, w)' = Projection(n, w)
      BY <1>d, <1>e
    <3>4. Projection(i - 1, ledger[i].user)' = Projection(n, w)'
      BY <3>1 DEF Projection, Newest, RowsOf
    <3>5. QED BY <3>1, <3>2, <3>3, <3>4
  <2>3. QED BY <2>1, <2>2
<1>7. QED BY <1>1, <1>2, <1>3, <1>4, <1>5, <1>6 DEF IInv

(* One step per statement of the append verb.                               *)
LEMMA NextIInv == IInv /\ [Next]_vars => IInv'
<1> SUFFICES ASSUME IInv, [Next]_vars PROVE IInv'
  OBVIOUS
<1>a. TypeOK /\ HoldsItsLock /\ IdsDistinct /\ NewestExists /\ ReadStillCurrent
        /\ RowReadsProjection
  BY DEF IInv
<1>1. CASE Tick
  <2>1. TypeOK' /\ HoldsItsLock'
    BY <1>a, <1>1 DEF Tick, TypeOK, HoldsItsLock
  <2>2. ReadStillCurrent'
    BY <1>a, <1>1, LedgerUnchanged DEF Tick, TypeOK, ReadStillCurrent
  <2>3. QED BY <1>a, <1>1, <2>1, <2>2, LedgerUnchanged DEF Tick, IInv
<1>2. ASSUME NEW t \in Txns, Begin(t) PROVE IInv'
  <2>1. TypeOK' /\ HoldsItsLock'
    BY <1>a, <1>2 DEF Begin, TypeOK, HoldsItsLock, Holding
  <2>2. ReadStillCurrent'
    BY <1>a, <1>2, LedgerUnchanged DEF Begin, TypeOK, ReadStillCurrent
  <2>3. QED BY <1>a, <1>2, <2>1, <2>2, LedgerUnchanged DEF Begin, IInv
<1>3. ASSUME NEW t \in Txns, LockUserLedger(t) PROVE IInv'
  <2>1. HashText[user[t]] \in LockKeys
    BY <1>a DEF TypeOK, LockKeys
  <2>2. TypeOK'
    BY <1>a, <1>3, <2>1 DEF LockUserLedger, TypeOK
  <2>3. HoldsItsLock'
    BY <1>a, <1>3, <2>1, KarmaAssumption
    DEF LockUserLedger, TypeOK, HoldsItsLock, Holding
  <2>4. ReadStillCurrent'
    BY <1>a, <1>3, LedgerUnchanged DEF LockUserLedger, TypeOK, ReadStillCurrent
  <2>5. QED BY <1>a, <1>3, <2>2, <2>3, <2>4, LedgerUnchanged DEF LockUserLedger, IInv
<1>4. ASSUME NEW t \in Txns, ReadBalance(t) PROVE IInv'
  <2>1. PICK v \in Users : v = user[t]
    BY <1>a DEF TypeOK
  <2>2. Balance(v) \in Int
    BY <1>a, BalanceInt
  <2>3. TypeOK' /\ HoldsItsLock'
    BY <1>a, <1>4, <2>1, <2>2 DEF ReadBalance, TypeOK, HoldsItsLock, Holding
  <2>4. ReadStillCurrent'
    <3>1. \A u \in Users : Balance(u)' = Balance(u)
      BY <1>4, LedgerUnchanged DEF ReadBalance
    <3>2. SUFFICES ASSUME NEW s \in Txns, pc'[s] = "read"
                   PROVE  old'[s] = Balance(user[s])'
      BY DEF ReadStillCurrent
    <3>3. PICK x \in Users : x = user[s] /\ x = user'[s]
      BY <1>a, <1>4 DEF TypeOK, ReadBalance
    <3>4. old'[s] = Balance(x)
      BY <1>a, <1>4, <3>2, <3>3, <2>1 DEF TypeOK, ReadBalance, ReadStillCurrent
    <3>5. Balance(user[s])' = Balance(x)'
      BY <3>3 DEF Balance
    <3>6. QED BY <3>1, <3>4, <3>5
  <2>5. QED BY <1>a, <1>4, <2>3, <2>4, LedgerUnchanged DEF ReadBalance, IInv
<1>5. ASSUME NEW t \in Txns, AppendRow(t) PROVE IInv'
  BY <1>5, AppendRowKeepsIInv
<1>6. ASSUME NEW t \in Txns, Rollback(t) PROVE IInv'
  <2>1. TypeOK'
    BY <1>a, <1>6 DEF Rollback, Unlock, TypeOK
  <2>2. HoldsItsLock'
    BY <1>a, <1>6 DEF Rollback, Unlock, TypeOK, HoldsItsLock, Holding, LockKeys
  <2>3. ReadStillCurrent'
    BY <1>a, <1>6, LedgerUnchanged DEF Rollback, TypeOK, ReadStillCurrent
  <2>4. QED BY <1>a, <1>6, <2>1, <2>2, <2>3, LedgerUnchanged DEF Rollback, IInv
<1>7. CASE UNCHANGED vars
  <2>1. TypeOK' /\ HoldsItsLock'
    BY <1>a, <1>7 DEF vars, TypeOK, HoldsItsLock
  <2>2. ReadStillCurrent'
    BY <1>a, <1>7, LedgerUnchanged DEF vars, TypeOK, ReadStillCurrent
  <2>3. QED BY <1>a, <1>7, <2>1, <2>2, LedgerUnchanged DEF vars, IInv
<1>8. QED
  BY <1>1, <1>2, <1>3, <1>4, <1>5, <1>6, <1>7 DEF Next, append_karma

(* The variables of the ledger keep their types whatever the interleaving;  *)
(* in particular the projection the next append reads is always an integer. *)
THEOREM TypeCorrect == Spec => []TypeOK
<1>1. IInv => TypeOK
  BY DEF IInv
<1>2. QED BY InitIInv, NextIInv, <1>1, PTL DEF Spec

(* Under the advisory lock every append computes from the projection over   *)
(* exactly the rows committed before its own, even when two users' ids hash *)
(* to one lock key and however balances wrap.                               *)
THEOREM AppendsReadTheProjection == Spec => []RowReadsProjection
<1>1. IInv => RowReadsProjection
  BY DEF IInv
<1>2. QED BY InitIInv, NextIInv, <1>1, PTL DEF Spec

-----------------------------------------------------------------------------
(* The projection is the new_value of the row that comes after all others.  *)
LEMMA ProjectionIsNewest ==
  ASSUME TypeOK, NEW u \in Users, NEW k \in Nat, k <= Len(ledger),
         NEW i \in RowsOf(k, u), \A j \in RowsOf(k, u) \ {i} : Before(j, i)
  PROVE  Projection(k, u) = ledger[i].new_value
<1>1. RowsOf(k, u) \subseteq 1..Len(ledger)
  BY DEF RowsOf, TypeOK
<1>2. \A j \in RowsOf(k, u) : ledger[j].date \in Nat /\ ledger[j].id \in Nat
  <2>1. \A j \in RowsOf(k, u) : ledger[j] \in Row
    BY <1>1 DEF TypeOK
  <2>2. QED BY <2>1, KarmaAssumption DEF Row
<1>3. Newest(k, u) = {i}
  <2>1. i \in Newest(k, u)
    BY DEF Newest
  <2>2. ASSUME NEW m \in Newest(k, u), m # i PROVE FALSE
    <3>1. m \in RowsOf(k, u) /\ Before(i, m) /\ Before(m, i)
      BY <2>2 DEF Newest
    <3>2. QED BY <3>1, <1>2 DEF Before
  <2>3. QED BY <2>1, <2>2
<1>4. {ledger[j].new_value : j \in Newest(k, u)} = {ledger[i].new_value}
  BY <1>3
<1>5. \A x : TheOnly({x}) = x
  BY DEF TheOnly
<1>6. QED BY <1>4, <1>5 DEF Projection

(* While the rows of a user are in start order, each one starts from the    *)
(* balance the row before it left, and the last one's is the balance.       *)
THEOREM NoDeltaLost == Spec => []NoDeltaLostInStartOrder
<1>1. IInv => NoDeltaLostInStartOrder
  <2> SUFFICES ASSUME IInv, NEW u \in Users, InStartOrder(u)
               PROVE  /\ \A i, j \in RowsOf(Len(ledger), u) :
                           Consecutive(u, i, j) => ledger[j].old_value = ledger[i].new_value
                      /\ \A i \in RowsOf(Len(ledger), u) :
                           (\A j \in RowsOf(Len(ledger), u) : j <= i)
                             => Balance(u) = ledger[i].new_value
    BY DEF NoDeltaLostInStartOrder
  <2>a. TypeOK /\ RowReadsProjection /\ Len(ledger) \in Nat
    BY DEF IInv, TypeOK
  <2>1. ASSUME NEW i \in RowsOf(Len(ledger), u), NEW j \in RowsOf(Len(ledger), u),
               Consecutive(u, i, j)
        PROVE  ledger[j].old_value = ledger[i].new_value
    <3>1. /\ i \in 1..Len(ledger) /\ j \in 1..Len(ledger) /\ i < j
          /\ ledger[i].user = u /\ ledger[j].user = u
      BY <2>1 DEF Consecutive, RowsOf
    <3>2. i \in RowsOf(j - 1, u)
      BY <3>1, <2>a DEF RowsOf
    <3>3. \A k \in RowsOf(j - 1, u) \ {i} : Before(k, i)
      <4> SUFFICES ASSUME NEW k \in RowsOf(j - 1, u), k # i PROVE Before(k, i)
        OBVIOUS
      <4>1. k \in RowsOf(Len(ledger), u) /\ k < j /\ k \in 1..Len(ledger)
        BY <3>1, <2>a DEF RowsOf
      <4>2. k < i
        BY <4>1, <3>1, <2>1 DEF Consecutive
      <4>3. QED BY <4>1, <4>2 DEF InStartOrder
    <3>4. j - 1 \in Nat /\ j - 1 <= Len(ledger)
      BY <3>1, <2>a
    <3>5. Projection(j - 1, u) = ledger[i].new_value
      BY <2>a, <3>2, <3>3, <3>4, ProjectionIsNewest
    <3>6. QED BY <2>a, <3>1, <3>5 DEF RowReadsProjection
  <2>2. ASSUME NEW i \in RowsOf(Len(ledger), u), \A j \in RowsOf(Len(ledger), u) : j <= i
        PROVE  Balance(u) = ledger[i].new_value
    <3>1. \A j \in RowsOf(Len(ledger), u) \ {i} : Before(j, i)
      <4> SUFFICES ASSUME NEW j \in RowsOf(Len(ledger), u), j # i PROVE Before(j, i)
        OBVIOUS
      <4>1. i \in 1..Len(ledger) /\ j \in 1..Len(ledger) /\ j <= i
        BY <2>2 DEF RowsOf
      <4>2. j < i
        BY <4>1, <2>a
      <4>3. QED BY <4>2 DEF InStartOrder
    <3>2. QED BY <2>a, <3>1, ProjectionIsNewest DEF Balance
  <2>3. QED BY <2>1, <2>2
<1>2. QED BY InitIInv, NextIInv, <1>1, PTL DEF Spec
=============================================================================
