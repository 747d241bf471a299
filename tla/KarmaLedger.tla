----------------------------- MODULE KarmaLedger -----------------------------
(***************************************************************************)
(* The append-only karma ledger: the append verb of the gamification write *)
(* service over the table gamification_karma_trackings.                    *)
(*                                                                         *)
(* One append is one READ COMMITTED transaction: BEGIN, the per-user       *)
(* advisory lock, the projection read, the INSERT, COMMIT.  The table      *)
(* dates a row DEFAULT NOW(), which PostgreSQL evaluates to the START of   *)
(* the transaction, and the balance is the newest row BY THAT DATE: the    *)
(* order in which transactions begin and the order in which they take the  *)
(* lock are two different orders, and the model keeps both.                *)
(*                                                                         *)
(* The argument checks that run before BEGIN (origin kind, reason length)  *)
(* touch no state and are left out.                                        *)
(***************************************************************************)
EXTENDS Integers, Sequences

CONSTANTS
  Users,      (* the users whose ledgers are modelled                        *)
  Txns,       (* one identity per call of append_karma                       *)
  Deltas,     (* the balance movements callers ask for                       *)
  HashText,   (* hashtext(user): the advisory-lock key a user's appends take *)
  RowIds,     (* row ids, drawn at random by the caller (Uuid::new_v4)       *)
  HalfRange,  (* balances are i32: they wrap modulo 2 * HalfRange            *)
  MaxClock,   (* bound on the database clock                                 *)
  NoTxn       (* the value of a free lock                                    *)

ASSUME KarmaAssumption ==
  /\ Deltas \subseteq Int
  /\ RowIds \subseteq Nat
  /\ HalfRange \in Nat \ {0}
  /\ MaxClock \in Nat
  /\ NoTxn \notin Txns
  /\ DOMAIN HashText = Users

LockKeys == {HashText[u] : u \in Users}

VARIABLES
  clock,   (* the database clock, read by NOW()                              *)
  ledger,  (* the committed rows, in commit order                            *)
  lock,    (* per lock key, the transaction holding the advisory lock        *)
  pc,      (* per transaction, the last statement it completed               *)
  user,    (* per transaction, the user_id argument                          *)
  delta,   (* per transaction, the delta argument                            *)
  began,   (* per transaction, its NOW(): the clock when it began            *)
  old      (* per transaction, old_value: the projection it read             *)

vars == <<clock, ledger, lock, pc, user, delta, began, old>>

Row == [id : RowIds, user : Users, date : Nat, old_value : Int, new_value : Int]

(* i32 addition of the release profile: two's complement wrap-around.  (A   *)
(* build with overflow checks panics instead and the transaction rolls      *)
(* back, which is Rollback below.)                                          *)
AddI32(a, b) == ((a + b + HalfRange) % (2 * HalfRange)) - HalfRange

(***************************************************************************)
(* The balance projection: ORDER BY tracking_date DESC, id DESC LIMIT 1,   *)
(* here over the first k committed rows.                                   *)
(***************************************************************************)
RowsOf(k, u) == {i \in 1..k : ledger[i].user = u}

Before(i, j) ==
  \/ ledger[i].date < ledger[j].date
  \/ ledger[i].date = ledger[j].date /\ ledger[i].id < ledger[j].id

(* Mutant of Newest: ORDER BY ... ASC.                                      *)
Oldest(k, u) ==
  {i \in RowsOf(k, u) : \A j \in RowsOf(k, u) \ {i} : Before(i, j)}

Newest(k, u) ==
  {i \in RowsOf(k, u) : \A j \in RowsOf(k, u) \ {i} : Before(j, i)}

TheOnly(S) == CHOOSE x \in S : TRUE

Projection(k, u) ==
  IF RowsOf(k, u) = {} THEN 0 ELSE TheOnly({ledger[i].new_value : i \in Newest(k, u)})

Balance(u) == Projection(Len(ledger), u)

-----------------------------------------------------------------------------
Init ==
  /\ clock = 0
  /\ ledger = << >>
  /\ lock = [k \in LockKeys |-> NoTxn]
  /\ pc = [t \in Txns |-> "idle"]
  /\ user \in [Txns -> Users]
  /\ delta \in [Txns -> Deltas]
  /\ began = [t \in Txns |-> 0]
  /\ old = [t \in Txns |-> 0]

(* Time passes between any two statements.                                  *)
Tick ==
  /\ clock < MaxClock
  /\ clock' = clock + 1
  /\ UNCHANGED <<ledger, lock, pc, user, delta, began, old>>

(* pool.begin(): NOW() is fixed for the whole transaction.                  *)
Begin(t) ==
  /\ pc[t] = "idle"
  /\ pc' = [pc EXCEPT ![t] = "begun"]
  /\ began' = [began EXCEPT ![t] = clock]
  /\ UNCHANGED <<clock, ledger, lock, user, delta, old>>

(* Mutant of LockUserLedger: the statement takes no lock to wait for.       *)
LockNothing(t) ==
  /\ pc[t] = "begun"
  /\ pc' = [pc EXCEPT ![t] = "locked"]
  /\ UNCHANGED <<clock, ledger, lock, user, delta, began, old>>

(* pg_advisory_xact_lock: blocks while another transaction holds the key.   *)
LockUserLedger(t) ==
  /\ pc[t] = "begun"
  /\ lock[HashText[user[t]]] = NoTxn
  /\ lock' = [lock EXCEPT ![HashText[user[t]]] = t]
  /\ pc' = [pc EXCEPT ![t] = "locked"]
  /\ UNCHANGED <<clock, ledger, user, delta, began, old>>

(* The projection read: a statement snapshot of the committed rows.         *)
ReadBalance(t) ==
  /\ pc[t] = "locked"
  /\ old' = [old EXCEPT ![t] = Balance(user[t])]
  /\ pc' = [pc EXCEPT ![t] = "read"]
  /\ UNCHANGED <<clock, ledger, lock, user, delta, began>>

NewRow(t, id) ==
  [id |-> id, user |-> user[t], date |-> began[t],
   old_value |-> old[t], new_value |-> AddI32(old[t], delta[t])]

UsedIds == {ledger[i].id : i \in 1..Len(ledger)}

(* Mutant of Unlock: a session-level lock outlives the transaction.         *)
KeepLock(t) == UNCHANGED lock

(* The transaction ends and its advisory lock with it.                      *)
Unlock(t) ==
  lock' = [k \in LockKeys |-> IF lock[k] = t THEN NoTxn ELSE lock[k]]

(* INSERT and COMMIT in one step: the pending row blocks nobody and nobody  *)
(* sees it before the commit; the lock goes after the row is visible.       *)
AppendRow(t) ==
  /\ pc[t] = "read"
  /\ \E id \in RowIds \ UsedIds : ledger' = Append(ledger, NewRow(t, id))
  /\ Unlock(t)
  /\ pc' = [pc EXCEPT ![t] = "committed"]
  /\ UNCHANGED <<clock, user, delta, began, old>>

(* A database error, a dropped request or a crash before the commit.        *)
Rollback(t) ==
  /\ pc[t] \in {"begun", "locked", "read"}
  /\ Unlock(t)
  /\ pc' = [pc EXCEPT ![t] = "rolled_back"]
  /\ UNCHANGED <<clock, ledger, user, delta, began, old>>

append_karma(t) ==
  Begin(t) \/ LockUserLedger(t) \/ ReadBalance(t) \/ AppendRow(t) \/ Rollback(t)

Next == Tick \/ \E t \in Txns : append_karma(t)

Spec == Init /\ [][Next]_vars

(* A transaction that began is driven to its end by the runtime; waiters on *)
(* an advisory lock are woken when it is released.  Rollback is never owed. *)
Fairness ==
  \A t \in Txns : /\ WF_vars(LockUserLedger(t))
                  /\ WF_vars(ReadBalance(t))
                  /\ WF_vars(AppendRow(t))

FairSpec == Spec /\ Fairness

-----------------------------------------------------------------------------
(* The variables keep their types, and a lock is held by nobody or by a     *)
(* transaction that has taken it and not yet ended: pg_advisory_xact_lock   *)
(* leaves nothing locked behind a commit or a rollback.                     *)
TypeOK ==
  /\ clock \in Nat
  /\ ledger \in Seq(Row)
  /\ lock \in [LockKeys -> Txns \cup {NoTxn}]
  /\ \A k \in LockKeys : lock[k] = NoTxn \/ pc[lock[k]] \in {"locked", "read"}
  /\ pc \in [Txns -> {"idle", "begun", "locked", "read", "committed", "rolled_back"}]
  /\ user \in [Txns -> Users]
  /\ delta \in [Txns -> Deltas]
  /\ began \in [Txns -> Nat]
  /\ old \in [Txns -> Int]

(* Every row's old_value is the projection over exactly the rows committed  *)
(* before it: "the balance projection read and the INSERT must be atomic    *)
(* per user, or two concurrent appends would read the same old_value".      *)
RowReadsProjection ==
  \A i \in 1..Len(ledger) :
    ledger[i].old_value = Projection(i - 1, ledger[i].user)

InStartOrder(u) ==
  \A i, j \in RowsOf(Len(ledger), u) : i < j => Before(i, j)

Consecutive(u, i, j) ==
  /\ i \in RowsOf(Len(ledger), u)
  /\ j \in RowsOf(Len(ledger), u)
  /\ i < j
  /\ \A k \in RowsOf(Len(ledger), u) : k <= i \/ j <= k

(* While a user's appends commit in the order they began, no movement is    *)
(* lost: each row starts from the balance the row before it left, and the   *)
(* balance served is the last row's.                                        *)
NoDeltaLostInStartOrder ==
  \A u \in Users : InStartOrder(u) =>
    /\ \A i, j \in RowsOf(Len(ledger), u) :
         Consecutive(u, i, j) => ledger[j].old_value = ledger[i].new_value
    /\ \A i \in RowsOf(Len(ledger), u) :
         (\A j \in RowsOf(Len(ledger), u) : j <= i) => Balance(u) = ledger[i].new_value

(* An append that began ends: no lock is left behind by a commit or a       *)
(* rollback for others to wait on for ever.                                 *)
EveryAppendEnds ==
  \A t \in Txns : pc[t] = "begun" ~> pc[t] \in {"committed", "rolled_back"}
=============================================================================
