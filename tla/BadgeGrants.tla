----------------------------- MODULE BadgeGrants -----------------------------
(***************************************************************************)
(* The two grant verbs over gamification_badge_users: grant_peer (the      *)
(* rule_auth ladder and the monthly cap) and grant_system (keyed,          *)
(* exactly once).  Each call is one READ COMMITTED transaction: every      *)
(* statement sees what is committed when it runs, a transaction's NOW() is *)
(* the time it began, and the calls of both verbs, the calendar and the    *)
(* generic badge edits interleave between any two statements.              *)
(*                                                                         *)
(* A call is the record of its arguments, and a grant row is the call that *)
(* inserted it (granted_at is the month the call began in).  Comments,     *)
(* levels, grant kinds and the length checks before BEGIN are left out.    *)
(***************************************************************************)
EXTENDS Integers, Sequences, FiniteSets

CONSTANTS
  Badges,       (* badge ids                                                 *)
  Users,        (* user ids                                                  *)
  Keys,         (* grant keys                                                *)
  PeerCalls,    (* calls of grant_peer: [id, badge, sender, recipient]       *)
  SystemCalls,  (* calls of grant_system: [id, badge, recipient, key]        *)
  Policies,     (* values of a badge's peer-grant columns                    *)
  Uncapped,     (* cap of a badge with rule_max = false                      *)
  NoNumber,     (* cap of a badge with rule_max but no rule_max_number       *)
  Deleted,      (* a soft-deleted badge                                      *)
  None,         (* no call                                                   *)
  MaxMonth,     (* bound on the calendar                                     *)
  MaxEdits      (* bound on badge edits                                      *)

Calls == PeerCalls \cup SystemCalls

Policy ==
  [active : BOOLEAN, auth : {"everyone", "users", "having", "nobody"},
   allow : SUBSET Users, prereqs : Seq(Badges), cap : Int \cup {Uncapped, NoNumber}]

ASSUME BadgeAssumption ==
  /\ \A c \in PeerCalls :
       c.badge \in Badges /\ c.sender \in Users /\ c.recipient \in Users
  /\ \A c \in SystemCalls : c.badge \in Badges /\ c.recipient \in Users /\ c.key \in Keys
  /\ PeerCalls \cap SystemCalls = {}
  /\ IsFiniteSet(PeerCalls)
  /\ Policies \subseteq Policy
  /\ Uncapped \notin Int
  /\ NoNumber \notin Int \cup {Uncapped}
  /\ Deleted \notin Policies
  /\ None \notin Calls
  /\ MaxMonth \in Nat
  /\ MaxEdits \in Nat

VARIABLES
  month,    (* the calendar month of NOW()                                   *)
  edits,    (* how many generic badge edits happened                         *)
  badge,    (* per badge id, its policy or Deleted                           *)
  rows,     (* the committed grant rows                                      *)
  pc,       (* per call, the last statement it completed                     *)
  began,    (* per call, the month its transaction began in                  *)
  seen,     (* per call, the badge row it read, or Deleted                   *)
  lock,     (* per badge and sender, the call holding the advisory lock      *)
  pending,  (* per key, the call whose inserted row is not yet committed     *)
  answer    (* per system call, the row it returned                          *)

calendar == <<month, edits, badge>>
vars == <<month, edits, badge, rows, pc, began, seen, lock, pending, answer>>

Ended == {"refused", "aborted", "committed", "answered"}

Steps == {"idle", "begun", "found", "admitted", "locked", "counted",
          "inserted", "conflict"} \cup Ended

Goto(c, step) == pc' = [pc EXCEPT ![c] = step]

(* What lock_peer_grants hashes: one lock per badge and sender.             *)
Slot(c) == <<c.badge, c.sender>>

(* count_badges_held: does the user hold a grant, of any kind, of the badge *)
Holds(u, b) == \E r \in rows : r.recipient = u /\ r.badge = b

PeerRows == rows \cap PeerCalls

(* peer_grants_this_month: granted_at >= date_trunc('month', now())         *)
Spent(c) ==
  Cardinality({r \in PeerRows :
    r.badge = c.badge /\ r.sender = c.sender /\ began[r] >= began[c]})

KeyHolders(k) == {r \in rows \cap SystemCalls : r.key = k}

-----------------------------------------------------------------------------
Init ==
  /\ month = 0
  /\ edits = 0
  /\ badge \in [Badges -> Policies]
  /\ rows = {}
  /\ pc = [c \in Calls |-> "idle"]
  /\ began = [c \in Calls |-> 0]
  /\ seen = [c \in Calls |-> Deleted]
  /\ lock = [p \in Badges \X Users |-> None]
  /\ pending = [k \in Keys |-> None]
  /\ answer = [c \in SystemCalls |-> None]

NextMonth ==
  /\ month < MaxMonth
  /\ month' = month + 1
  /\ UNCHANGED <<edits, badge, rows, pc, began, seen, lock, pending, answer>>

(* The generic badge routes update, soft-delete and restore.                *)
EditBadge(b) ==
  /\ edits < MaxEdits
  /\ edits' = edits + 1
  /\ badge' \in {[badge EXCEPT ![b] = p] : p \in (Policies \cup {Deleted}) \ {badge[b]}}
  /\ UNCHANGED <<month, rows, pc, began, seen, lock, pending, answer>>

(* pool.begin() of either verb.                                             *)
Begin(c) ==
  /\ pc[c] = "idle"
  /\ Goto(c, "begun")
  /\ began' = [began EXCEPT ![c] = month]
  /\ UNCHANGED <<calendar, rows, seen, lock, pending, answer>>

(* find_badge of either verb: a miss ends the call with BadgeNotFound.      *)
FindBadge(c) ==
  /\ pc[c] = "begun"
  /\ seen' = [seen EXCEPT ![c] = badge[c.badge]]
  /\ Goto(c, IF badge[c.badge] = Deleted THEN "refused" ELSE "found")
  /\ UNCHANGED <<calendar, rows, began, lock, pending, answer>>

(* Mutant of Release: a rollback or a commit that leaves its lock and its   *)
(* pending key behind.                                                      *)
ReleaseNothing(c) == UNCHANGED <<lock, pending>>

(* A transaction that ends gives up its lock and its pending row.           *)
Release(c) ==
  /\ lock' = [p \in Badges \X Users |-> IF lock[p] = c THEN None ELSE lock[p]]
  /\ pending' = [k \in Keys |-> IF pending[k] = c THEN None ELSE pending[k]]

(* A database error, a dropped request or a crash before the commit.        *)
Rollback(c) ==
  /\ pc[c] \notin {"idle"} \cup Ended
  /\ Goto(c, "aborted")
  /\ Release(c)
  /\ UNCHANGED <<calendar, rows, began, seen, answer>>

-----------------------------------------------------------------------------
(* Mutant of Ladder: the recipient's badges are counted, not the sender's.  *)
LadderOfRecipient(c) ==
  \/ seen[c].auth = "everyone"
  \/ seen[c].auth = "users" /\ c.sender \in seen[c].allow
  \/ /\ seen[c].auth = "having"
     /\ \A i \in 1..Len(seen[c].prereqs) : Holds(c.recipient, seen[c].prereqs[i])

(* The rule_auth ladder, on the policy read before and the rows committed   *)
(* now.  A having badge without prerequisites is open; one that lists a     *)
(* prerequisite twice is closed (distinct badges held against the length).  *)
Ladder(c) ==
  \/ seen[c].auth = "everyone"
  \/ seen[c].auth = "users" /\ c.sender \in seen[c].allow
  \/ /\ seen[c].auth = "having"
     /\ LET listed == {seen[c].prereqs[i] : i \in 1..Len(seen[c].prereqs)}
        IN  Cardinality({b \in listed : Holds(c.sender, b)}) = Len(seen[c].prereqs)

Admissible(c) ==
  /\ seen[c].active
  /\ c.sender # c.recipient
  /\ Ladder(c)
  /\ seen[c].cap # NoNumber

(* Activity, self-grant, ladder and the misconfigured cap: one read at most.*)
Admit(c) ==
  /\ pc[c] = "found"
  /\ Goto(c, IF Admissible(c) THEN "admitted" ELSE "refused")
  /\ UNCHANGED <<calendar, rows, began, seen, lock, pending, answer>>

(* Mutant of LockPeerGrants: the count is not made under a lock.            *)
LockNoPeerGrants(c) ==
  /\ pc[c] = "admitted"
  /\ seen[c].cap # Uncapped
  /\ Goto(c, "locked")
  /\ UNCHANGED <<calendar, rows, began, seen, lock, pending, answer>>

(* lock_peer_grants, on a capped badge only.                                *)
LockPeerGrants(c) ==
  /\ pc[c] = "admitted"
  /\ seen[c].cap # Uncapped
  /\ lock[Slot(c)] = None
  /\ lock' = [lock EXCEPT ![Slot(c)] = c]
  /\ Goto(c, "locked")
  /\ UNCHANGED <<calendar, rows, began, seen, pending, answer>>

(* The count under the lock, room for one more.                             *)
CountPeerGrants(c) ==
  /\ pc[c] = "locked"
  /\ Spent(c) < seen[c].cap
  /\ Goto(c, "counted")
  /\ UNCHANGED <<calendar, rows, began, seen, lock, pending, answer>>

(* The count under the lock, BadgeCapReached: the transaction ends.         *)
CapReached(c) ==
  /\ pc[c] = "locked"
  /\ Spent(c) >= seen[c].cap
  /\ Goto(c, "refused")
  /\ Release(c)
  /\ UNCHANGED <<calendar, rows, began, seen, answer>>

(* INSERT without a key, then COMMIT: nobody waits for the pending row.     *)
InsertPeer(c) ==
  /\ \/ pc[c] = "counted"
     \/ pc[c] = "admitted" /\ seen[c].cap = Uncapped
  /\ rows' = rows \cup {c}
  /\ Goto(c, "committed")
  /\ Release(c)
  /\ UNCHANGED <<calendar, began, seen, answer>>

grant_peer(c) ==
  \/ Begin(c) \/ FindBadge(c) \/ Admit(c) \/ LockPeerGrants(c)
  \/ CountPeerGrants(c) \/ CapReached(c) \/ InsertPeer(c) \/ Rollback(c)

-----------------------------------------------------------------------------
(* Mutant of InsertKeyed: grant_key has no unique index.                    *)
InsertUnkeyed(c) ==
  /\ pc[c] = "found"
  /\ pending' = [pending EXCEPT ![c.key] = c]
  /\ Goto(c, "inserted")
  /\ UNCHANGED <<calendar, rows, began, seen, lock, answer>>

(* INSERT ... ON CONFLICT DO NOTHING RETURNING: waits while another         *)
(* transaction's row with the key is pending, inserts when there is none.   *)
InsertKeyed(c) ==
  /\ pc[c] = "found"
  /\ pending[c.key] = None
  /\ KeyHolders(c.key) = {}
  /\ pending' = [pending EXCEPT ![c.key] = c]
  /\ Goto(c, "inserted")
  /\ UNCHANGED <<calendar, rows, began, seen, lock, answer>>

(* ... and does nothing when a committed row holds the key.                 *)
Conflict(c) ==
  /\ pc[c] = "found"
  /\ KeyHolders(c.key) # {}
  /\ Goto(c, "conflict")
  /\ UNCHANGED <<calendar, rows, began, seen, lock, pending, answer>>

CommitKeyed(c) ==
  /\ pc[c] = "inserted"
  /\ rows' = rows \cup {c}
  /\ Goto(c, "committed")
  /\ Release(c)
  /\ UNCHANGED <<calendar, began, seen, answer>>

(* Mutant of Converge: the loser answers with the row it did not insert.    *)
AnswerOwnRow(c) ==
  /\ pc[c] = "conflict"
  /\ answer' = [answer EXCEPT ![c] = c]
  /\ Goto(c, "answered")
  /\ UNCHANGED <<calendar, rows, began, seen, lock, pending>>

(* find_grant_by_key, in the loser's transaction.                           *)
Converge(c) ==
  /\ pc[c] = "conflict"
  /\ \E r \in KeyHolders(c.key) : answer' = [answer EXCEPT ![c] = r]
  /\ Goto(c, "answered")
  /\ UNCHANGED <<calendar, rows, began, seen, lock, pending>>

(* The winner answers with its own row, unless it dies after its commit.    *)
Answer(c) ==
  /\ pc[c] = "committed"
  /\ answer' = [answer EXCEPT ![c] = c]
  /\ Goto(c, "answered")
  /\ UNCHANGED <<calendar, rows, began, seen, lock, pending>>

grant_system(c) ==
  \/ Begin(c) \/ FindBadge(c) \/ InsertKeyed(c) \/ Conflict(c)
  \/ CommitKeyed(c) \/ Converge(c) \/ Answer(c) \/ Rollback(c)

-----------------------------------------------------------------------------
Next ==
  \/ NextMonth
  \/ \E b \in Badges : EditBadge(b)
  \/ \E c \in PeerCalls : grant_peer(c)
  \/ \E c \in SystemCalls : grant_system(c)

Spec == Init /\ [][Next]_vars

(* The statements that a call which began goes through.                     *)
Statement ==
  \/ \E c \in Calls : FindBadge(c)
  \/ \E c \in PeerCalls :
       Admit(c) \/ LockPeerGrants(c) \/ CountPeerGrants(c) \/ CapReached(c) \/ InsertPeer(c)
  \/ \E c \in SystemCalls : InsertKeyed(c) \/ Conflict(c) \/ CommitKeyed(c) \/ Converge(c)

(* As long as a statement can run some statement does; nothing obliges a    *)
(* caller to begin, a transaction to abort, or a winner to survive until    *)
(* its answer.                                                              *)
Fairness == WF_vars(Statement)

FairSpec == Spec /\ Fairness

-----------------------------------------------------------------------------
(* The variables keep their types, and advisory locks and pending rows      *)
(* belong to open transactions: none survives a commit or a rollback.       *)
TypeOK ==
  /\ month \in Nat
  /\ edits \in Nat
  /\ badge \in [Badges -> Policies \cup {Deleted}]
  /\ rows \subseteq Calls
  /\ pc \in [Calls -> Steps]
  /\ began \in [Calls -> Nat]
  /\ seen \in [Calls -> Policies \cup {Deleted}]
  /\ lock \in [Badges \X Users -> PeerCalls \cup {None}]
  /\ \A p \in Badges \X Users : lock[p] = None \/ pc[lock[p]] \in {"locked", "counted"}
  /\ pending \in [Keys -> SystemCalls \cup {None}]
  /\ \A k \in Keys : pending[k] = None \/ pc[pending[k]] = "inserted"
  /\ answer \in [SystemCalls -> SystemCalls \cup {None}]

(* The rows of one badge, sender and month that were inserted under a cap.  *)
CappedRows(b, s, m) ==
  {r \in PeerRows : /\ r.badge = b /\ r.sender = s
                    /\ began[r] = m /\ seen[r].cap # Uncapped}

(* "Concurrent grants by the sender cannot pass the cap together": among    *)
(* the rows inserted under a cap some row saw a cap that admits them all,   *)
(* however the cap was edited and wherever the month ended in between.      *)
CapHolds ==
  \A b \in Badges, s \in Users, m \in 0..month :
    CappedRows(b, s, m) # {} =>
      \E r \in CappedRows(b, s, m) : Cardinality(CappedRows(b, s, m)) <= seen[r].cap

(* What the ladder of the policy a call read asks of its sender.            *)
Respected(c) ==
  /\ c.sender # c.recipient
  /\ seen[c].auth # "nobody"
  /\ seen[c].auth = "users" => c.sender \in seen[c].allow
  /\ seen[c].auth = "having" =>
       \A i \in 1..Len(seen[c].prereqs) : Holds(c.sender, seen[c].prereqs[i])

(* The peer ladder has no bypass: nobody grants a badge to themselves, and  *)
(* the sender of every peer row of a having badge holds each prerequisite.  *)
LadderHolds == \A r \in PeerRows : Respected(r)

(* Exactly once per grant_key: a key has one row at most, and the loser of  *)
(* a conflict finds it, so "grant-key conflict with no live row to converge *)
(* on" is never answered.                                                   *)
KeyedOnce ==
  /\ \A r, s \in rows \cap SystemCalls : r.key = s.key => r = s
  /\ \A c \in SystemCalls : pc[c] = "conflict" => KeyHolders(c.key) # {}

TheOnly(S) == CHOOSE x \in S : TRUE

Minted ==
  [k \in Keys |-> IF KeyHolders(k) = {} THEN None ELSE TheOnly(KeyHolders(k))]

Promise == INSTANCE ExactlyOnceGrants
             WITH Deliveries <- SystemCalls, minted <- Minted, told <- answer

(* The keyed verb keeps its promise: the row of a key never changes, and    *)
(* every delivery is answered with that one row.                            *)
ExactlyOnce == Promise!AbsSpec

(* Grants that began end: the cap locks and the waits for a pending key     *)
(* never leave a call behind.                                               *)
EveryGrantEnds == <>[](\A c \in Calls : pc[c] \in {"idle"} \cup Ended)
=============================================================================
