------------------------------ MODULE RatingToken ------------------------------
(***************************************************************************)
(* The rating verbs over one rated record: issue_rating, submit_rating,    *)
(* rotate_token, reset_rating and publisher_reply.  Each call is one READ  *)
(* COMMITTED transaction; a partial unique index admits one unconsumed row *)
(* per identified rater.                                                   *)
(*                                                                         *)
(* A link names the row, the nonce and the expiry it was signed for; a     *)
(* call mints at most one nonce, which is named after it, and a submit     *)
(* uses a link that some call has handed out (the MAC refuses any other).  *)
(***************************************************************************)
EXTENDS Integers

CONSTANTS
  Calls,      (* [id, verb, rater, value, ttl]: rater of an issue, value of a
                 submit, lifetime of the link of an issue or a reissue       *)
  None,       (* no row, no rater, no call                                   *)
  NoValue,    (* a row without an answer                                     *)
  MaxClock    (* bound on the clock                                          *)

Verbs == {"issue", "submit", "rotate", "reset", "reply"}

ASSUME RatingAssumption ==
  /\ \A c \in Calls : c.verb \in Verbs /\ c.ttl \in Int /\ c.value # NoValue
  /\ None \notin Calls
  /\ MaxClock \in Nat

(* A row is named after the call that inserts it.                           *)
Rows == {c \in Calls : c.verb = "issue"}

VARIABLES
  clock,   (* the time                                                       *)
  row,     (* per row, its committed and its latest version and its writer   *)
  pc,      (* per call, the last statement it completed                      *)
  began,   (* per call, when its transaction began: what now() answers       *)
  link,    (* per call, the link it submits or is going to hand out          *)
  handed,  (* the links that were handed out                                 *)
  used     (* the nonces of the links that committed submits came with       *)

vars == <<clock, row, pc, began, link, handed, used>>

Links == [row : Rows, nonce : Calls, exp : Int]

Answers == {c.value : c \in Calls}

Rating ==
  [nonce : Calls, exp : Int, consumed : BOOLEAN, value : Answers \cup {NoValue},
   reply : Calls \cup {None}]

(* What the holder of a link can tell of a row.                             *)
Request == [nonce : Calls, consumed : BOOLEAN, value : Answers \cup {NoValue}]

ASSUME NoneIsNoRow == None \notin Rating /\ None \notin Request

Ended == {"refused", "failed", "done"}

Steps == {"idle", "minted", "lost", "verified", "found", "written", "answer"} \cup Ended

Goto(c, step) == pc' = [pc EXCEPT ![c] = step]

Stored(x) == [now |-> x, new |-> x, by |-> None]

Put(r, c, x) == row' = [row EXCEPT ![r] = [now |-> @.now, new |-> x, by |-> c]]

LinkOf(r) == [row |-> r, nonce |-> row[r].now.nonce, exp |-> row[r].now.exp]

(* The rows of the partial index: unconsumed, of an identified rater.       *)
Open(r, x) == x # None /\ r.rater # None /\ ~x.consumed

Live(u) == {r \in Rows : r.rater = u /\ Open(r, row[r].now)}

(* The rows an index entry of row r would meet, committed or not.           *)
Rivals(r) ==
  {s \in Rows \ {r} : s.rater = r.rater /\ (Open(s, row[s].now) \/ Open(s, row[s].new))}

(* A unique check waits for a transaction that may still remove the rival.  *)
Decided(r) == \A s \in Rivals(r) : row[s].by = None

-----------------------------------------------------------------------------
Init ==
  /\ clock = 0
  /\ row = [r \in Rows |-> Stored(None)]
  /\ pc = [c \in Calls |-> "idle"]
  /\ began = [c \in Calls |-> 0]
  /\ link = [c \in Calls |-> None]
  /\ handed = {}
  /\ used = {}

Tick ==
  /\ clock < MaxClock
  /\ clock' = clock + 1
  /\ UNCHANGED <<row, pc, began, link, handed, used>>

Begin(c, verbs) ==
  /\ pc[c] = "idle"
  /\ c.verb \in verbs
  /\ began' = [began EXCEPT ![c] = clock]

(* find_live_unconsumed: the identified rater's live row is reused as it is; *)
(* otherwise a nonce and an expiry are minted.                               *)
Probe(c) ==
  /\ Begin(c, {"issue"})
  /\ \/ \E r \in Live(c.rater) :
          /\ link' = [link EXCEPT ![c] = LinkOf(r)]
          /\ Goto(c, "answer")
     \/ /\ Live(c.rater) = {}
        /\ link' = [link EXCEPT ![c] = [row |-> c, nonce |-> c, exp |-> clock + c.ttl]]
        /\ Goto(c, "minted")
  /\ UNCHANGED <<clock, row, handed, used>>

(* Mutant of Insert: the table has no index over the live rows of a rater.  *)
InsertUnindexed(c) ==
  /\ pc[c] = "minted"
  /\ Put(c, c, [nonce |-> c, exp |-> link[c].exp, consumed |-> FALSE,
                value |-> NoValue, reply |-> None])
  /\ Goto(c, "answer")
  /\ UNCHANGED <<clock, began, link, handed, used>>

(* insert_rating under a savepoint: a violation of the index undoes the     *)
(* INSERT alone.                                                            *)
Insert(c) ==
  /\ pc[c] = "minted"
  /\ Decided(c)
  /\ \/ /\ Rivals(c) = {}
        /\ Put(c, c, [nonce |-> c, exp |-> link[c].exp, consumed |-> FALSE,
                      value |-> NoValue, reply |-> None])
        /\ Goto(c, "answer")
     \/ /\ Rivals(c) # {}
        /\ Goto(c, "lost")
        /\ UNCHANGED row
  /\ UNCHANGED <<clock, began, link, handed, used>>

(* The loser reads the winner's row, or finds that it is not live any more: *)
(* "unique violation with no live row to converge on".                      *)
Reread(c) ==
  /\ pc[c] = "lost"
  /\ \/ \E r \in Live(c.rater) :
          /\ link' = [link EXCEPT ![c] = LinkOf(r)]
          /\ Goto(c, "answer")
     \/ Live(c.rater) = {} /\ Goto(c, "failed") /\ UNCHANGED link
  /\ UNCHANGED <<clock, row, began, handed, used>>

-----------------------------------------------------------------------------
(* find_by_id, and the link against the stored row.                         *)
Load(c) ==
  /\ Begin(c, {"submit"})
  /\ \E l \in handed :
       /\ link' = [link EXCEPT ![c] = l]
       /\ Goto(c, IF l = LinkOf(l.row) THEN "verified" ELSE "refused")
  /\ UNCHANGED <<clock, row, handed, used>>

(* Mutant of Submittable: the nonce was checked when the row was loaded.    *)
SubmittableLoaded(c, x) == ~x.consumed /\ x.exp > began[c]

(* The WHERE of conditional_submit.                                         *)
Submittable(c, x) == x.nonce = link[c].nonce /\ ~x.consumed /\ x.exp > began[c]

(* conditional_submit: the WHERE holds for the committed row, and again for *)
(* the version the UPDATE finds once it has the lock.                       *)
Submit(c) ==
  /\ pc[c] = "verified"
  /\ LET r == link[c].row IN
       /\ row[r].by = None
       /\ Submittable(c, row[r].now)
       /\ Put(r, c, [row[r].now EXCEPT !.consumed = TRUE, !.value = c.value])
  /\ Goto(c, "written")
  /\ UNCHANGED <<clock, began, link, handed, used>>

Refuse(c) ==
  /\ pc[c] = "verified"
  /\ ~Submittable(c, row[link[c].row].now)
  /\ Goto(c, "refused")
  /\ UNCHANGED <<clock, row, began, link, handed, used>>

-----------------------------------------------------------------------------
(* reissue reads the row and mints a nonce and an expiry for it.            *)
Find(c) ==
  /\ Begin(c, {"rotate", "reset"})
  /\ \E r \in Rows :
       /\ row[r].now # None
       /\ link' = [link EXCEPT ![c] = [row |-> r, nonce |-> c, exp |-> clock + c.ttl]]
  /\ Goto(c, "found")
  /\ UNCHANGED <<clock, row, handed, used>>

Rearmed(c, x) ==
  IF c.verb = "rotate" THEN [x EXCEPT !.nonce = c, !.exp = link[c].exp]
  ELSE [x EXCEPT !.nonce = c, !.exp = link[c].exp, !.consumed = FALSE, !.value = NoValue]

(* rotate_token and reset_rating: the UPDATE writes over whatever the row   *)
(* has become; a reset that would make a second live row of the rater is a  *)
(* database error.                                                          *)
Rearm(c) ==
  /\ pc[c] = "found"
  /\ LET r == link[c].row
         x == Rearmed(c, row[r].now)
     IN /\ row[r].by = None
        /\ Open(r, x) => Decided(r)
        /\ \/ /\ Open(r, x) => Rivals(r) = {}
              /\ Put(r, c, x)
              /\ Goto(c, "answer")
           \/ /\ Open(r, x) /\ Rivals(r) # {}
              /\ Goto(c, "failed")
              /\ UNCHANGED row
  /\ UNCHANGED <<clock, began, link, handed, used>>

(* publisher_reply: the comment, its author and its time in one UPDATE.     *)
Reply(c) ==
  /\ Begin(c, {"reply"})
  /\ \E r \in Rows :
       /\ row[r].now # None /\ row[r].by = None
       /\ Put(r, c, [row[r].now EXCEPT !.reply = c])
  /\ Goto(c, "written")
  /\ UNCHANGED <<clock, link, handed, used>>

-----------------------------------------------------------------------------
(* Mutant of Publish: a transaction that ends keeps its row locked.            *)
FreeNothing(c) ==
  row' = [r \in Rows |->
            IF row[r].by = c THEN [row[r] EXCEPT !.now = row[r].new] ELSE row[r]]

(* tx.commit(): what the call wrote is published, and its rows are free.    *)
Publish(c) ==
  row' = [r \in Rows |-> IF row[r].by = c THEN Stored(row[r].new) ELSE row[r]]

(* The link of an issue or a reissue is handed out.                         *)
Answer(c) ==
  /\ pc[c] = "answer"
  /\ Publish(c)
  /\ handed' = handed \cup {link[c]}
  /\ Goto(c, "done")
  /\ UNCHANGED <<clock, began, link, used>>

Commit(c) ==
  /\ pc[c] = "written"
  /\ Publish(c)
  /\ used' = IF c.verb = "submit" THEN used \cup {link[c].nonce} ELSE used
  /\ Goto(c, "done")
  /\ UNCHANGED <<clock, began, link, handed>>

(* An error or a lost connection: nothing is kept.                          *)
Rollback(c) ==
  /\ pc[c] \notin {"idle"} \cup Ended
  /\ row' = [r \in Rows |-> IF row[r].by = c THEN Stored(row[r].now) ELSE row[r]]
  /\ Goto(c, "failed")
  /\ UNCHANGED <<clock, began, link, handed, used>>

Statement(c) ==
  \/ Probe(c) \/ Insert(c) \/ Reread(c)
  \/ Load(c) \/ Submit(c) \/ Refuse(c)
  \/ Find(c) \/ Rearm(c) \/ Reply(c)
  \/ Answer(c) \/ Commit(c)

Next == Tick \/ \E c \in Calls : Statement(c) \/ Rollback(c)

Spec == Init /\ [][Next]_vars

(* A call that began runs on, and a lock it waits for is granted; nobody is *)
(* obliged to call, and no transaction is obliged to fail.                  *)
Fairness == \A c \in Calls : WF_vars(pc[c] # "idle" /\ Statement(c))

FairSpec == Spec /\ Fairness

-----------------------------------------------------------------------------
Version == Rating \cup {None}

(* The variables keep their types, and a row with an uncommitted version is *)
(* held by a call that is going to commit it.                               *)
TypeOK ==
  /\ clock \in Nat
  /\ pc \in [Calls -> Steps]
  /\ began \in [Calls -> Nat]
  /\ link \in [Calls -> Links \cup {None}]
  /\ handed \subseteq Links
  /\ used \subseteq Calls
  /\ row \in [Rows -> [now : Version, new : Version, by : Calls \cup {None}]]
  /\ \A r \in Rows :
       IF row[r].by = None THEN row[r].new = row[r].now
       ELSE row[r].new # None /\ pc[row[r].by] \in {"written", "answer"}

(* R-R3, "one live unconsumed row per (rated_model, rated_record_id,        *)
(* rater_user_id)": by whatever issues, answers and resets it came about.   *)
OneLiveRequest ==
  \A r, s \in Rows :
    r # s /\ r.rater = s.rater => ~(Open(r, row[r].now) /\ Open(s, row[s].now))

Shown(x) ==
  IF x = None THEN None ELSE [nonce |-> x.nonce, consumed |-> x.consumed, value |-> x.value]

Promise == INSTANCE OneTimeLink WITH
  Requests <- Rows, Nonces <- Calls, Values <- Answers, NoRequest <- None,
  request <- [r \in Rows |-> Shown(row[r].now)]

(* R-R2, "the old link dies with the old nonce": submits that loaded the    *)
(* row before another submit, a rotate or a reset committed cannot use a    *)
(* link twice, nor one that was replaced, nor change an answer.             *)
LinksAreOneTime == Promise!LinkSpec

(* A call that began ends: no row stays locked.                             *)
EveryCallEnds ==
  \A c \in Calls : pc[c] \in {"minted", "verified", "found"} ~> pc[c] \in Ended
=============================================================================
