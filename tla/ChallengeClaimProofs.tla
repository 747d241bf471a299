------------------------- MODULE ChallengeClaimProofs -------------------------
(***************************************************************************)
(* What the daily check's claim of a challenge is good for: proofs about   *)
(* ChallengeSeason, for any number of calls and any members, lines,        *)
(* windows, podium and calendar.                                           *)
(*                                                                         *)
(* The turns of the daily check exclude one another; close_challenge and   *)
(* reset_challenge add no goal and no member, so that where nobody calls   *)
(* start_challenge a turn finds what it read as it left it; and where      *)
(* nobody calls close_challenge, only a turn draws up a podium.            *)
(*                                                                         *)
(*   Orderly    in which order a plan has its statements;                  *)
(*   Deed       what a statement does to its call's plan and to the rows   *)
(*              of the others;                                             *)
(*   ClaimInv   who holds the challenge, and which verbs hold which rows;  *)
(*   GoalInv    how far a turn is with the goals and members that it sees, *)
(*              and that the committed ones are sound;                     *)
(*   PodiumInv  how many users hold a badge or will, as a turn sees it.    *)
(***************************************************************************)
EXTENDS ChallengeSeasonProofs

-----------------------------------------------------------------------------
(* The order of a plan.                                                     *)

(* Operation b may come right after operation a: the rules, the members     *)
(* found before, the joins, the retirement and the sweep are one chain.     *)
Follows(a, b) ==
  /\ b = "before" <=> a = "rules"
  /\ b \in {"join", "retire"} <=> a \in {"before", "join"}
  /\ b = "sweep" <=> a = "retire"
  /\ b # "insert"

(* Joins, and looks and inserts, come first in a plan or not at all.        *)
Leading(p) ==
  \A i \in 1..Len(p) : \A j \in 1..(i - 1) :
    /\ p[i].op = "join" => p[j].op = "join"
    /\ p[i].op \in {"look", "insert"} => p[j].op \in {"look", "insert"}

Chained(p) ==
  /\ \A i \in 1..(Len(p) - 1) : Follows(p[i].op, p[i + 1].op)
  /\ Leading(p)

(* A podium is drawn up once, and then the challenge will be moved to done  *)
(* and to no other state.                                                   *)
Closes(p) ==
  \A i \in 1..Len(p) : p[i].op = "podium" =>
    /\ \E j \in (i + 1)..Len(p) : p[j].op = "move"
    /\ \A j \in (i + 1)..Len(p) :
         p[j].op # "podium" /\ (p[j].op = "move" => p[j].on = "done")

(* The operations a verb is made of.                                        *)
Reconciling == {"rules", "before", "join", "retire", "sweep", "members", "look", "insert"}

Task(verb, op) ==
  \/ verb = "start" /\ op \in Reconciling \cup {"move", "stamp", "commit"}
  \/ verb = "close" /\ op \in {"fail", "podium", "grant", "move", "commit"}
  \/ verb = "reset" /\ op \in {"check", "move", "commit"}
  \/ verb = "daily" /\ op \in Ops \ (Verbs \cup {"check"})

Orderly(p, verb) ==
  /\ Chained(p) /\ Closes(p)
  /\ \A i \in 1..Len(p) : Task(verb, p[i].op)

(* The operations that stand in no plan from the beginning.                 *)
InnerOps == {"join", "look", "insert", "evaluate", "grant"}

(* The statements that operation a may put in its place.                    *)
Opened(a, s) ==
  \A i \in 1..Len(s) :
    /\ s[i].op = "join" => a = "before"
    /\ s[i].op = "look" => a = "members"
    /\ s[i].op = "insert" => a = "look" /\ Len(s) = 1
    /\ s[i].op = "evaluate" => a = "goals"
    /\ s[i].op = "grant" => a \in {"podium", "realtime"}

LEMMA ChainStep ==
  ASSUME NEW p \in Seq(Steps), Len(p) > 1, Chained(p),
         NEW s \in Seq(Inner), Opened(p[1].op, s)
  PROVE  Chained(s \o Tail(p))
<1> DEFINE q == s \o Tail(p)
           m == Len(s)
           n == Len(p)
           a == p[1].op
<1>1. s \in Seq(Steps) /\ p # <<>> /\ m \in Nat /\ n \in Nat
  BY SeqMonotonic, LenProperties, EmptySeq DEF Inner
<1>2. /\ Len(q) = m + n - 1 /\ q \in Seq(Steps)
      /\ \A i \in 1..m : i \in 1..Len(q) /\ q[i] = s[i]
      /\ \A i \in 1..Len(q) : \/ i \in 1..m
                              \/ i - m + 1 \in 2..n /\ q[i] = p[i - m + 1]
  BY <1>1, Instead1
<1>3. \A i \in 1..m : s[i].op \in {"join", "look", "insert", "evaluate", "grant"}
  BY ElementOfSeq DEF Inner
<1> HIDE DEF q, m, n
<1>4. \A i \in 1..(n - 1) : Follows(p[i].op, p[i + 1].op)
  BY DEF Chained, n
<1>5. Leading(p) /\ n > 1
  BY DEF Chained, n
<1>6. \A i \in 1..m :
        /\ q[i].op = s[i].op
        /\ q[i].op \in {"join", "look", "insert", "evaluate", "grant"}
        /\ q[i].op = "join" => a = "before"
        /\ q[i].op = "look" => a = "members"
        /\ q[i].op = "insert" => a = "look" /\ m = 1
        /\ q[i].op = "evaluate" => a = "goals"
        /\ q[i].op = "grant" => a \in {"podium", "realtime"}
  BY <1>2, <1>3 DEF Opened, m
<1> HIDE DEF a
<1>7. ASSUME NEW i \in 1..(Len(q) - 1) PROVE Follows(q[i].op, q[i + 1].op)
  <2>1. CASE i + 1 \in 1..m
    <3>1. i \in 1..m
      BY <1>1, <2>1 DEF m
    <3>q. QED
      BY <1>1, <1>6, <2>1, <3>1 DEF Follows, m
  <2>2. CASE i = m
    <3>1. i \in 1..m /\ q[i + 1] = p[2]
      BY <1>1, <1>2, <1>5, <2>2 DEF m, n
    <3>2. Follows(a, p[2].op)
      <4>1. 1 \in 1..(n - 1)
        BY <1>1, <1>5 DEF n
      <4>q. QED
        BY <1>4, <4>1 DEF a
    <3>3. /\ q[i].op \in {"join", "look", "insert", "evaluate", "grant"}
          /\ q[i].op = "join" => a = "before"
          /\ a # "before" => p[2].op \notin {"join", "retire"} \/ a = "join"
      BY <1>6, <3>1, <3>2 DEF Follows
    <3>q. QED
      BY <1>6, <3>1, <3>2, <3>3 DEF Follows
  <2>3. CASE i > m
    <3>1. /\ i - m + 1 \in 1..(n - 1) /\ i - m + 2 = (i - m + 1) + 1
          /\ q[i] = p[i - m + 1] /\ q[i + 1] = p[i - m + 2]
      BY <1>1, <1>2, <2>3, SMTT(20) DEF m, n
    <3>q. QED
      BY <1>4, <3>1
  <2>q. QED
    BY <1>1, <1>2, <2>1, <2>2, <2>3 DEF m, n
<1>8. Leading(q)
  <2> SUFFICES ASSUME NEW i \in 1..Len(q), NEW j \in 1..(i - 1)
               PROVE  /\ q[i].op = "join" => q[j].op = "join"
                      /\ q[i].op \in {"look", "insert"} => q[j].op \in {"look", "insert"}
    BY DEF Leading
  <2>1. CASE i \in 1..m
    <3>1. j \in 1..m
      BY <1>1, <2>1 DEF m
    <3>q. QED
      BY <1>6, <2>1, <3>1
  <2>2. CASE i \notin 1..m
    <3> DEFINE k == i - m + 1
    <3>1. k \in 2..n /\ q[i] = p[k] /\ k \in 1..n
      BY <1>1, <1>2, <2>2 DEF m, n
    <3>2. 1 \in 1..(k - 1)
      BY <1>1, <3>1 DEF m, n
    <3>3. /\ p[k].op = "join" => a = "join"
          /\ p[k].op \in {"look", "insert"} => a \in {"look", "insert"}
      BY <1>5, <3>1, <3>2 DEF Leading, a, n
    <3>4. CASE j \in 1..m
      BY <1>6, <3>1, <3>3, <3>4
    <3>5. CASE j \notin 1..m
      <4>1. j - m + 1 \in 1..(k - 1) /\ q[j] = p[j - m + 1]
        BY <1>1, <1>2, <2>2, <3>5 DEF m, n
      <4>q. QED
        BY <1>5, <3>1, <4>1 DEF Leading, n
    <3>q. QED
      BY <3>4, <3>5
  <2>q. QED
    BY <2>1, <2>2
<1>q. QED
  BY <1>7, <1>8 DEF Chained, q

LEMMA CloseStep ==
  ASSUME NEW p \in Seq(Steps), Len(p) > 1, Closes(p), NEW s \in Seq(Inner)
  PROVE  Closes(s \o Tail(p))
<1> DEFINE q == s \o Tail(p)
           m == Len(s)
           n == Len(p)
<1>1. s \in Seq(Steps) /\ p # <<>> /\ m \in Nat /\ n \in Nat
  BY SeqMonotonic, LenProperties, EmptySeq DEF Inner
<1>2. /\ Len(q) = m + n - 1
      /\ \A i \in 1..m : i \in 1..Len(q) /\ q[i] = s[i]
      /\ \A k \in 2..n : m + k - 1 \in 1..Len(q) /\ q[m + k - 1] = p[k]
      /\ \A i \in 1..Len(q) : \/ i \in 1..m
                              \/ i - m + 1 \in 2..n /\ q[i] = p[i - m + 1]
  BY <1>1, Instead1
<1>3. \A i \in 1..m : s[i].op \notin {"podium", "move"}
  BY ElementOfSeq DEF Inner
<1> HIDE DEF q, m, n
<1> SUFFICES ASSUME NEW i \in 1..Len(q), q[i].op = "podium"
             PROVE  /\ \E j \in (i + 1)..Len(q) : q[j].op = "move"
                    /\ \A j \in (i + 1)..Len(q) :
                         q[j].op # "podium" /\ (q[j].op = "move" => q[j].on = "done")
  BY DEF Closes, q
<1> DEFINE k == i - m + 1
<1>4. k \in 1..n /\ k \in 2..n /\ q[i] = p[k] /\ i \notin 1..m
  <2>1. i \notin 1..m
    BY <1>2, <1>3
  <2>q. QED
    BY <1>1, <1>2, <2>1
<1>5. /\ \E j \in (k + 1)..n : p[j].op = "move"
      /\ \A j \in (k + 1)..n :
           p[j].op # "podium" /\ (p[j].op = "move" => p[j].on = "done")
  BY <1>4 DEF Closes, n
<1>6. \E j \in (i + 1)..Len(q) : q[j].op = "move"
  <2>1. PICK j \in (k + 1)..n : p[j].op = "move"
    BY <1>5
  <2>2. m + j - 1 \in (i + 1)..Len(q) /\ j \in 2..n
    BY <1>1, <1>2, <1>4
  <2>q. QED
    BY <1>2, <2>1, <2>2
<1>7. ASSUME NEW j \in (i + 1)..Len(q)
      PROVE  q[j].op # "podium" /\ (q[j].op = "move" => q[j].on = "done")
  <2>1. CASE j \in 1..m
    BY <1>2, <1>3, <2>1
  <2>2. CASE j \notin 1..m
    <3>1. j - m + 1 \in (k + 1)..n /\ q[j] = p[j - m + 1]
      BY <1>1, <1>2, <1>4, <2>2
    <3>q. QED
      BY <1>5, <3>1
  <2>q. QED
    BY <2>1, <2>2
<1>q. QED
  BY <1>6, <1>7

(* What a statement opens is part of the verb it belongs to.                *)
Opens(a, b) ==
  /\ b \in {"join", "look", "insert", "evaluate", "grant"}
  /\ b = "join" => a = "before"
  /\ b = "look" => a = "members"
  /\ b = "insert" => a = "look"
  /\ b = "evaluate" => a = "goals"
  /\ b = "grant" => a \in {"podium", "realtime"}

LEMMA TaskOpens ==
  ASSUME NEW verb, NEW a, NEW b, Opens(a, b), Task(verb, a)
  PROVE  Task(verb, b)
<1>1. CASE verb = "start"
  BY <1>1 DEF Opens, Task, Reconciling
<1>2. CASE verb = "close"
  BY <1>2 DEF Opens, Task
<1>3. CASE verb = "reset"
  BY <1>3 DEF Opens, Task
<1>4. CASE verb = "daily"
  <2>1. b \in Ops \ (Verbs \cup {"check"})
    BY DEF Opens, Ops, Verbs
  <2>q. QED
    BY <1>4, <2>1 DEF Task
<1>q. QED
  BY <1>1, <1>2, <1>3, <1>4 DEF Task

LEMMA OrderlyStep ==
  ASSUME NEW p, Good(p), p[1].op # "commit", NEW verb \in Verbs, Orderly(p, verb),
         NEW s \in Seq(Inner), Opened(p[1].op, s)
  PROVE  Orderly(s \o Tail(p), verb)
<1> DEFINE q == s \o Tail(p)
<1>1. p \in Seq(Steps) /\ p # <<>> /\ Len(p) \in Nat \ {0} /\ s \in Seq(Steps)
  BY SeqMonotonic, LenProperties, EmptySeq DEF Good, Inner
<1>2. Len(p) > 1
  BY <1>1 DEF Good
<1>3. Chained(q) /\ Closes(q)
  BY <1>1, <1>2, ChainStep, CloseStep DEF Orderly
<1>4. /\ \A i \in 1..Len(s) : q[i] = s[i] /\ s[i] \in Inner
      /\ \A i \in 1..Len(q) : \/ i \in 1..Len(s)
                              \/ i - Len(s) + 1 \in 2..Len(p) /\ q[i] = p[i - Len(s) + 1]
  BY <1>1, Instead1, ElementOfSeq
<1>5. Task(verb, p[1].op) /\ \A i \in 2..Len(p) : Task(verb, p[i].op)
  BY <1>1 DEF Orderly
<1> HIDE DEF q
<1>6. ASSUME NEW i \in 1..Len(s) PROVE Task(verb, s[i].op)
  <2>1. Opens(p[1].op, s[i].op)
    BY <1>4 DEF Opened, Inner, Opens
  <2>q. QED
    BY <1>5, <2>1, TaskOpens
<1>7. \A i \in 1..Len(q) : Task(verb, q[i].op)
  BY <1>4, <1>5, <1>6
<1>q. QED
  BY <1>3, <1>7 DEF Orderly, q

(* Plans are put together from parts.                                       *)
LEMMA OrderlyPrefix ==
  ASSUME NEW verb, NEW s \in Seq(Steps), s # <<>>, NEW p \in Seq(Steps), p # <<>>,
         Orderly(p, verb), Chained(s), Follows(s[Len(s)].op, p[1].op),
         \A i \in 1..Len(s) : Task(verb, s[i].op) /\ s[i].op # "podium",
         \A i \in 1..Len(p) : p[i].op \notin InnerOps
  PROVE  Orderly(s \o p, verb)
<1> DEFINE q == s \o p
           m == Len(s)
           n == Len(p)
<1>1. m \in Nat \ {0} /\ n \in Nat \ {0}
  BY LenProperties, EmptySeq
<1>2. /\ Len(q) = m + n
      /\ \A i \in 1..Len(q) : q[i] = IF i <= m THEN s[i] ELSE p[i - m]
  BY ConcatProperties
<1> HIDE DEF q
<1>3. \A i \in 1..Len(q) : \/ i \in 1..m /\ q[i] = s[i]
                           \/ i > m /\ i - m \in 1..n /\ q[i] = p[i - m]
  BY <1>1, <1>2
<1> HIDE DEF m, n
<1>4. ASSUME NEW i \in 1..(Len(q) - 1) PROVE Follows(q[i].op, q[i + 1].op)
  <2>1. CASE i < m
    <3>1. i \in 1..(m - 1) /\ q[i] = s[i] /\ q[i + 1] = s[i + 1]
      BY <1>1, <1>2, <2>1
    <3>q. QED
      BY <3>1 DEF Chained, m
  <2>2. CASE i = m
    <3>1. q[i] = s[m] /\ q[i + 1] = p[1]
      BY <1>1, <1>2, <2>2
    <3>q. QED
      BY <3>1 DEF m
  <2>3. CASE i > m
    <3>1. i - m \in 1..(n - 1) /\ (i + 1) - m = i - m + 1 /\ i + 1 > m
      BY <1>1, <1>2, <2>3
    <3>2. q[i] = p[i - m] /\ q[i + 1] = p[i - m + 1]
      BY <1>1, <1>2, <2>3, <3>1
    <3>q. QED
      BY <3>1, <3>2 DEF Orderly, Chained, n
  <2>q. QED
    BY <1>1, <1>2, <2>1, <2>2, <2>3
<1>5. Leading(q)
  <2> SUFFICES ASSUME NEW i \in 1..Len(q), NEW j \in 1..(i - 1)
               PROVE  /\ q[i].op = "join" => q[j].op = "join"
                      /\ q[i].op \in {"look", "insert"} => q[j].op \in {"look", "insert"}
    BY DEF Leading
  <2>1. CASE i \in 1..m /\ q[i] = s[i]
    <3>1. q[j] = s[j]
      BY <1>1, <1>2, <2>1
    <3>q. QED
      BY <2>1, <3>1 DEF Chained, Leading, m
  <2>2. CASE i > m /\ i - m \in 1..n /\ q[i] = p[i - m]
    BY <2>2 DEF n, InnerOps
  <2>q. QED
    BY <1>3, <2>1, <2>2
<1>6. Closes(q)
  <2> SUFFICES ASSUME NEW i \in 1..Len(q), q[i].op = "podium"
               PROVE  /\ \E j \in (i + 1)..Len(q) : q[j].op = "move"
                      /\ \A j \in (i + 1)..Len(q) :
                           q[j].op # "podium" /\ (q[j].op = "move" => q[j].on = "done")
    BY DEF Closes
  <2> DEFINE k == i - m
  <2>1. i > m /\ k \in 1..n /\ q[i] = p[k]
    BY <1>3 DEF m
  <2>2. /\ \E j \in (k + 1)..n : p[j].op = "move"
        /\ \A j \in (k + 1)..n :
             p[j].op # "podium" /\ (p[j].op = "move" => p[j].on = "done")
    BY <2>1 DEF Orderly, Closes, n
  <2>3. \E j \in (i + 1)..Len(q) : q[j].op = "move"
    <3>1. PICK j \in (k + 1)..n : p[j].op = "move"
      BY <2>2
    <3>2. m + j \in (i + 1)..Len(q) /\ m + j > m /\ (m + j) - m = j /\ m + j \in 1..Len(q)
      <4>1. /\ m \in Nat /\ n \in Nat /\ i \in Nat /\ i > m /\ Len(q) = m + n
            /\ j \in Nat /\ j > i - m /\ j <= n
        BY <1>1, <1>2, <2>1, <3>1
      <4>q. QED
        BY <4>1, SMTT(20)
    <3>3. q[m + j] = p[j]
      BY <1>1, <1>2, <3>2, SMTT(20)
    <3>q. QED
      BY <3>1, <3>2, <3>3
  <2>4. ASSUME NEW j \in (i + 1)..Len(q)
        PROVE  q[j].op # "podium" /\ (q[j].op = "move" => q[j].on = "done")
    <3>1. j - m \in (k + 1)..n /\ q[j] = p[j - m]
      BY <1>1, <1>2, <2>1
    <3>q. QED
      BY <2>2, <3>1
  <2>q. QED
    BY <2>3, <2>4
<1>7. \A i \in 1..Len(q) : Task(verb, q[i].op)
  BY <1>3 DEF Orderly, m, n
<1>q. QED
  BY <1>4, <1>5, <1>6, <1>7 DEF Orderly, Chained, q

LEMMA FillParts ==
  /\ Fill \in Seq(Steps) /\ Len(Fill) = 5 /\ Fill # <<>> /\ Chained(Fill)
  /\ Fill[1].op = "rules" /\ Fill[5].op = "members"
  /\ \A i \in 1..5 : Fill[i].op \in Reconciling \ InnerOps
<1>1. Fill \in Seq(Steps)
  BY DEF Fill, Steps, Typed, Do, Ops, Args, Verbs
<1>2. /\ Len(Fill) = 5
      /\ Fill[1].op = "rules" /\ Fill[2].op = "before" /\ Fill[3].op = "retire"
      /\ Fill[4].op = "sweep" /\ Fill[5].op = "members"
  BY DEF Fill, Do
<1> DEFINE f == Fill
<1>3. /\ f \in Seq(Steps) /\ Len(f) = 5 /\ f # <<>>
      /\ f[1].op = "rules" /\ f[2].op = "before" /\ f[3].op = "retire"
      /\ f[4].op = "sweep" /\ f[5].op = "members"
  BY <1>1, <1>2, EmptySeq
<1> HIDE DEF f
<1>4. \A i \in 1..5 : i = 1 \/ i = 2 \/ i = 3 \/ i = 4 \/ i = 5
  OBVIOUS
<1>5. \A i \in 1..4 : i = 1 \/ i = 2 \/ i = 3 \/ i = 4
  OBVIOUS
<1>6. \A i \in 1..5 : f[i].op \in Reconciling \ InnerOps
  BY <1>3, <1>4 DEF Reconciling, InnerOps
<1>7. \A i \in 1..(Len(f) - 1) : Follows(f[i].op, f[i + 1].op)
  <2>1. /\ Follows(f[1].op, f[2].op) /\ Follows(f[2].op, f[3].op)
        /\ Follows(f[3].op, f[4].op) /\ Follows(f[4].op, f[5].op)
    BY <1>3 DEF Follows
  <2>2. Len(f) - 1 = 4
    BY <1>3
  <2>3. 1 + 1 = 2 /\ 2 + 1 = 3 /\ 3 + 1 = 4 /\ 4 + 1 = 5
    OBVIOUS
  <2>q. QED
    BY <1>5, <2>1, <2>2, <2>3
<1>8. Leading(f)
  BY <1>3, <1>6 DEF Leading, InnerOps
<1>q. QED
  BY <1>3, <1>6, <1>7, <1>8 DEF Chained, f

(* A plan of statements that are no part of a reconciliation.               *)
LEMMA OrderlyEnding ==
  ASSUME NEW verb, NEW p \in Seq(Steps), Closes(p),
         \A i \in 1..Len(p) : Task(verb, p[i].op) /\ p[i].op \notin Reconciling
  PROVE  Orderly(p, verb)
<1>1. Len(p) \in Nat
  BY LenProperties
<1>2. \A i \in 1..(Len(p) - 1) : Follows(p[i].op, p[i + 1].op)
  <2> SUFFICES ASSUME NEW i \in 1..(Len(p) - 1) PROVE Follows(p[i].op, p[i + 1].op)
    OBVIOUS
  <2>1. i \in 1..Len(p) /\ i + 1 \in 1..Len(p)
    BY <1>1
  <2>2. p[i].op \notin Reconciling /\ p[i + 1].op \notin Reconciling
    BY <2>1
  <2>q. QED
    BY <2>2 DEF Follows, Reconciling
<1>3. Leading(p)
  BY DEF Leading, Reconciling
<1>q. QED
  BY <1>2, <1>3 DEF Orderly, Chained

Reporting(p) == \A i \in 1..Len(p) : p[i].op \in {"stamp", "commit"}

LEMMA FinishOrderly ==
  ASSUME NEW due, NEW verb \in {"start", "daily"}
  PROVE  /\ Finish(due) \in Seq(Steps) /\ Finish(due) # <<>>
         /\ Len(Finish(due)) \in Nat \ {0}
         /\ Reporting(Finish(due)) /\ Orderly(Finish(due), verb)
<1> DEFINE p == Finish(due)
<1>1. p \in Seq(Steps) /\ p # <<>>
  BY FinishIsGood DEF Good
<1>2. Reporting(p)
  <2>1. CASE due
    <3>1. p = <<Do("stamp"), Do("commit")>>
      BY <2>1 DEF Finish
    <3>2. Len(p) = 2 /\ p[1].op = "stamp" /\ p[2].op = "commit"
      BY <3>1 DEF Do
    <3> HIDE DEF p
    <3>q. QED
      BY <3>2 DEF Reporting
  <2>2. CASE ~due
    <3>1. p = <<Do("commit")>>
      BY <2>2 DEF Finish
    <3>2. Len(p) = 1 /\ p[1].op = "commit"
      BY <3>1 DEF Do
    <3> HIDE DEF p
    <3>q. QED
      BY <3>2 DEF Reporting
  <2>q. QED
    BY <2>1, <2>2
<1> HIDE DEF p
<1>3. Closes(p)
  BY <1>2 DEF Closes, Reporting
<1>4. Task(verb, "commit") /\ Task(verb, "stamp")
  BY DEF Task, Ops, Verbs
<1>5. \A i \in 1..Len(p) : Task(verb, p[i].op) /\ p[i].op \notin Reconciling
  BY <1>2, <1>4 DEF Reporting, Reconciling
<1>6. Orderly(p, verb)
  BY <1>1, <1>3, <1>5, OrderlyEnding
<1>7. Len(p) \in Nat \ {0}
  BY <1>1, EmptySeq, LenProperties
<1>q. QED
  BY <1>1, <1>2, <1>6, <1>7 DEF p

LEMMA MoveOrderly ==
  ASSUME NEW verb \in {"start", "daily"}, NEW x \in States, NEW p \in Seq(Steps), p # <<>>,
         Orderly(p, verb), p[1].op \in {"rules", "fail", "stamp", "commit"},
         \A i \in 1..Len(p) : p[i].op \notin InnerOps
  PROVE  /\ Orderly(<<On("move", x)>> \o p, verb)
         /\ <<On("move", x)>> \o p \in Seq(Steps) /\ <<On("move", x)>> \o p # <<>>
         /\ (<<On("move", x)>> \o p)[1].op = "move"
         /\ \A i \in 1..Len(<<On("move", x)>> \o p) :
              (<<On("move", x)>> \o p)[i].op \notin InnerOps
<1> DEFINE s == <<On("move", x)>>
<1>1. s \in Seq(Steps) /\ Len(s) = 1 /\ s[1].op = "move"
  BY DEF Steps, Typed, On, Ops, Args, Verbs, States
<1>2. s # <<>>
  BY <1>1
<1> HIDE DEF s
<1>3. Chained(s)
  BY <1>1 DEF Chained, Leading
<1>4. Task(verb, "move")
  BY DEF Task, Ops, Verbs
<1>5. Follows(s[Len(s)].op, p[1].op)
  <2>1. Len(p) \in Nat \ {0}
    BY EmptySeq, LenProperties
  <2>2. p[1].op \in {"rules", "fail", "stamp", "commit"}
    OBVIOUS
  <2>q. QED
    BY <1>1, <2>2 DEF Follows
<1>6. \A i \in 1..Len(s) : Task(verb, s[i].op) /\ s[i].op # "podium"
  BY <1>1, <1>4
<1>s. s \in Seq(Steps)
  BY <1>1
<1>7. Orderly(s \o p, verb)
  BY <1>s, <1>2, <1>3, <1>5, <1>6, OrderlyPrefix
<1>8. /\ s \o p \in Seq(Steps) /\ Len(s \o p) = 1 + Len(p) /\ Len(p) \in Nat
      /\ \A i \in 1..Len(s \o p) : (s \o p)[i] = IF i <= 1 THEN s[i] ELSE p[i - 1]
  <2>1. /\ s \o p \in Seq(Steps) /\ Len(s \o p) = Len(s) + Len(p)
        /\ \A i \in 1..Len(s \o p) : (s \o p)[i] = IF i <= Len(s) THEN s[i] ELSE p[i - Len(s)]
    BY <1>s, ConcatProperties, SMTT(20)
  <2>2. Len(p) \in Nat
    BY LenProperties
  <2>q. QED
    BY <1>1, <2>1, <2>2
<1> DEFINE q == s \o p
<1> HIDE DEF q
<1>9. q \in Seq(Steps) /\ q # <<>> /\ q[1].op = "move"
      /\ \A i \in 1..Len(q) : q[i].op \notin InnerOps
  BY <1>1, <1>8 DEF q, InnerOps
<1>q. QED
  BY <1>7, <1>9 DEF q, s

(* ... and of a reconciliation.                                             *)
LEMMA FillOrderly ==
  ASSUME NEW verb \in {"start", "daily"}, NEW p \in Seq(Steps), p # <<>>,
         Orderly(p, verb), p[1].op \in {"move", "goals"},
         \A i \in 1..Len(p) : p[i].op \notin InnerOps
  PROVE  /\ Orderly(Fill \o p, verb)
         /\ Fill \o p \in Seq(Steps) /\ Fill \o p # <<>> /\ (Fill \o p)[1].op = "rules"
         /\ \A i \in 1..Len(Fill \o p) : (Fill \o p)[i].op \notin InnerOps
<1> DEFINE s == Fill
<1>1. /\ s \in Seq(Steps) /\ Len(s) = 5 /\ s # <<>> /\ Chained(s)
      /\ s[1].op = "rules" /\ s[5].op = "members"
      /\ \A i \in 1..5 : s[i].op \in Reconciling \ InnerOps
  BY FillParts
<1> HIDE DEF s
<1>s. s \in Seq(Steps)
  BY <1>1
<1>2. Follows(s[Len(s)].op, p[1].op)
  BY <1>1 DEF Follows
<1>3. \A op \in Reconciling : Task(verb, op) /\ op # "podium"
  BY DEF Task, Ops, Verbs, Reconciling
<1>4. \A i \in 1..Len(s) : Task(verb, s[i].op) /\ s[i].op # "podium"
  BY <1>1, <1>3
<1>5. Orderly(s \o p, verb)
  BY <1>1, <1>2, <1>4, OrderlyPrefix
<1>6. /\ s \o p \in Seq(Steps) /\ Len(s \o p) = 5 + Len(p) /\ Len(p) \in Nat
      /\ \A i \in 1..Len(s \o p) : (s \o p)[i] = IF i <= 5 THEN s[i] ELSE p[i - 5]
  <2>1. /\ s \o p \in Seq(Steps) /\ Len(s \o p) = Len(s) + Len(p)
        /\ \A i \in 1..Len(s \o p) : (s \o p)[i] = IF i <= Len(s) THEN s[i] ELSE p[i - Len(s)]
    BY <1>s, ConcatProperties
  <2>2. Len(p) \in Nat
    BY LenProperties
  <2>q. QED
    BY <1>1, <2>1, <2>2
<1> DEFINE q == s \o p
<1> HIDE DEF q
<1>7. q \in Seq(Steps) /\ q # <<>> /\ q[1].op = "rules"
      /\ \A i \in 1..Len(q) : q[i].op \notin InnerOps
  <2>1. q \in Seq(Steps) /\ Len(q) = 5 + Len(p) /\ 1 \in 1..Len(q) /\ q # <<>>
    BY <1>6 DEF q
  <2>2. q[1].op = "rules"
    BY <1>1, <1>6, <2>1 DEF q
  <2>3. ASSUME NEW i \in 1..Len(q) PROVE q[i].op \notin InnerOps
    <3>1. CASE i <= 5
      BY <1>1, <1>6, <3>1 DEF q
    <3>2. CASE i > 5
      <4>1. i - 5 \in 1..Len(p) /\ q[i] = p[i - 5]
        BY <1>6, <2>1, <3>2 DEF q
      <4>q. QED
        BY <4>1
    <3>q. QED
      BY <1>6, <3>1, <3>2 DEF q
  <2>q. QED
    BY <2>1, <2>2, <2>3
<1>q. QED
  BY <1>5, <1>7 DEF q, s

(* The plans that a call takes up are orderly.                              *)
LEMMA StartIsOrderly ==
  ASSUME NEW d
  PROVE  Orderly(StartPlan(d), "start")
<1> DEFINE M == <<On("move", "inprogress")>>
           Z == Finish(NextReport[d] # None)
<1>1. /\ Z \in Seq(Steps) /\ Z # <<>> /\ Len(Z) \in Nat \ {0}
      /\ Reporting(Z) /\ Orderly(Z, "start")
  BY FinishOrderly
<1>2. StartPlan(d) = (Fill \o M) \o Z
  BY DEF StartPlan
<1>3. Fill \in Seq(Steps) /\ M \in Seq(Steps)
  BY FillParts DEF Steps, Typed, On, Ops, Args, Verbs, States
<1> HIDE DEF Z
<1>4. /\ Orderly(M \o Z, "start") /\ M \o Z \in Seq(Steps) /\ M \o Z # <<>>
      /\ (M \o Z)[1].op = "move"
      /\ \A i \in 1..Len(M \o Z) : (M \o Z)[i].op \notin InnerOps
  <2>1. \A i \in 1..Len(Z) : Z[i].op \notin InnerOps
    BY <1>1 DEF InnerOps, Reporting
  <2>2. Z[1].op \in {"rules", "fail", "stamp", "commit"}
    BY <1>1 DEF Reporting
  <2>q. QED
    BY <1>1, <2>1, <2>2, MoveOrderly DEF States
<1> HIDE DEF M
<1>5. Orderly(Fill \o (M \o Z), "start")
  BY <1>4, FillOrderly
<1>6. (Fill \o M) \o Z = Fill \o (M \o Z)
  BY <1>1, <1>3, Regroup
<1>q. QED
  BY <1>2, <1>5, <1>6

LEMMA CloseIsOrderly == Orderly(ClosePlan, "close")
<1> DEFINE p == ClosePlan
<1>1. p \in Seq(Steps)
  BY CloseIsGood DEF Good
<1>2. /\ Len(p) = 4 /\ p[1].op = "fail" /\ p[2].op = "podium"
      /\ p[3].op = "move" /\ p[3].on = "done" /\ p[4].op = "commit"
  BY DEF ClosePlan, Do, On
<1> HIDE DEF p
<1>3. \A i \in 1..Len(p) : i = 1 \/ i = 2 \/ i = 3 \/ i = 4
  BY <1>2
<1>4. \A i \in 1..Len(p) : Task("close", p[i].op) /\ p[i].op \notin Reconciling
  BY <1>2, <1>3 DEF Task, Reconciling
<1>5. Closes(p)
  <2> SUFFICES ASSUME NEW i \in 1..Len(p), p[i].op = "podium"
               PROVE  /\ \E j \in (i + 1)..Len(p) : p[j].op = "move"
                      /\ \A j \in (i + 1)..Len(p) :
                           p[j].op # "podium" /\ (p[j].op = "move" => p[j].on = "done")
    BY DEF Closes
  <2>1. i = 2 /\ Len(p) = 4
    BY <1>2, <1>3
  <2>2. 3 \in (i + 1)..Len(p) /\ \A j \in (i + 1)..Len(p) : j = 3 \/ j = 4
    BY <2>1
  <2>q. QED
    BY <1>2, <2>2
<1>q. QED
  BY <1>1, <1>4, <1>5, OrderlyEnding DEF p

LEMMA ResetIsOrderly == Orderly(ResetPlan, "reset")
<1> DEFINE p == ResetPlan
<1>1. p \in Seq(Steps)
  BY ResetIsGood DEF Good
<1>2. Len(p) = 3 /\ p[1].op = "check" /\ p[2].op = "move" /\ p[3].op = "commit"
  BY DEF ResetPlan, Do, On
<1> HIDE DEF p
<1>3. \A i \in 1..Len(p) : i = 1 \/ i = 2 \/ i = 3
  BY <1>2
<1>4. \A i \in 1..Len(p) : Task("reset", p[i].op) /\ p[i].op \notin Reconciling
  BY <1>2, <1>3 DEF Task, Reconciling
<1>5. Closes(p)
  BY <1>2, <1>3 DEF Closes
<1>q. QED
  BY <1>1, <1>4, <1>5, OrderlyEnding DEF p

LEMMA DailyIsOrderly ==
  ASSUME NEW x, NEW n, NEW d
  PROVE  /\ Orderly(DailyPlan(x, n, d), "daily")
         /\ \A i \in 1..Len(DailyPlan(x, n, d)) : DailyPlan(x, n, d)[i].op \notin InnerOps
         /\ DailyPlan(x, n, d)[1].op \in {"rules", "fail", "stamp", "commit"}
         /\ x = "done" => Reporting(DailyPlan(x, n, d))
<1> DEFINE A == StartEdge(x)
           W == <<Do("fail"), Do("podium"), Do("realtime"), On("move", "done")>>
           G == <<Do("goals"), Do("realtime")>>
           B == IF x = "done" THEN <<>> ELSE CloseOrSweep(d)
           Z == Finish(ReportDue(n, d))
           M == <<On("move", "inprogress")>>
           Apart(p) == \A i \in 1..Len(p) : p[i].op \notin InnerOps
<1>1. /\ W \in Seq(Steps) /\ Len(W) = 4 /\ W[1].op = "fail" /\ W[2].op = "podium"
      /\ W[3].op = "realtime" /\ W[4].op = "move" /\ W[4].on = "done"
  BY DEF Steps, Typed, Do, On, Ops, Args, States, Verbs
<1>2. G \in Seq(Steps) /\ Len(G) = 2 /\ G[1].op = "goals" /\ G[2].op = "realtime"
  BY DEF Steps, Typed, Do, On, Ops, Args, States, Verbs
<1>3. Z \in Seq(Steps) /\ Z # <<>> /\ Len(Z) \in Nat \ {0} /\ Reporting(Z)
  BY FinishOrderly
<1>4. Fill \in Seq(Steps) /\ M \in Seq(Steps)
  BY FillParts DEF Steps, Typed, On, Ops, Args, Verbs, States
<1>5. Orderly(Z, "daily")
  BY FinishOrderly
<1> HIDE DEF W, G, Z, M
<1>s. W \in Seq(Steps) /\ G \in Seq(Steps) /\ Z \in Seq(Steps)
  BY <1>1, <1>2, <1>3
<1>6. \A op \in {"fail", "podium", "realtime", "move", "goals", "stamp", "commit"} :
        Task("daily", op) /\ op \notin Reconciling \cup InnerOps
  BY DEF Task, Ops, Verbs, Reconciling, InnerOps
<1>7. /\ Orderly(W \o Z, "daily") /\ W \o Z \in Seq(Steps) /\ W \o Z # <<>>
      /\ (W \o Z)[1].op = "fail" /\ Apart(W \o Z)
  <2> DEFINE q == W \o Z
  <2>1. /\ q \in Seq(Steps) /\ Len(q) = Len(W) + Len(Z)
        /\ \A i \in 1..Len(q) : q[i] = IF i <= Len(W) THEN W[i] ELSE Z[i - Len(W)]
    <3> HIDE DEF A, B, Apart
    <3>q. QED
      BY <1>s, ConcatProperties
  <2> HIDE DEF q
  <2>2. Len(q) = 4 + Len(Z) /\ Len(q) >= 5
    BY <1>1, <1>3, <2>1
  <2>3. /\ q[1] = W[1] /\ q[2] = W[2] /\ q[3] = W[3] /\ q[4] = W[4]
        /\ \A i \in 5..Len(q) : i - 4 \in 1..Len(Z) /\ q[i] = Z[i - 4]
    BY <1>1, <1>3, <2>1, <2>2
  <2>4. /\ q[1].op = "fail" /\ q[2].op = "podium" /\ q[3].op = "realtime"
        /\ q[4].op = "move" /\ q[4].on = "done"
        /\ \A i \in 5..Len(q) : q[i].op \in {"stamp", "commit"}
    BY <1>1, <1>3, <2>3 DEF Reporting
  <2>9. \A i \in 1..Len(q) : i = 1 \/ i = 2 \/ i = 3 \/ i = 4 \/ i \in 5..Len(q)
    BY <2>2
  <2>5. \A i \in 1..Len(q) : Task("daily", q[i].op) /\ q[i].op \notin Reconciling
                             /\ q[i].op \notin InnerOps
    BY <1>6, <2>4, <2>9
  <2>6. Closes(q)
    <3> SUFFICES ASSUME NEW i \in 1..Len(q), q[i].op = "podium"
                 PROVE  /\ \E j \in (i + 1)..Len(q) : q[j].op = "move"
                        /\ \A j \in (i + 1)..Len(q) :
                             q[j].op # "podium" /\ (q[j].op = "move" => q[j].on = "done")
      BY DEF Closes
    <3>1. i = 2
      BY <2>4, <2>9
    <3>2. /\ 4 \in (i + 1)..Len(q)
          /\ \A j \in (i + 1)..Len(q) : j = 3 \/ j = 4 \/ j \in 5..Len(q)
      BY <2>2, <3>1
    <3>q. QED
      BY <2>4, <3>2
  <2>7. Orderly(q, "daily")
    BY <2>1, <2>5, <2>6, OrderlyEnding
  <2>8. q # <<>>
    <3>1. q \in Seq(Steps)
      BY <2>1
    <3>2. Len(q) # 0
      BY <2>2
    <3> HIDE DEF A, B, Apart
    <3>q. QED
      BY <3>1, <3>2, EmptySeq
  <2>q. QED
    BY <2>1, <2>4, <2>5, <2>7, <2>8 DEF q
<1>8. /\ Orderly(G \o Z, "daily") /\ G \o Z \in Seq(Steps) /\ G \o Z # <<>>
      /\ (G \o Z)[1].op = "goals" /\ Apart(G \o Z)
  <2> DEFINE q == G \o Z
  <2>1. /\ q \in Seq(Steps) /\ Len(q) = Len(G) + Len(Z)
        /\ \A i \in 1..Len(q) : q[i] = IF i <= Len(G) THEN G[i] ELSE Z[i - Len(G)]
    <3> HIDE DEF A, B, Apart
    <3>q. QED
      BY <1>s, ConcatProperties
  <2> HIDE DEF q
  <2>2. Len(q) = 2 + Len(Z) /\ Len(q) >= 3
    BY <1>2, <1>3, <2>1
  <2>3. /\ q[1] = G[1] /\ q[2] = G[2]
        /\ \A i \in 3..Len(q) : i - 2 \in 1..Len(Z) /\ q[i] = Z[i - 2]
    BY <1>2, <1>3, <2>1, <2>2
  <2>4. /\ q[1].op = "goals" /\ q[2].op = "realtime"
        /\ \A i \in 3..Len(q) : q[i].op \in {"stamp", "commit"}
    BY <1>2, <1>3, <2>3 DEF Reporting
  <2>9. \A i \in 1..Len(q) : i = 1 \/ i = 2 \/ i \in 3..Len(q)
    BY <2>2
  <2>5. \A i \in 1..Len(q) : Task("daily", q[i].op) /\ q[i].op \notin Reconciling
                             /\ q[i].op \notin InnerOps
    BY <1>6, <2>4, <2>9
  <2>6. Closes(q)
    BY <2>4, <2>9 DEF Closes
  <2>7. Orderly(q, "daily")
    BY <2>1, <2>5, <2>6, OrderlyEnding
  <2>8. q # <<>>
    <3>1. q \in Seq(Steps)
      BY <2>1
    <3>2. Len(q) # 0
      BY <2>2
    <3> HIDE DEF A, B, Apart
    <3>q. QED
      BY <3>1, <3>2, EmptySeq
  <2>q. QED
    BY <2>1, <2>4, <2>5, <2>7, <2>8 DEF q
<1> DEFINE N == B \o Z
<1>9. /\ Orderly(N, "daily") /\ N \in Seq(Steps) /\ N # <<>> /\ Apart(N)
      /\ N[1].op \in {"rules", "fail", "stamp", "commit"} /\ B \in Seq(Steps)
      /\ x = "done" => Reporting(N)
  <2>0. CASE x = "done"
    <3>1. B = <<>> /\ B \in Seq(Steps)
      BY <2>0
    <3>2. N = Z
      BY <3>1, <1>3, ConcatEmptySeq
    <3>3. Apart(Z) /\ Z[1].op \in {"stamp", "commit"}
      BY <1>3 DEF Reporting, InnerOps
    <3> HIDE DEF N, B, Apart
    <3>q. QED
      BY <3>1, <3>2, <3>3, <1>3, <1>5
  <2>1. CASE x # "done" /\ Over(d)
    <3>1. B = W
      BY <2>1 DEF CloseOrSweep, W
    <3>q. QED
      BY <2>1, <3>1, <1>1, <1>7
  <2>2. CASE x # "done" /\ ~Over(d)
    <3>1. B = Fill \o G
      BY <2>2 DEF CloseOrSweep, G
    <3>2. /\ Orderly(Fill \o (G \o Z), "daily") /\ Fill \o (G \o Z) \in Seq(Steps)
          /\ Fill \o (G \o Z) # <<>> /\ (Fill \o (G \o Z))[1].op = "rules"
          /\ Apart(Fill \o (G \o Z))
      BY <1>8, FillOrderly
    <3>3. (Fill \o G) \o Z = Fill \o (G \o Z) /\ Fill \o G \in Seq(Steps)
      <4>1. Fill \in Seq(Steps) /\ G \in Seq(Steps) /\ Z \in Seq(Steps)
        BY <1>s, <1>4
      <4> HIDE DEF A, B, N, Apart
      <4>q. QED
        BY <4>1, Regroup
    <3>q. QED
      BY <2>2, <3>1, <3>2, <3>3
  <2>q. QED
    BY <2>0, <2>1, <2>2
<1> HIDE DEF N
<1>10. /\ Orderly(A \o N, "daily") /\ Apart(A \o N)
       /\ (A \o N)[1].op \in {"rules", "fail", "stamp", "commit"} /\ A \in Seq(Steps)
       /\ x = "done" => Reporting(A \o N)
  <2>1. CASE x = "draft"
    <3>1. A = Fill \o M
      BY <2>1 DEF M, StartEdge
    <3>2. /\ Orderly(M \o N, "daily") /\ M \o N \in Seq(Steps) /\ M \o N # <<>>
          /\ (M \o N)[1].op = "move" /\ Apart(M \o N)
      BY <1>9, MoveOrderly DEF M, States
    <3>3. /\ Orderly(Fill \o (M \o N), "daily") /\ Apart(Fill \o (M \o N))
          /\ (Fill \o (M \o N))[1].op = "rules"
      BY <3>2, FillOrderly
    <3>4. (Fill \o M) \o N = Fill \o (M \o N) /\ Fill \o M \in Seq(Steps)
      <4>1. Fill \in Seq(Steps) /\ M \in Seq(Steps) /\ N \in Seq(Steps)
        BY <1>4, <1>9
      <4> HIDE DEF A
      <4>q. QED
        BY <4>1, Regroup
    <3> HIDE DEF A
    <3>q. QED
      BY <2>1, <3>1, <3>3, <3>4
  <2>2. CASE x # "draft"
    <3>1. A = <<>> /\ A \in Seq(Steps)
      BY <2>2 DEF StartEdge
    <3>2. A \o N = N
      BY <3>1, <1>9, ConcatEmptySeq
    <3>q. QED
      BY <3>1, <3>2, <1>9
  <2>q. QED
    BY <2>1, <2>2
<1> HIDE DEF A, B
<1>11. (A \o B) \o Z = A \o (B \o Z)
  <2>1. A \in Seq(Steps) /\ B \in Seq(Steps) /\ Z \in Seq(Steps)
    BY <1>3, <1>9, <1>10
  <2>q. QED
    BY <2>1, Regroup
<1>12. DailyPlan(x, n, d) = (A \o B) \o Z
  BY DEF DailyPlan, A, B, Z
<1>q. QED
  BY <1>10, <1>11, <1>12 DEF N

-----------------------------------------------------------------------------
(* What a statement does.                                                   *)

(* Row w is row v, or what call c made of it.                               *)
Rewritten(v, w, c) == w = v \/ (Free(v, c) /\ w.by = c /\ w.now = v.now)

(* Call c runs the first statement of its plan, which is no verb and no     *)
(* commit, and puts s in its place.                                         *)
Deed(c, s) ==
  LET a == plan[c][1].op IN
    /\ s \in Seq(Inner) /\ Stepped(c, s) /\ Instead(c, s)
    /\ Opened(a, s) /\ a \notin Verbs \cup {"commit"}
    /\ \/ challenge' = challenge
       \/ a = "move" /\ Rewritten(challenge, challenge', c)
    /\ \/ member' = member
       \/ a \in {"join", "retire"} /\ \A u \in Users : Rewritten(member[u], member'[u], c)
    /\ \/ goal' = goal
       \/ /\ a \in {"sweep", "insert", "evaluate", "fail"}
          /\ \A g \in Goals : Rewritten(goal[g], goal'[g], c)
    /\ \/ grant' = grant
       \/ a = "grant" /\ \A k \in Badges \X Users : Rewritten(grant[k], grant'[k], c)
    /\ \/ target' = target
       \/ a \in {"rules", "sweep"} /\ \A d \in Calls \ {c} : target'[d] = target[d]
    /\ \/ before' = before
       \/ a \in {"before", "sweep"} /\ \A d \in Calls \ {c} : before'[d] = before[d]
    /\ day' = day /\ today' = today /\ closings' = closings

LEMMA OpenedOne ==
  ASSUME NEW s, NEW a, NEW b \in {"join", "evaluate", "grant", "look"},
         \A i \in 1..Len(s) : s[i].op = b,
         \/ b = "join" /\ a = "before"
         \/ b = "look" /\ a = "members"
         \/ b = "evaluate" /\ a = "goals"
         \/ b = "grant" /\ a \in {"podium", "realtime"}
  PROVE  Opened(a, s)
  BY DEF Opened

(* A statement that plans nothing new.                                      *)
LEMMA PlainDeed ==
  ASSUME Types, NEW c \in Calls, NEW op \in Ops \ (Verbs \cup {"commit"}), At(c, op), Done(c)
  PROVE  /\ <<>> \in Seq(Inner) /\ Stepped(c, <<>>) /\ Instead(c, <<>>)
         /\ Opened(plan[c][1].op, <<>>) /\ plan[c][1].op = op
         /\ plan[c][1].op \notin Verbs \cup {"commit"}
<1>1. Stepped(c, <<>>) /\ plan[c][1].op = op
  BY DoneSteps DEF Types
<1>2. Opened(op, <<>>)
  BY EmptyIsInner DEF Opened
<1>q. QED
  BY <1>1, <1>2, EmptyIsInner DEF Done

(* What a reading statement puts in its place follows from what it read.    *)
Laid(c, s) ==
  LET a == plan[c][1].op IN
    /\ a = "before" => \A i \in 1..Len(s) : s[i].on \in target[c]
    /\ a = "members" => \A i \in 1..Len(s) :
         s[i].on[2] \in Users /\ Sees(member[s[i].on[2]], c)
    /\ a = "look" => \A i \in 1..Len(s) :
         /\ s[i].on = plan[c][1].on
         /\ \A g \in GoalsSeen(c) :
              <<g[2], g[3]>> = plan[c][1].on => ~Active(Sees(goal[g], c), today[c])
    /\ a = "podium" => \E ranked : \A i \in 1..Len(s) :
         \E p \in DOMAIN Podium : s[i].on = <<Podium[p], ranked[p]>>
    /\ a = "realtime" => \A i \in 1..Len(s) : s[i].on[1] = RewardBadge

LEMMA EmptyIsLaid == ASSUME NEW c PROVE Laid(c, <<>>)
  BY EmptyIsInner DEF Laid

(* Reading statements.                                                      *)
LEMMA ReadingDeed ==
  ASSUME Types, NEW c \in Calls,
         \/ ReadRules(c) \/ ReadBefore(c) \/ ReadMembers(c) \/ Look(c) \/ ReadGoals(c)
         \/ ReadPodium(c) \/ ReadRealtime(c) \/ Check(c)
  PROVE  \E s : Deed(c, s) /\ Laid(c, s) /\ UNCHANGED tables
<1>1. ASSUME NEW op \in Ops \ (Verbs \cup {"commit"}), At(c, op), NEW s \in Seq(Inner),
             Instead(c, s), Opened(op, s), (\E i \in 1..Len(s) : s[i].op = "join") => op \in Joining,
             UNCHANGED tables, day' = day, today' = today, closings' = closings,
             \/ target' = target
             \/ op \in {"rules", "sweep"} /\ \A d \in Calls \ {c} : target'[d] = target[d],
             \/ before' = before
             \/ op \in {"before", "sweep"} /\ \A d \in Calls \ {c} : before'[d] = before[d]
      PROVE  Deed(c, s) /\ plan[c][1].op = op
  <2>1. Stepped(c, s) /\ plan[c][1].op = op
    BY <1>1, StepOfPlan, Running DEF Types
  <2>q. QED
    BY <1>1, <2>1 DEF Deed, tables
<1>2. CASE ReadRules(c)
  <2>1. At(c, "rules") /\ Done(c) /\ target \in [Calls -> SUBSET Users]
        /\ target' = [target EXCEPT ![c] = rules]
    BY <1>2 DEF ReadRules, Types, Others
  <2>2. \A d \in Calls \ {c} : target'[d] = target[d]
    BY <2>1
  <2>3. Instead(c, <<>>) /\ Opened("rules", <<>>) /\ "rules" \in Ops \ (Verbs \cup {"commit"})
    BY <2>1, EmptyIsInner DEF Done, Opened, Ops, Verbs
  <2>4. UNCHANGED <<tables, day, today, closings, before>>
    BY <1>2 DEF ReadRules
  <2>q. QED
    BY <1>1, <2>1, <2>2, <2>3, <2>4, EmptyIsInner, EmptyIsLaid
<1>3. CASE ReadBefore(c)
  <2>1. PICK s : Lays(c, s, "join") /\ \A i \in 1..Len(s) : s[i].on \in target[c]
    BY <1>3, BeforeRead
  <2>2. At(c, "before") /\ before \in [Calls -> SUBSET Users]
        /\ before' = [before EXCEPT ![c] = {u \in Users : Sees(member[u], c)}]
    BY <1>3 DEF ReadBefore, Types, Others
  <2>3. \A d \in Calls \ {c} : before'[d] = before[d]
    BY <2>2
  <2>4. UNCHANGED <<tables, day, today, closings, target>>
    BY <1>3 DEF ReadBefore
  <2>5. Opened("before", s) /\ "before" \in (Ops \ (Verbs \cup {"commit"})) \cap Joining
    BY <2>1, OpenedOne DEF Lays, Ops, Verbs, Joining
  <2>6. s \in Seq(Inner) /\ Instead(c, s)
    BY <2>1 DEF Lays
  <2>7. Deed(c, s) /\ plan[c][1].op = "before"
    BY <1>1, <2>2, <2>3, <2>4, <2>5, <2>6
  <2>8. Laid(c, s)
    BY <2>1, <2>7 DEF Laid
  <2>q. QED
    BY <2>4, <2>7, <2>8
<1>4. CASE ReadMembers(c)
  <2>1. PICK s : /\ Lays(c, s, "look")
                 /\ \A i \in 1..Len(s) : s[i].on[2] \in Users /\ Sees(member[s[i].on[2]], c)
    BY <1>4, MembersRead
  <2>2. At(c, "members") /\ UNCHANGED <<tables, day, today, closings, target, before>>
    BY <1>4 DEF ReadMembers
  <2>3. Opened("members", s) /\ "members" \in Ops \ (Verbs \cup {"commit"})
    BY <2>1, OpenedOne DEF Lays, Ops, Verbs
  <2>4. Deed(c, s) /\ plan[c][1].op = "members"
    BY <1>1, <2>1, <2>2, <2>3 DEF Lays
  <2>5. Laid(c, s)
    BY <2>1, <2>4 DEF Laid
  <2>q. QED
    BY <2>2, <2>4, <2>5
<1>5. CASE Look(c)
  <2>1. At(c, "look") /\ UNCHANGED <<tables, day, today, closings, target, before>>
    BY <1>5 DEF Look
  <2>2. CASE Done(c)
    <3>1. Instead(c, <<>>) /\ Opened("look", <<>>) /\ "look" \in Ops \ (Verbs \cup {"commit"})
      BY <2>2, EmptyIsInner DEF Done, Opened, Ops, Verbs
    <3>q. QED
      BY <1>1, <2>1, <3>1, EmptyIsInner, EmptyIsLaid
  <2>3. CASE /\ Instead(c, <<On("insert", Arg(c))>>)
             /\ \A g \in GoalsSeen(c) :
                  <<g[2], g[3]>> = Arg(c) => ~Active(Sees(goal[g], c), today[c])
    <3> DEFINE s == <<On("insert", Arg(c))>>
    <3>1. Good(plan[c]) /\ Arg(c) = plan[c][1].on /\ plan[c][1].op = "look"
      BY <2>1, Running DEF Types, Verbs
    <3>2. plan[c][1] \in Steps
      BY <3>1, EmptySeq, ElementOfSeq DEF Good
    <3>3. Arg(c) \in Lines \X Users
      BY <3>1, <3>2 DEF Steps, Typed
    <3>4. On("insert", Arg(c)) \in Inner
      BY <3>3 DEF On, Inner, Steps, Typed, Ops, Args
    <3>5. s \in Seq(Inner) /\ Len(s) = 1 /\ s[1].op = "insert" /\ s[1].on = Arg(c)
      BY <3>4 DEF On
    <3>6. Instead(c, s)
      BY <2>3
    <3> HIDE DEF s
    <3>7. Opened("look", s) /\ "look" \in Ops \ (Verbs \cup {"commit"})
      BY <3>5 DEF Opened, Ops, Verbs
    <3>8. ~\E i \in 1..Len(s) : s[i].op = "join"
      BY <3>5
    <3>9. Deed(c, s)
      BY <1>1, <2>1, <3>5, <3>6, <3>7, <3>8
    <3>10. Laid(c, s)
      BY <2>3, <3>1, <3>5 DEF Laid
    <3>q. QED
      BY <2>1, <3>9, <3>10
  <2>q. QED
    BY <1>5, <2>2, <2>3 DEF Look
<1>6. CASE ReadGoals(c)
  <2>1. PICK s : Lays(c, s, "evaluate")
    BY <1>6, GoalsRead
  <2>2. At(c, "goals") /\ UNCHANGED <<tables, day, today, closings, target, before>>
    BY <1>6 DEF ReadGoals
  <2>3. Opened("goals", s) /\ "goals" \in Ops \ (Verbs \cup {"commit"})
    BY <2>1, OpenedOne DEF Lays, Ops, Verbs
  <2>4. Deed(c, s) /\ plan[c][1].op = "goals"
    BY <1>1, <2>1, <2>2, <2>3 DEF Lays
  <2>5. Laid(c, s)
    BY <2>1, <2>4 DEF Laid
  <2>q. QED
    BY <2>2, <2>4, <2>5
<1>7. CASE ReadPodium(c)
  <2>1. PICK s, ranked : /\ Lays(c, s, "grant")
                         /\ \A i \in 1..Len(s) : \E p \in DOMAIN Podium :
                              s[i].on = <<Podium[p], ranked[p]>>
    BY <1>7, PodiumRead
  <2>2. At(c, "podium") /\ UNCHANGED <<tables, day, today, closings, target, before>>
    BY <1>7 DEF ReadPodium
  <2>3. Opened("podium", s) /\ "podium" \in Ops \ (Verbs \cup {"commit"})
    BY <2>1, OpenedOne DEF Lays, Ops, Verbs
  <2>4. Deed(c, s) /\ plan[c][1].op = "podium"
    BY <1>1, <2>1, <2>2, <2>3 DEF Lays
  <2>5. Laid(c, s)
    BY <2>1, <2>4 DEF Laid
  <2>q. QED
    BY <2>2, <2>4, <2>5
<1>8. CASE ReadRealtime(c)
  <2>1. PICK s : Lays(c, s, "grant") /\ \A i \in 1..Len(s) : s[i].on[1] = RewardBadge
    BY <1>8, RealtimeRead
  <2>2. At(c, "realtime") /\ UNCHANGED <<tables, day, today, closings, target, before>>
    BY <1>8 DEF ReadRealtime
  <2>3. Opened("realtime", s) /\ "realtime" \in Ops \ (Verbs \cup {"commit"})
    BY <2>1, OpenedOne DEF Lays, Ops, Verbs
  <2>4. Deed(c, s) /\ plan[c][1].op = "realtime"
    BY <1>1, <2>1, <2>2, <2>3 DEF Lays
  <2>5. Laid(c, s)
    BY <2>1, <2>4 DEF Laid
  <2>q. QED
    BY <2>2, <2>4, <2>5
<1>9. CASE Check(c)
  <2>1. At(c, "check") /\ Done(c) /\ UNCHANGED <<tables, day, today, closings, target, before>>
    BY <1>9 DEF Check
  <2>2. Instead(c, <<>>) /\ Opened("check", <<>>) /\ "check" \in Ops \ (Verbs \cup {"commit"})
    BY <2>1, EmptyIsInner DEF Done, Opened, Ops, Verbs
  <2>q. QED
    BY <1>1, <2>1, <2>2, EmptyIsInner, EmptyIsLaid
<1>q. QED
  BY <1>2, <1>3, <1>4, <1>5, <1>6, <1>7, <1>8, <1>9 DEF ReadRules, ReadBefore, ReadMembers,
     Look, ReadGoals, ReadPodium, ReadRealtime, Check

(* Writing statements.                                                      *)
LEMMA WritingDeed ==
  ASSUME Types, NEW c \in Calls,
         \/ Join(c) \/ Retire(c) \/ Sweep(c) \/ Insert(c) \/ Evaluate(c) \/ Fail(c)
         \/ Grant(c) \/ Move(c) \/ StampReport(c)
  PROVE  Deed(c, <<>>)
<1>0. /\ challenge \in Rows(States)
      /\ member \in [Users -> Rows(BOOLEAN)]
      /\ goal \in [Goals -> Rows(GoalRow \cup {None})]
      /\ grant \in [Badges \X Users -> Rows(BOOLEAN)]
      /\ target \in [Calls -> SUBSET Users] /\ before \in [Calls -> SUBSET Users]
  BY DEF Types, Tables, Others
<1>p. \A V, x : \A v \in Rows(V) : Put(v, c, x).by = c /\ Put(v, c, x).now = v.now
  BY DEF Put, Rows
<1>w. \A V, x : \A v \in Rows(V) : Free(v, c) => Rewritten(v, Put(v, c, x), c)
  BY <1>p DEF Rewritten
<1>r. \A v : Rewritten(v, v, c)
  BY DEF Rewritten
<1>1. CASE Join(c)
  <2>1. At(c, "join") /\ Done(c) /\ "join" \in Ops \ (Verbs \cup {"commit"})
        /\ UNCHANGED <<challenge, goal, grant, target, before, day, today, closings>>
    BY <1>1 DEF Join, Ops, Verbs
  <2>2. \A u \in Users : Rewritten(member[u], member'[u], c)
    <3> DEFINE v == Arg(c)
    <3>1. \/ member' = member
          \/ Free(member[v], c) /\ member' = [member EXCEPT ![v] = Put(member[v], c, TRUE)]
      BY <1>1 DEF Join
    <3> HIDE DEF v
    <3> SUFFICES ASSUME NEW u \in Users PROVE Rewritten(member[u], member'[u], c)
      OBVIOUS
    <3>2. \/ member'[u] = member[u]
          \/ Free(member[u], c) /\ member'[u] = Put(member[u], c, TRUE)
      BY <1>0, <3>1
    <3>q. QED
      BY <1>0, <1>r, <1>w, <3>2
  <2>q. QED
    BY <2>1, <2>2, PlainDeed DEF Deed
<1>2. CASE Retire(c)
  <2>1. At(c, "retire") /\ Done(c) /\ "retire" \in Ops \ (Verbs \cup {"commit"})
        /\ UNCHANGED <<challenge, goal, grant, target, before, day, today, closings>>
    BY <1>2 DEF Retire, Ops, Verbs
  <2>2. \A u \in Users : Rewritten(member[u], member'[u], c)
    <3>1. PICK us \in SUBSET Users :
            /\ \A u \in us : Free(member[u], c)
            /\ member' = [u \in Users |-> IF u \in us THEN Put(member[u], c, FALSE) ELSE member[u]]
      BY <1>2 DEF Retire
    <3> SUFFICES ASSUME NEW u \in Users PROVE Rewritten(member[u], member'[u], c)
      OBVIOUS
    <3>2. \/ member'[u] = member[u]
          \/ Free(member[u], c) /\ member'[u] = Put(member[u], c, FALSE)
      BY <3>1
    <3>q. QED
      BY <1>0, <1>r, <1>w, <3>2
  <2>q. QED
    BY <2>1, <2>2, PlainDeed DEF Deed
<1>g. ASSUME NEW gs, NEW x, SetGoals(c, gs, x)
      PROVE  \A g \in Goals : Rewritten(goal[g], goal'[g], c)
  <2> SUFFICES ASSUME NEW g \in Goals PROVE Rewritten(goal[g], goal'[g], c)
    OBVIOUS
  <2>1. /\ \A h \in gs : Free(goal[h], c)
        /\ goal'[g] = IF g \in gs THEN Put(goal[g], c, [Sees(goal[g], c) EXCEPT !.state = x])
                      ELSE goal[g]
    BY <1>g DEF SetGoals
  <2>q. QED
    BY <1>0, <1>p, <2>1 DEF Rewritten
<1>3. CASE Sweep(c)
  <2>1. At(c, "sweep") /\ Done(c) /\ "sweep" \in Ops \ (Verbs \cup {"commit"})
        /\ UNCHANGED <<challenge, member, grant, day, today, closings>>
    BY <1>3 DEF Sweep, Ops, Verbs
  <2>2. \A g \in Goals : Rewritten(goal[g], goal'[g], c)
    BY <1>3, <1>g DEF Sweep
  <2>3. \A d \in Calls \ {c} : target'[d] = target[d] /\ before'[d] = before[d]
    BY <1>0, <1>3 DEF Sweep
  <2>q. QED
    BY <2>1, <2>2, <2>3, PlainDeed DEF Deed
<1>4. CASE Insert(c)
  <2>1. At(c, "insert") /\ Done(c) /\ "insert" \in Ops \ (Verbs \cup {"commit"})
        /\ UNCHANGED <<challenge, member, grant, target, before, day, today, closings>>
    BY <1>4 DEF Insert, Ops, Verbs
  <2>2. Types' /\ GoalWrites(c)
    BY <1>4, Inserted
  <2>3. \A g \in Goals : Rewritten(goal[g], goal'[g], c)
    BY <2>2 DEF GoalWrites, Rewritten
  <2>q. QED
    BY <2>1, <2>3, PlainDeed DEF Deed
<1>5. CASE Evaluate(c)
  <2>1. At(c, "evaluate") /\ Done(c) /\ "evaluate" \in Ops \ (Verbs \cup {"commit"})
        /\ UNCHANGED <<challenge, member, grant, target, before, day, today, closings>>
    BY <1>5 DEF Evaluate, Ops, Verbs
  <2>2. GoalWrites(c)
    BY <1>5, Evaluates DEF Quiet
  <2>3. \A g \in Goals : Rewritten(goal[g], goal'[g], c)
    BY <2>2 DEF GoalWrites, Rewritten
  <2>q. QED
    BY <2>1, <2>3, PlainDeed DEF Deed
<1>6. CASE Fail(c)
  <2>1. At(c, "fail") /\ Done(c) /\ "fail" \in Ops \ (Verbs \cup {"commit"})
        /\ UNCHANGED <<challenge, member, grant, target, before, day, today, closings>>
    BY <1>6 DEF Fail, Ops, Verbs
  <2>2. \A g \in Goals : Rewritten(goal[g], goal'[g], c)
    BY <1>6, <1>g DEF Fail
  <2>q. QED
    BY <2>1, <2>2, PlainDeed DEF Deed
<1>7. CASE Grant(c)
  <2>1. At(c, "grant") /\ Done(c) /\ "grant" \in Ops \ (Verbs \cup {"commit"})
        /\ UNCHANGED <<challenge, member, goal, target, before, day, today, closings>>
    BY <1>7 DEF Grant, Ops, Verbs
  <2>2. \A k \in Badges \X Users : Rewritten(grant[k], grant'[k], c)
    <3> DEFINE v == Arg(c)
    <3>1. \/ grant' = grant
          \/ Free(grant[v], c) /\ grant' = [grant EXCEPT ![v] = Put(grant[v], c, TRUE)]
      BY <1>7 DEF Grant
    <3> HIDE DEF v
    <3> SUFFICES ASSUME NEW k \in Badges \X Users PROVE Rewritten(grant[k], grant'[k], c)
      OBVIOUS
    <3>2. \/ grant'[k] = grant[k]
          \/ Free(grant[k], c) /\ grant'[k] = Put(grant[k], c, TRUE)
      BY <1>0, <3>1
    <3>q. QED
      BY <1>0, <1>r, <1>w, <3>2
  <2>q. QED
    BY <2>1, <2>2, PlainDeed DEF Deed
<1>8. CASE Move(c)
  <2>1. At(c, "move") /\ Done(c) /\ "move" \in Ops \ (Verbs \cup {"commit"})
        /\ UNCHANGED <<member, goal, grant, target, before, day, today, closings>>
    BY <1>8 DEF Move, Ops, Verbs
  <2>2. Rewritten(challenge, challenge', c)
    BY <1>0, <1>8, <1>p DEF Move, Rewritten
  <2>q. QED
    BY <2>1, <2>2, PlainDeed DEF Deed
<1>9. CASE StampReport(c)
  <2>1. At(c, "stamp") /\ Done(c) /\ "stamp" \in Ops \ (Verbs \cup {"commit"})
        /\ UNCHANGED <<challenge, member, goal, grant, target, before, day, today, closings>>
    BY <1>9 DEF StampReport, Ops, Verbs
  <2>q. QED
    BY <2>1, PlainDeed DEF Deed
<1>q. QED
  BY <1>1, <1>2, <1>3, <1>4, <1>5, <1>6, <1>7, <1>8, <1>9

(* Every statement but the first of a call and its last is a deed.          *)
LEMMA Deeds ==
  ASSUME Types, NEW c \in Calls,
         \/ Quietly(c) \/ Move(c)
         \/ Join(c) \/ Retire(c) \/ ReadMembers(c) \/ Look(c) \/ Insert(c)
  PROVE  \E s : Deed(c, s) /\ Laid(c, s)
  BY ReadingDeed, WritingDeed, EmptyIsLaid DEF Quietly

(* How a transaction ends.                                                  *)
LEMMA Endings ==
  ASSUME Types, NEW c \in Calls, NEW keep \in BOOLEAN, Good(plan[c]), End(c, keep)
  PROVE  /\ plan'[c] = <<>> /\ ~Good(<<>>)
         /\ \A d \in Calls \ {c} : plan'[d] = plan[d]
         /\ challenge' = Settled(challenge, c, keep)
         /\ \A u \in Users : member'[u] = Settled(member[u], c, keep)
         /\ \A g \in Goals : goal'[g] = Settled(goal[g], c, keep)
         /\ \A k \in Badges \X Users : grant'[k] = Settled(grant[k], c, keep)
         /\ \A d \in Calls \ {c} : target'[d] = target[d] /\ before'[d] = before[d]
         /\ day' = day /\ today' = today
<1>1. plan'[c] = <<>> /\ \A d \in Calls \ {c} : plan'[d] = plan[d]
  BY Ends
<1>2. target \in [Calls -> SUBSET Users] /\ before \in [Calls -> SUBSET Users]
  BY DEF Types, Others
<1>3. \A d \in Calls \ {c} : target'[d] = target[d] /\ before'[d] = before[d]
  BY <1>2 DEF End
<1>q. QED
  BY <1>1, <1>3 DEF End, Good

(* What is left of a row when call c settles.                               *)
LEMMA SettledRow ==
  ASSUME NEW V, NEW v \in Rows(V), v.by = None => v.new = v.now,
         NEW c \in Calls, NEW keep \in BOOLEAN, NEW w, w = Settled(v, c, keep)
  PROVE  /\ v.by # c => w = v
         /\ v.by = c => w.by = None
         /\ w.now = IF keep THEN Sees(v, c) ELSE v.now
         /\ \A d \in Calls \ {c} : Sees(w, d) \in {Sees(v, d), w.now}
         /\ \A d \in Calls \ {c} : v.by = d => w = v
<1>0. None # c
  BY ChallengeAssumption
<1>1. CASE v.by = c
  <2>1. w.by = None /\ w.now = IF keep THEN v.new ELSE v.now
    BY <1>1, RowSettled
  <2>2. \A d \in Calls : None # d
    BY ChallengeAssumption
  <2>q. QED
    BY <1>0, <1>1, <2>1, <2>2 DEF Sees
<1>2. CASE v.by # c
  <2>1. w = v
    BY <1>2, RowSettled
  <2>q. QED
    BY <1>2, <2>1 DEF Sees
<1>q. QED
  BY <1>1, <1>2

-----------------------------------------------------------------------------
(* The claim.                                                               *)

(* The daily check has claimed the challenge for c and is at work on it.    *)
Turn(c) == c.verb = "daily" /\ Good(plan[c])

(* A turn holds the challenge, so that no two turns overlap; and where it   *)
(* found it done it only reports.                                           *)
Exclusive ==
  \A c \in Calls : Turn(c) =>
    challenge.by = c /\ (challenge.now = "done" => Reporting(plan[c]))

OrderlyPlans ==
  \A c \in Calls : Good(plan[c]) => Orderly(plan[c], c.verb) /\ today[c] <= day

(* close_challenge fails goals; it writes no other goal and no membership.  *)
FailedBy(v) ==
  /\ v.by.verb = "close" /\ v.now # None /\ v.now.state = "inprogress"
  /\ v.new = [v.now EXCEPT !.state = "failed"]

Writers ==
  /\ \A u \in Users : member[u].by # None => member[u].by.verb \in {"start", "daily"}
  /\ \A k \in Badges \X Users : grant[k].by # None => grant[k].by.verb \in {"close", "daily"}
  /\ \A g \in Goals : goal[g].by # None => goal[g].by.verb \in {"start", "daily"} \/ FailedBy(goal[g])

ClaimInv == Types /\ Exclusive /\ OrderlyPlans /\ Writers

(* What a statement leaves of the plan of its call.                         *)
LEMMA DeedPlan ==
  ASSUME Types, OrderlyPlans, NEW c \in Calls, NEW s, Deed(c, s)
  PROVE  /\ Good(plan[c]) /\ Good(plan'[c])
         /\ plan'[c] = s \o Tail(plan[c])
         /\ Orderly(plan[c], c.verb) /\ Orderly(plan'[c], c.verb)
         /\ \A d \in Calls \ {c} : plan'[d] = plan[d]
         /\ Task(c.verb, plan[c][1].op) /\ c.verb \in Verbs
         /\ Len(plan[c]) \in Nat /\ 1 \in 1..Len(plan[c])
<1>1. Good(plan[c]) /\ c.verb \in Verbs /\ s \in Seq(Inner) /\ Opened(plan[c][1].op, s)
  BY ChallengeAssumption DEF Deed, Stepped
<1>2. /\ plan'[c] = s \o Tail(plan[c]) /\ Good(plan'[c])
      /\ \A d \in Calls \ {c} : plan'[d] = plan[d]
  BY <1>1 DEF Deed, Instead, Types, Plans, Stepped
<1>3. Orderly(plan[c], c.verb) /\ plan[c][1].op # "commit"
  BY <1>1 DEF OrderlyPlans, Deed
<1>4. Orderly(plan'[c], c.verb)
  BY <1>1, <1>2, <1>3, OrderlyStep
<1>5. 1 \in 1..Len(plan[c]) /\ Len(plan[c]) \in Nat
  BY <1>1, EmptySeq, LenProperties DEF Good
<1>6. Task(c.verb, plan[c][1].op)
  BY <1>3, <1>5 DEF Orderly
<1>q. QED
  BY <1>1, <1>2, <1>3, <1>4, <1>5, <1>6

LEMMA AtHead ==
  ASSUME NEW c, Good(plan[c])
  PROVE  At(c, plan[c][1].op)
<1>1. plan[c] \in Seq(Steps) /\ plan[c] # <<>>
  BY DEF Good
<1>2. Head(plan[c]) = plan[c][1]
  BY <1>1
<1>q. QED
  BY <1>1, <1>2 DEF At

(* A goal that Fail writes is an inprogress one that it leaves failed.      *)
LEMMA FailWrites ==
  ASSUME Types, NEW c \in Calls, Fail(c), NEW g \in Goals
  PROVE  \/ goal'[g] = goal[g]
         \/ /\ Free(goal[g], c) /\ Sees(goal[g], c) # None
            /\ Sees(goal[g], c).state = "inprogress"
            /\ goal'[g].now = goal[g].now /\ goal'[g].by = c
            /\ goal'[g].new = [Sees(goal[g], c) EXCEPT !.state = "failed"]
<1> DEFINE gs == {h \in GoalsSeen(c) : /\ Sees(goal[h], c).state = "inprogress"
                                       /\ ~Covers(Sees(goal[h], c), today[c])}
<1>1. /\ \A h \in gs : Free(goal[h], c)
      /\ goal'[g] = IF g \in gs
                    THEN Put(goal[g], c, [Sees(goal[g], c) EXCEPT !.state = "failed"])
                    ELSE goal[g]
  BY DEF Fail, SetGoals
<1>2. g \in gs => Sees(goal[g], c) # None /\ Sees(goal[g], c).state = "inprogress"
  BY DEF GoalsSeen
<1> HIDE DEF gs
<1>3. goal[g] \in Rows(GoalRow \cup {None})
  BY DEF Types, Tables
<1>4. \A x : /\ Put(goal[g], c, x).by = c /\ Put(goal[g], c, x).now = goal[g].now
             /\ Put(goal[g], c, x).new = x
  BY <1>3 DEF Rows, Put
<1>q. QED
  BY <1>1, <1>2, <1>4

LEMMA WritersDeed ==
  ASSUME ClaimInv, NEW c \in Calls,
         \/ Quietly(c) \/ Move(c)
         \/ Join(c) \/ Retire(c) \/ ReadMembers(c) \/ Look(c) \/ Insert(c)
  PROVE  Writers'
<1>1. PICK s : Deed(c, s)
  BY Deeds DEF ClaimInv
<1>2. Task(c.verb, plan[c][1].op) /\ None # c
  BY <1>1, DeedPlan, ChallengeAssumption DEF ClaimInv
<1> DEFINE a == plan[c][1].op
<1>3. /\ a \in {"join", "retire", "sweep", "insert", "evaluate"} => c.verb \in {"start", "daily"}
      /\ a = "grant" => c.verb \in {"close", "daily"}
      /\ a = "fail" => c.verb \in {"close", "daily"}
  BY <1>2 DEF Task, Reconciling
<1>4. \A u \in Users : member'[u].by # None => member'[u].by.verb \in {"start", "daily"}
  <2> SUFFICES ASSUME NEW u \in Users, member'[u].by # None
               PROVE  member'[u].by.verb \in {"start", "daily"}
    OBVIOUS
  <2>1. CASE member'[u] = member[u]
    BY <2>1 DEF ClaimInv, Writers
  <2>2. CASE a \in {"join", "retire"} /\ member'[u].by = c
    BY <1>3, <2>2
  <2>q. QED
    BY <1>1, <2>1, <2>2 DEF Deed, Rewritten
<1>5. \A k \in Badges \X Users : grant'[k].by # None => grant'[k].by.verb \in {"close", "daily"}
  <2> SUFFICES ASSUME NEW k \in Badges \X Users, grant'[k].by # None
               PROVE  grant'[k].by.verb \in {"close", "daily"}
    OBVIOUS
  <2>1. CASE grant'[k] = grant[k]
    BY <2>1 DEF ClaimInv, Writers
  <2>2. CASE a = "grant" /\ grant'[k].by = c
    BY <1>3, <2>2
  <2>q. QED
    BY <1>1, <2>1, <2>2 DEF Deed, Rewritten
<1>6. ASSUME NEW g \in Goals, goal'[g].by # None
      PROVE  goal'[g].by.verb \in {"start", "daily"} \/ FailedBy(goal'[g])
  <2>1. CASE goal'[g] = goal[g]
    BY <1>6, <2>1 DEF ClaimInv, Writers
  <2>2. CASE a \in {"sweep", "insert", "evaluate"} /\ goal'[g].by = c
    BY <1>3, <2>2
  <2>3. CASE a = "fail" /\ goal'[g] # goal[g]
    <3>1. Fail(c)
      <4>1. Good(plan[c]) /\ At(c, a)
        BY <1>1, DeedPlan, AtHead DEF ClaimInv
      <4>q. QED
        BY <1>1, <2>3, <4>1 DEF Quietly, ReadRules, ReadBefore, Sweep, ReadGoals, Evaluate,
           ReadPodium, ReadRealtime, Grant, Check, StampReport, Move, Join, Retire, ReadMembers, Look, Insert, At
    <3>2. /\ Free(goal[g], c) /\ Sees(goal[g], c) # None
          /\ Sees(goal[g], c).state = "inprogress"
          /\ goal'[g].now = goal[g].now /\ goal'[g].by = c
          /\ goal'[g].new = [Sees(goal[g], c) EXCEPT !.state = "failed"]
      BY <2>3, <3>1, FailWrites DEF ClaimInv
    <3>3. CASE c.verb = "close"
      <4>1. goal[g].by # c
        <5> SUFFICES ASSUME goal[g].by = c PROVE FALSE
          OBVIOUS
        <5>1. FailedBy(goal[g])
          BY <1>2, <3>3 DEF ClaimInv, Writers
        <5>2. goal[g].now \in GoalRow
          BY <5>1 DEF FailedBy, ClaimInv, Types, Tables, Rows
        <5>3. Sees(goal[g], c).state = "failed"
          BY <5>1, <5>2 DEF Sees, FailedBy, GoalRow
        <5>q. QED
          BY <3>2, <5>3
      <4>2. Sees(goal[g], c) = goal[g].now
        BY <4>1 DEF Sees
      <4>q. QED
        BY <3>2, <3>3, <4>2 DEF FailedBy
    <3>4. CASE c.verb = "daily"
      BY <3>2, <3>4
    <3>q. QED
      BY <1>3, <2>3, <3>3, <3>4
  <2>q. QED
    BY <1>1, <2>1, <2>2, <2>3 DEF Deed, Rewritten
<1>q. QED
  BY <1>4, <1>5, <1>6 DEF Writers, FailedBy

(* A call that is waiting to begin is about to run its own verb.            *)
LEMMA VerbOf ==
  ASSUME Types, NEW c \in Calls, NEW op \in Verbs, At(c, op)
  PROVE  ~Good(plan[c]) /\ c.verb = op /\ plan[c] = <<Do(c.verb)>>
<1>1. ~Good(plan[c]) /\ plan[c] # <<>>
  BY Waiting DEF Types, At
<1>2. plan[c] = <<Do(c.verb)>>
  BY <1>1 DEF Types, Plans
<1>3. Head(<<Do(c.verb)>>).op = c.verb
  BY DEF Do
<1>q. QED
  BY <1>1, <1>2, <1>3 DEF At

(* How a transaction begins.                                                *)
LEMMA FindBegins ==
  ASSUME Types, NEW c \in Calls, Find(c)
  PROVE  /\ c.verb # "daily"
         /\ plan'[c] = <<>> \/ Orderly(plan'[c], c.verb)
         /\ \A d \in Calls \ {c} : plan'[d] = plan[d] /\ today'[d] = today[d]
         /\ today'[c] = day /\ day' = day
<1>1. PICK v \in {"start", "close", "reset"} :
        /\ At(c, v)
        /\ LET wanted == [start |-> "draft", close |-> "inprogress", reset |-> "done"]
               next == [start |-> StartPlan(day), close |-> ClosePlan, reset |-> ResetPlan]
           IN plan' = [plan EXCEPT ![c] =
                         IF challenge.now = wanted[v] THEN next[v] ELSE <<>>]
  BY DEF Find
<1>2. c.verb = v
  BY <1>1, VerbOf DEF Verbs
<1>3. plan \in [Calls -> Seq(Steps)] /\ today \in [Calls -> 0..MaxDay]
  BY DEF Types, Plans, Others
<1>4. \E p : plan' = [plan EXCEPT ![c] = p] /\ (p = <<>> \/ Orderly(p, v))
  <2>1. CASE v = "start"
    BY <1>1, <2>1, StartIsOrderly
  <2>2. CASE v = "close"
    BY <1>1, <2>2, CloseIsOrderly
  <2>3. CASE v = "reset"
    BY <1>1, <2>3, ResetIsOrderly
  <2>q. QED
    BY <2>1, <2>2, <2>3
<1>5. today' = [today EXCEPT ![c] = day] /\ day' = day
  BY DEF Find
<1>q. QED
  BY <1>2, <1>3, <1>4, <1>5

LEMMA ClaimBegins ==
  ASSUME Types, NEW c \in Calls, Claim(c)
  PROVE  /\ c.verb = "daily" /\ challenge.by = None
         /\ challenge'.by = c /\ challenge'.now = challenge.now
         /\ \E n, d : plan'[c] = DailyPlan(challenge.now, n, d)
         /\ \A d \in Calls \ {c} : plan'[d] = plan[d] /\ today'[d] = today[d]
         /\ today'[c] <= day /\ today'[c] \in Nat /\ day' = day
<1>1. c.verb = "daily"
  BY VerbOf DEF Claim, Verbs
<1>2. PICK d \in 0..day :
        /\ today' = [today EXCEPT ![c] = d]
        /\ plan' = [plan EXCEPT ![c] = DailyPlan(challenge.now, report.now, d)]
  BY DEF Claim
<1>3. plan \in [Calls -> Seq(Steps)] /\ today \in [Calls -> 0..MaxDay] /\ day \in Nat
  BY ChallengeAssumption DEF Types, Plans, Others
<1>4. challenge \in Rows(States) /\ challenge' = Put(challenge, c, challenge.now)
  BY DEF Types, Tables, Claim
<1>5. challenge'.by = c /\ challenge'.now = challenge.now
  BY <1>4 DEF Rows, Put
<1>6. plan'[c] = DailyPlan(challenge.now, report.now, d)
  BY <1>2, <1>3
<1>q. QED
  BY <1>1, <1>2, <1>3, <1>5, <1>6 DEF Claim, Locked

LEMMA PassOverBegins ==
  ASSUME Types, NEW c \in Calls, PassOver(c)
  PROVE  /\ c.verb = "daily" /\ plan'[c] = <<>>
         /\ \A d \in Calls \ {c} : plan'[d] = plan[d]
<1>1. plan[c] = <<Do(c.verb)>> /\ c.verb = "daily"
  BY VerbOf DEF PassOver, Verbs
<1>2. plan' = [plan EXCEPT ![c] = <<>> \o Tail(plan[c])] /\ plan \in [Calls -> Seq(Steps)]
  BY DEF PassOver, Done, Instead, Types, Plans
<1>3. Tail(plan[c]) = <<>> /\ <<>> \o <<>> = <<>>
  <2>1. Tail(<<Do(c.verb)>>) = <<>>
    OBVIOUS
  <2>q. QED
    BY <1>1, <2>1
<1>q. QED
  BY <1>1, <1>2, <1>3

(* A turn that only reports plans nothing new.                              *)
LEMMA ReportingStays ==
  ASSUME Types, OrderlyPlans, NEW c \in Calls, NEW s, Deed(c, s), NEW d \in Calls,
         Reporting(plan[d])
  PROVE  Reporting(plan'[d])
<1>1. CASE d # c
  BY <1>1, DeedPlan
<1>2. CASE d = c
  <2>1. /\ 1 \in 1..Len(plan[c]) /\ s \in Seq(Inner) /\ Opened(plan[c][1].op, s)
        /\ Stepped(c, s)
    BY DeedPlan DEF Deed
  <2>2. plan[c][1].op \in {"stamp", "commit"}
    BY <1>2, <2>1 DEF Reporting
  <2>3. \A i \in 1..Len(s) : s[i].op \in {"join", "look", "insert", "evaluate", "grant"}
    BY <2>1, ElementOfSeq DEF Inner
  <2>4. \A i \in 1..Len(s) : FALSE
    BY <2>1, <2>2, <2>3 DEF Opened
  <2>5. \A k \in 2..Len(plan[c]) : plan[c][k].op \in {"stamp", "commit"}
    BY <1>2 DEF Reporting
  <2>6. \A i \in 1..Len(plan'[c]) : \E k \in 2..Len(plan[c]) : plan'[c][i] = plan[c][k]
    BY <2>1, <2>4 DEF Stepped
  <2>q. QED
    BY <1>2, <2>5, <2>6 DEF Reporting
<1>q. QED
  BY <1>1, <1>2

LEMMA ClaimDeed ==
  ASSUME ClaimInv, NEW c \in Calls, NEW s, Deed(c, s)
  PROVE  Exclusive' /\ OrderlyPlans'
<1>1. /\ Good(plan[c]) /\ Orderly(plan'[c], c.verb)
      /\ \A d \in Calls \ {c} : plan'[d] = plan[d]
      /\ None # c
  BY DeedPlan, ChallengeAssumption DEF ClaimInv
<1>2. ASSUME NEW d \in Calls, Turn(d)'
      PROVE  challenge'.by = d /\ (challenge'.now = "done" => Reporting(plan'[d]))
  <2>1. Turn(d)
    BY <1>1, <1>2 DEF Turn
  <2>2. challenge.by = d /\ (challenge.now = "done" => Reporting(plan[d]))
    BY <2>1 DEF ClaimInv, Exclusive
  <2>3. challenge' = challenge \/ Rewritten(challenge, challenge', c)
    BY DEF Deed
  <2>4. d # None
    BY ChallengeAssumption
  <2>5. challenge'.by = d /\ challenge'.now = challenge.now
    BY <2>2, <2>3, <2>4 DEF Rewritten, Free
  <2>6. Reporting(plan[d]) => Reporting(plan'[d])
    BY <1>1, ReportingStays DEF ClaimInv
  <2>q. QED
    BY <2>2, <2>5, <2>6
<1>3. ASSUME NEW d \in Calls, Good(plan'[d])
      PROVE  Orderly(plan'[d], d.verb) /\ today'[d] <= day'
  <2>1. Good(plan[d]) /\ today'[d] = today[d] /\ day' = day
    BY <1>1, <1>3 DEF Deed
  <2>2. Orderly(plan[d], d.verb) /\ today[d] <= day
    BY <2>1 DEF ClaimInv, OrderlyPlans
  <2>q. QED
    BY <1>1, <2>1, <2>2
<1>q. QED
  BY <1>2, <1>3 DEF Exclusive, OrderlyPlans

LEMMA ClaimEnds ==
  ASSUME ClaimInv, NEW c \in Calls, NEW keep \in BOOLEAN, Good(plan[c]), End(c, keep)
  PROVE  Exclusive' /\ OrderlyPlans' /\ Writers'
<1>1. /\ plan'[c] = <<>> /\ ~Good(<<>>)
      /\ \A d \in Calls \ {c} : plan'[d] = plan[d]
      /\ challenge' = Settled(challenge, c, keep)
      /\ \A u \in Users : member'[u] = Settled(member[u], c, keep)
      /\ \A g \in Goals : goal'[g] = Settled(goal[g], c, keep)
      /\ \A k \in Badges \X Users : grant'[k] = Settled(grant[k], c, keep)
      /\ day' = day /\ today' = today
  BY Endings DEF ClaimInv
<1>2. ASSUME NEW v, NEW w, w = Settled(v, c, keep), w.by # None, NEW V, v \in Rows(V)
      PROVE  w = v /\ v.by # c
  BY <1>2, RowSettled
<1>3. ASSUME NEW d \in Calls, Turn(d)'
      PROVE  challenge'.by = d /\ (challenge'.now = "done" => Reporting(plan'[d]))
  <2>1. d # c /\ Turn(d)
    BY <1>1, <1>3 DEF Turn
  <2>2. /\ challenge.by = d /\ (challenge.now = "done" => Reporting(plan[d]))
        /\ challenge \in Rows(States)
    BY <2>1 DEF ClaimInv, Exclusive, Types, Tables
  <2>3. challenge' = challenge
    BY <1>1, <2>1, <2>2, RowSettled
  <2>q. QED
    BY <1>1, <2>1, <2>2, <2>3
<1>4. OrderlyPlans'
  <2> SUFFICES ASSUME NEW d \in Calls, Good(plan'[d])
               PROVE  Orderly(plan'[d], d.verb) /\ today[d] <= day
    BY <1>1 DEF OrderlyPlans
  <2>1. d # c
    BY <1>1
  <2>q. QED
    BY <1>1, <2>1 DEF ClaimInv, OrderlyPlans
<1>5. \A u \in Users : member'[u].by # None => member'[u].by.verb \in {"start", "daily"}
  <2> SUFFICES ASSUME NEW u \in Users, member'[u].by # None
               PROVE  member'[u].by.verb \in {"start", "daily"}
    OBVIOUS
  <2>1. member[u] \in Rows(BOOLEAN) /\ member'[u] = Settled(member[u], c, keep)
    BY <1>1 DEF ClaimInv, Types, Tables
  <2>2. member'[u] = member[u]
    BY <1>2, <2>1
  <2>q. QED
    BY <2>2 DEF ClaimInv, Writers
<1>6. \A k \in Badges \X Users : grant'[k].by # None => grant'[k].by.verb \in {"close", "daily"}
  <2> SUFFICES ASSUME NEW k \in Badges \X Users, grant'[k].by # None
               PROVE  grant'[k].by.verb \in {"close", "daily"}
    OBVIOUS
  <2>1. grant[k] \in Rows(BOOLEAN) /\ grant'[k] = Settled(grant[k], c, keep)
    BY <1>1 DEF ClaimInv, Types, Tables
  <2>2. grant'[k] = grant[k]
    BY <1>2, <2>1
  <2>q. QED
    BY <2>2 DEF ClaimInv, Writers
<1>7. \A g \in Goals : goal'[g].by # None =>
        goal'[g].by.verb \in {"start", "daily"} \/ FailedBy(goal'[g])
  <2> SUFFICES ASSUME NEW g \in Goals, goal'[g].by # None
               PROVE  goal'[g].by.verb \in {"start", "daily"} \/ FailedBy(goal'[g])
    OBVIOUS
  <2>1. goal[g] \in Rows(GoalRow \cup {None}) /\ goal'[g] = Settled(goal[g], c, keep)
    BY <1>1 DEF ClaimInv, Types, Tables
  <2>2. goal'[g] = goal[g]
    BY <1>2, <2>1
  <2>q. QED
    BY <2>2 DEF ClaimInv, Writers
<1>q. QED
  BY <1>3, <1>4, <1>5, <1>6, <1>7 DEF Exclusive, Writers, FailedBy

LEMMA ClaimNext == ClaimInv /\ [Next]_vars => ClaimInv'
<1> SUFFICES ASSUME ClaimInv, [Next]_vars PROVE Exclusive' /\ OrderlyPlans' /\ Writers'
  BY TypesNext DEF ClaimInv
<1>t. Types /\ Types' /\ None \notin Calls
  BY TypesNext, ChallengeAssumption DEF ClaimInv
<1>d. day \in Nat /\ today \in [Calls -> Nat]
  BY <1>t, ChallengeAssumption DEF Types, Others
<1>1. ASSUME UNCHANGED <<tables, plan, today>>, day' \in {day, day + 1}
      PROVE  Exclusive' /\ OrderlyPlans' /\ Writers'
  <2>1. Exclusive' /\ Writers'
    BY <1>1 DEF tables, ClaimInv, Exclusive, Turn, Writers, FailedBy
  <2>2. OrderlyPlans'
    BY <1>1, <1>d DEF ClaimInv, OrderlyPlans
  <2>q. QED
    BY <2>1, <2>2
<1>2. CASE UNCHANGED vars
  BY <1>1, <1>2 DEF vars
<1>3. CASE NextDay
  BY <1>1, <1>3 DEF NextDay
<1>4. CASE RulesChange
  BY <1>1, <1>4 DEF RulesChange
<1>5. CASE \E c \in Calls : Find(c) \/ Claim(c) \/ PassOver(c)
  <2>1. PICK c \in Calls : Find(c) \/ Claim(c) \/ PassOver(c)
    BY <1>5
  <2>2. Writers'
    <3>1. UNCHANGED <<member, goal, grant>>
      BY <2>1 DEF Find, Claim, PassOver, tables
    <3>q. QED
      BY <3>1 DEF ClaimInv, Writers, FailedBy
  <2>3. CASE Find(c)
    <3>1. /\ c.verb # "daily" /\ (plan'[c] = <<>> \/ Orderly(plan'[c], c.verb))
          /\ \A d \in Calls \ {c} : plan'[d] = plan[d] /\ today'[d] = today[d]
          /\ today'[c] = day /\ day' = day /\ challenge' = challenge
      BY <1>t, <2>3, FindBegins, Finds DEF tables
    <3>2. Exclusive'
      BY <3>1 DEF ClaimInv, Exclusive, Turn
    <3>3. OrderlyPlans'
      <4>1. Good(plan'[c]) => Orderly(plan'[c], c.verb)
        BY <3>1 DEF Good
      <4>2. day <= day
        BY <1>d
      <4>q. QED
        BY <3>1, <4>1, <4>2 DEF ClaimInv, OrderlyPlans
    <3>q. QED
      BY <2>2, <3>2, <3>3
  <2>4. CASE Claim(c)
    <3>1. /\ challenge.by = None
          /\ challenge'.by = c /\ challenge'.now = challenge.now /\ c.verb = "daily"
          /\ \A d \in Calls \ {c} : plan'[d] = plan[d] /\ today'[d] = today[d]
          /\ today'[c] <= day /\ day' = day
      BY <1>t, <2>4, ClaimBegins
    <3>2. Orderly(plan'[c], c.verb) /\ (challenge'.now = "done" => Reporting(plan'[c]))
      <4>1. PICK n, d : plan'[c] = DailyPlan(challenge.now, n, d)
        BY <1>t, <2>4, ClaimBegins
      <4>q. QED
        BY <3>1, <4>1, DailyIsOrderly
    <3>3. Exclusive'
      BY <1>t, <3>1, <3>2 DEF ClaimInv, Exclusive, Turn
    <3>4. OrderlyPlans'
      BY <3>1, <3>2 DEF ClaimInv, OrderlyPlans
    <3>q. QED
      BY <2>2, <3>3, <3>4
  <2>5. CASE PassOver(c)
    <3>1. /\ plan'[c] = <<>> /\ \A d \in Calls \ {c} : plan'[d] = plan[d]
          /\ challenge' = challenge /\ today' = today /\ day' = day
      BY <1>t, <2>5, PassOverBegins DEF PassOver, tables
    <3>2. ~Good(plan'[c])
      BY <3>1 DEF Good
    <3>q. QED
      BY <2>2, <3>1, <3>2 DEF ClaimInv, Exclusive, Turn, OrderlyPlans
  <2>q. QED
    BY <2>1, <2>3, <2>4, <2>5
<1>6. ASSUME NEW c \in Calls,
             \/ Quietly(c) \/ Move(c)
             \/ Join(c) \/ Retire(c) \/ ReadMembers(c) \/ Look(c) \/ Insert(c)
      PROVE  Exclusive' /\ OrderlyPlans' /\ Writers'
  <2>1. \E s : Deed(c, s)
    BY <1>6, <1>t, Deeds
  <2>2. Writers'
    BY <1>6, WritersDeed
  <2>q. QED
    BY <2>1, <2>2, ClaimDeed
<1>9. CASE \E c \in Calls : Commit(c) \/ Rollback(c)
  <2>1. PICK c \in Calls : Commit(c) \/ Rollback(c)
    BY <1>9
  <2>2. \E keep \in BOOLEAN : End(c, keep) /\ Good(plan[c])
    BY <1>t, <2>1, Commits, RollsBack
  <2>q. QED
    BY <2>2, ClaimEnds
<1>10. CASE \E g \in Goals : EvaluateAlone(g) \/ CancelAlone(g)
  <2>1. PICK g \in Goals : EvaluateAlone(g) \/ CancelAlone(g)
    BY <1>10
  <2>2. UNCHANGED <<day, challenge, member, grant, plan, today>>
    BY <2>1 DEF EvaluateAlone, CancelAlone
  <2>3. PICK r \in GoalRow : goal' = [goal EXCEPT ![g] = Stored(r)]
    BY <1>t, <2>1, HostEvaluates, HostCancels
  <2>4. \A h \in Goals : goal'[h] = goal[h] \/ goal'[h].by = None
    BY <1>t, <2>3 DEF Stored, Types, Tables
  <2>5. Writers'
    <3>1. \A h \in Goals : goal'[h].by # None =>
            goal'[h].by.verb \in {"start", "daily"} \/ FailedBy(goal'[h])
      BY <2>4 DEF ClaimInv, Writers
    <3>q. QED
      BY <2>2, <3>1 DEF ClaimInv, Writers, FailedBy
  <2>6. Exclusive' /\ OrderlyPlans'
    BY <2>2 DEF ClaimInv, Exclusive, Turn, OrderlyPlans
  <2>q. QED
    BY <2>5, <2>6
<1>q. QED
  BY <1>2, <1>3, <1>4, <1>5, <1>6, <1>9, <1>10, StepCases

LEMMA ClaimInit ==
  ASSUME Init
  PROVE  ClaimInv /\ \A c \in Calls : ~Good(plan[c])
<1>1. Types
  BY TypesInit
<1>2. \A c \in Calls : ~Good(plan[c])
  <2> SUFFICES ASSUME NEW c \in Calls PROVE ~Good(plan[c])
    OBVIOUS
  <2>1. plan[c] = <<Do(c.verb)>> /\ c.verb \in Verbs
    BY ChallengeAssumption DEF Init
  <2>2. Head(<<Do(c.verb)>>).op = c.verb /\ <<Do(c.verb)>> # <<>>
    BY DEF Do
  <2>3. At(c, c.verb)
    BY <2>1, <2>2 DEF At
  <2>q. QED
    BY <1>1, <2>1, <2>3, VerbOf
<1>3. Exclusive /\ OrderlyPlans
  BY <1>2 DEF Exclusive, Turn, OrderlyPlans
<1>4. Writers
  BY DEF Init, Stored, Writers
<1>q. QED
  BY <1>1, <1>2, <1>3, <1>4 DEF ClaimInv

LEMMA ClaimCorrect == Spec => []ClaimInv
<1>1. Init => ClaimInv
  BY ClaimInit
<1>2. ClaimInv /\ [Next]_vars => ClaimInv'
  BY ClaimNext
<1>q. QED
  BY <1>1, <1>2, PTL DEF Spec

(* The daily check has claimed the challenge in c and has not ended c.      *)
AtWork(c) == c.verb = "daily" /\ ~At(c, "daily") /\ ~Ended(c)

(* The FOR UPDATE SKIP LOCKED claim: whatever verbs run beside it, the daily *)
(* check is never at work on a challenge twice at the same time, it holds   *)
(* the challenge until its turn is over, and a turn that finds it done has  *)
(* nothing left to do but to stamp the report and to commit: only a season  *)
(* that is running is swept or closed.                                      *)
THEOREM OneTurnAtATime ==
  Spec => [](\A c \in Calls : AtWork(c) =>
               /\ challenge.by = c
               /\ \A d \in Calls \ {c} : ~AtWork(d)
               /\ challenge.now = "done" =>
                    \A i \in 1..Len(plan[c]) : plan[c][i].op \in {"stamp", "commit"})
<1>1. ASSUME Plans, NEW c \in Calls, AtWork(c) PROVE Turn(c)
  <2>1. plan[c] # <<>> /\ c.verb = "daily" /\ ~At(c, "daily")
    BY <1>1 DEF AtWork, Ended
  <2>2. Head(<<Do("daily")>>).op = "daily" /\ <<Do("daily")>> # <<>>
    BY DEF Do
  <2>3. plan[c] # <<Do("daily")>>
    BY <2>1, <2>2 DEF At
  <2>q. QED
    BY <1>1, <2>1, <2>3 DEF Plans, Turn
<1>2. ClaimInv => \A c \in Calls : AtWork(c) =>
        /\ challenge.by = c
        /\ \A d \in Calls \ {c} : ~AtWork(d)
        /\ challenge.now = "done" =>
             \A i \in 1..Len(plan[c]) : plan[c][i].op \in {"stamp", "commit"}
  BY <1>1 DEF ClaimInv, Types, Exclusive, Reporting
<1>3. Spec => []ClaimInv
  BY ClaimCorrect
<1>q. QED
  BY <1>2, <1>3, PTL

-----------------------------------------------------------------------------
(* Goals, where nobody calls start_challenge.                               *)

NoStart == \A c \in Calls : c.verb # "start"

Counts(row) == row # None /\ row.state \in {"draft", "inprogress", "reached"}
Live(row, d) == row # None /\ Active(row, d)
Key(g) == <<g[2], g[3]>>

(* In the view V of the goals, nobody has two for a line on day d; and a    *)
(* goal that counts belongs to one of the users M.                          *)
OneLive(V, d) ==
  \A g, h \in Goals : g # h /\ Key(g) = Key(h) => ~(Live(V[g], d) /\ Live(V[h], d))
Owned(V, M) == \A g \in Goals : Counts(V[g]) => g[3] \in M

Seen(c) == [g \in Goals |-> Sees(goal[g], c)]
Crew(c) == {u \in Users : Sees(member[u], c)}
Committed == [g \in Goals |-> goal[g].now]
Members == {u \in Users : member[u].now}

(* Where a turn stands, c's plan being p: the joins, looks and inserts that *)
(* it has still to run are of users it wants and of members it sees; before *)
(* an insert, no goal that it sees is live; and the only goals that count   *)
(* for nobody are those that its next statement sweeps.                     *)
Phase(p, c) ==
  LET op == p[1].op IN
    /\ op \in {"join", "retire"} => Crew(c) \subseteq before[c] \cup target[c]
    /\ Owned(Seen(c), Crew(c) \cup (IF op = "sweep" THEN before[c] \ target[c] ELSE {}))
    /\ \A i \in 1..Len(p) : p[i].op = "join" => p[i].on \in target[c]
    /\ \A i \in 1..Len(p) : p[i].op \in {"look", "insert"} => p[i].on[2] \in Crew(c)
    /\ op = "insert" => \A g \in Goals : Key(g) = p[1].on => ~Live(Seen(c)[g], today[c])
    /\ OneLive(Seen(c), day)

Phases == \A c \in Calls : Turn(c) => Phase(plan[c], c)

SoundGoals == OneLive(Committed, day) /\ Owned(Committed, Members)

GoalInv == ClaimInv /\ (NoStart => Phases /\ SoundGoals)

(* Row w is what is left of row v: its window is the same, a canceled one   *)
(* stays canceled, and one that does not count will not.                    *)
Wanes(v, w) ==
  \/ w = v
  \/ /\ v # None /\ w # None /\ w.end = v.end
     /\ v.state = "canceled" => w.state = "canceled"
     /\ Counts(w) => Counts(v)

LEMMA WaningViews ==
  ASSUME NEW V, NEW W, \A g \in Goals : V[g] \in GoalRow \cup {None} /\ Wanes(V[g], W[g]),
         NEW d \in Nat, NEW e \in Nat, d <= e, NEW M
  PROVE  /\ OneLive(V, d) => OneLive(W, e)
         /\ Owned(V, M) => Owned(W, M)
         /\ \A g \in Goals : Live(W[g], e) => Live(V[g], d)
<1>1. ASSUME NEW g \in Goals, Live(W[g], e) PROVE Live(V[g], d)
  <2>1. V[g] # None /\ V[g] \in GoalRow /\ W[g].end = V[g].end /\ W[g].state # "canceled"
        /\ V[g].state # "canceled"
    BY <1>1 DEF Live, Wanes, Active
  <2>2. V[g].end \in Nat \cup {None}
    BY <2>1 DEF GoalRow
  <2>3. Covers(W[g], e)
    BY <1>1 DEF Live, Active
  <2>4. Covers(V[g], d)
    BY <2>1, <2>2, <2>3 DEF Covers
  <2>q. QED
    BY <2>1, <2>4 DEF Live, Active
<1>2. OneLive(V, d) => OneLive(W, e)
  BY <1>1 DEF OneLive
<1>3. Owned(V, M) => Owned(W, M)
  BY DEF Owned, Wanes
<1>q. QED
  BY <1>1, <1>2, <1>3

(* A phase lasts while the views of its call wane.                          *)
LEMMA PhaseLasts ==
  ASSUME Types, NEW c \in Calls, Phase(plan[c], c),
         plan'[c] = plan[c], target'[c] = target[c], before'[c] = before[c],
         today'[c] = today[c], day' \in {day, day + 1},
         \A u \in Users : Sees(member'[u], c) = Sees(member[u], c),
         \A g \in Goals : Wanes(Sees(goal[g], c), Sees(goal'[g], c))
  PROVE  Phase(plan[c], c)'
<1> DEFINE p == plan[c]
           V == Seen(c)
           W == Seen(c)'
           M == Crew(c)
<1>1. \A g \in Goals : V[g] = Sees(goal[g], c) /\ W[g] = Sees(goal'[g], c)
  BY DEF Seen
<1>2. \A g \in Goals : V[g] \in GoalRow \cup {None} /\ Wanes(V[g], W[g])
  <2> SUFFICES ASSUME NEW g \in Goals PROVE V[g] \in GoalRow \cup {None} /\ Wanes(V[g], W[g])
    OBVIOUS
  <2>1. goal[g] \in Rows(GoalRow \cup {None})
    BY DEF Types, Tables
  <2>q. QED
    BY <1>1, <2>1, RowSees
<1>3. Crew(c)' = M
  BY DEF Crew
<1>4. day \in Nat /\ day' \in Nat /\ day <= day' /\ today[c] \in Nat
  BY ChallengeAssumption DEF Types, Others
<1> HIDE DEF V, W, M
<1>5. \A N : Owned(V, N) => Owned(W, N)
  BY <1>2, <1>4, WaningViews
<1>6. OneLive(V, day) => OneLive(W, day')
  BY <1>2, <1>4, WaningViews
<1>7. \A g \in Goals : Live(W[g], today[c]) => Live(V[g], today[c])
  <2> DEFINE t == today[c]
  <2>1. t \in Nat /\ t <= t
    BY <1>4
  <2> HIDE DEF t
  <2>2. \A g \in Goals : Live(W[g], t) => Live(V[g], t)
    BY <1>2, <2>1, WaningViews
  <2>q. QED
    BY <2>2 DEF t
<1> HIDE DEF p
<1>8. /\ p[1].op \in {"join", "retire"} => M \subseteq before[c] \cup target[c]
      /\ Owned(V, M \cup (IF p[1].op = "sweep" THEN before[c] \ target[c] ELSE {}))
      /\ \A i \in 1..Len(p) : p[i].op = "join" => p[i].on \in target[c]
      /\ \A i \in 1..Len(p) : p[i].op \in {"look", "insert"} => p[i].on[2] \in M
      /\ p[1].op = "insert" => \A g \in Goals : Key(g) = p[1].on => ~Live(V[g], today[c])
      /\ OneLive(V, day)
  BY DEF Phase, p, V, M
<1>9. /\ p[1].op \in {"join", "retire"} => M \subseteq before[c] \cup target[c]
      /\ Owned(W, M \cup (IF p[1].op = "sweep" THEN before[c] \ target[c] ELSE {}))
      /\ \A i \in 1..Len(p) : p[i].op = "join" => p[i].on \in target[c]
      /\ \A i \in 1..Len(p) : p[i].op \in {"look", "insert"} => p[i].on[2] \in M
      /\ p[1].op = "insert" => \A g \in Goals : Key(g) = p[1].on => ~Live(W[g], today[c])
      /\ OneLive(W, day')
  BY <1>5, <1>6, <1>7, <1>8
<1>q. QED
  BY <1>3, <1>9 DEF Phase, p, W

(* Which statements are first and which are left after a deed.              *)
LEMMA DeedOrder ==
  ASSUME Types, OrderlyPlans, NEW c \in Calls, NEW s, Deed(c, s)
  PROVE  LET p == plan[c] q == plan'[c] a == plan[c][1].op IN
         /\ q[1].op \in {"join", "retire"} => a \in {"before", "join"}
         /\ q[1].op = "sweep" => a = "retire"
         /\ a = "retire" => q[1].op = "sweep"
         /\ q[1].op = "insert" => a = "look" /\ 1 \in 1..Len(s) /\ q[1] = s[1]
         /\ \A i \in 1..Len(q) : q[i].op = "join" =>
              \/ a = "before" /\ i \in 1..Len(s) /\ q[i] = s[i]
              \/ a = "join" /\ \E k \in 2..Len(p) : q[i] = p[k]
         /\ \A i \in 1..Len(q) : q[i].op \in {"look", "insert"} =>
              \/ a \in {"members", "look"} /\ i \in 1..Len(s) /\ q[i] = s[i]
              \/ a \in {"look", "insert"} /\ \E k \in 2..Len(p) : q[i] = p[k]
<1> DEFINE p == plan[c]
           q == plan'[c]
           a == p[1].op
<1>1. /\ Good(p) /\ Chained(p) /\ s \in Seq(Inner) /\ Opened(a, s) /\ a # "commit"
      /\ q = s \o Tail(p) /\ Len(p) \in Nat /\ 1 \in 1..Len(p)
  BY DeedPlan DEF Deed, Orderly
<1>2. p \in Seq(Steps) /\ p # <<>> /\ Len(p) > 1
  BY <1>1 DEF Good
<1>3. s \in Seq(Steps) /\ Len(s) \in Nat
  BY <1>1, SeqMonotonic, LenProperties DEF Inner
<1>4. /\ Len(q) = Len(s) + Len(p) - 1
      /\ \A i \in 1..Len(s) : i \in 1..Len(q) /\ q[i] = s[i] /\ s[i] \in Inner
      /\ \A k \in 2..Len(p) : Len(s) + k - 1 \in 1..Len(q) /\ q[Len(s) + k - 1] = p[k]
      /\ \A i \in 1..Len(q) : \/ i \in 1..Len(s)
                              \/ i - Len(s) + 1 \in 2..Len(p) /\ q[i] = p[i - Len(s) + 1]
  BY <1>1, <1>2, <1>3, Instead1, ElementOfSeq
<1> HIDE DEF p, q, a
<1>5. \A i \in 1..Len(q) : \/ i \in 1..Len(s) /\ q[i] = s[i]
                           \/ \E k \in 2..Len(p) : q[i] = p[k]
  BY <1>4
<1>6. /\ Follows(a, p[2].op)
      /\ \A k \in 2..Len(p) : /\ p[k].op = "join" => a = "join"
                              /\ p[k].op \in {"look", "insert"} => a \in {"look", "insert"}
  <2>1. 1 \in 1..(Len(p) - 1) /\ \A k \in 2..Len(p) : k \in 1..Len(p) /\ 1 \in 1..(k - 1)
    BY <1>1, <1>2
  <2>2. Follows(p[1].op, p[1 + 1].op)
    BY <1>1, <2>1 DEF Chained
  <2>3. \A k \in 2..Len(p) : /\ p[k].op = "join" => p[1].op = "join"
                             /\ p[k].op \in {"look", "insert"} => p[1].op \in {"look", "insert"}
    BY <1>1, <2>1 DEF Chained, Leading
  <2>q. QED
    BY <2>2, <2>3 DEF a
<1>7. \A i \in 1..Len(s) : /\ s[i].op = "join" => a = "before"
                           /\ s[i].op \in {"look", "insert"} => a \in {"members", "look"}
                           /\ s[i].op = "insert" => a = "look"
                           /\ s[i].op \in InnerOps
                           /\ a # "retire"
  BY <1>1, <1>4 DEF Opened, Inner, InnerOps
<1>8. \/ 1 \in 1..Len(s) /\ q[1] = s[1]
      \/ q[1] = p[2] /\ Len(s) = 0
  <2>1. CASE Len(s) = 0
    <3>1. 2 \in 2..Len(p) /\ Len(s) + 2 - 1 = 1
      BY <1>1, <1>2, <2>1
    <3>q. QED
      BY <1>4, <2>1, <3>1
  <2>2. CASE Len(s) # 0
    <3>1. 1 \in 1..Len(s)
      BY <1>3, <2>2
    <3>q. QED
      BY <1>4, <3>1
  <2>q. QED
    BY <2>1, <2>2
<1>9. /\ q[1].op \in {"join", "retire"} => a \in {"before", "join"}
      /\ q[1].op = "sweep" => a = "retire"
      /\ a = "retire" => q[1].op = "sweep"
      /\ q[1].op = "insert" => a = "look" /\ 1 \in 1..Len(s) /\ q[1] = s[1]
  <2>1. CASE 1 \in 1..Len(s) /\ q[1] = s[1]
    BY <1>7, <2>1 DEF InnerOps
  <2>2. CASE q[1] = p[2]
    BY <1>6, <2>2 DEF Follows
  <2>q. QED
    BY <1>8, <2>1, <2>2
<1>10. /\ \A i \in 1..Len(q) : q[i].op = "join" =>
            \/ a = "before" /\ i \in 1..Len(s) /\ q[i] = s[i]
            \/ a = "join" /\ \E k \in 2..Len(p) : q[i] = p[k]
       /\ \A i \in 1..Len(q) : q[i].op \in {"look", "insert"} =>
            \/ a \in {"members", "look"} /\ i \in 1..Len(s) /\ q[i] = s[i]
            \/ a \in {"look", "insert"} /\ \E k \in 2..Len(p) : q[i] = p[k]
  BY <1>5, <1>6, <1>7
<1>q. QED
  BY <1>9, <1>10 DEF p, q, a

(* What each statement of a turn has to show of its next phase.             *)
LEMMA NextPhase ==
  ASSUME ClaimInv, NEW c \in Calls, NEW s, Deed(c, s), Phase(plan[c], c),
         plan[c][1].op \in {"before", "join"} => Crew(c)' \subseteq before'[c] \cup target'[c],
         Owned(Seen(c)', Crew(c)' \cup
           (IF plan[c][1].op = "retire" THEN before'[c] \ target'[c] ELSE {})),
         plan[c][1].op = "before" => \A i \in 1..Len(s) : s[i].on \in target'[c],
         plan[c][1].op = "members" => \A i \in 1..Len(s) : s[i].on[2] \in Crew(c),
         plan[c][1].op = "look" => \A i \in 1..Len(s) :
           /\ s[i].on = plan[c][1].on
           /\ \A g \in Goals : Key(g) = plan[c][1].on => ~Live(Seen(c)[g], today[c]),
         OneLive(Seen(c)', day')
  PROVE  Phase(plan[c], c)'
<1> DEFINE p == plan[c]
           q == plan'[c]
           a == p[1].op
           V == Seen(c)
           W == Seen(c)'
           M == Crew(c)
           N == Crew(c)'
           T == target'[c]
           B == before'[c]
<1>1. /\ q[1].op \in {"join", "retire"} => a \in {"before", "join"}
      /\ q[1].op = "sweep" => a = "retire"
      /\ a = "retire" => q[1].op = "sweep"
      /\ q[1].op = "insert" => a = "look" /\ 1 \in 1..Len(s) /\ q[1] = s[1]
      /\ \A i \in 1..Len(q) : q[i].op = "join" =>
           \/ a = "before" /\ i \in 1..Len(s) /\ q[i] = s[i]
           \/ a = "join" /\ \E k \in 2..Len(p) : q[i] = p[k]
      /\ \A i \in 1..Len(q) : q[i].op \in {"look", "insert"} =>
           \/ a \in {"members", "look"} /\ i \in 1..Len(s) /\ q[i] = s[i]
           \/ a \in {"look", "insert"} /\ \E k \in 2..Len(p) : q[i] = p[k]
  BY DeedOrder DEF ClaimInv
<1>2. /\ 1 \in 1..Len(p) /\ Len(p) \in Nat
      /\ \A k \in 2..Len(p) : k \in 1..Len(p)
  <2>1. 1 \in 1..Len(p) /\ Len(p) \in Nat
    BY DeedPlan DEF ClaimInv
  <2>q. QED
    BY <2>1
<1>3. a = "join" => T = target[c]
  BY DEF Deed
<1>4. a \in {"members", "look", "insert"} => N = M
  BY DEF Deed, Crew
<1>5. a = "look" => W = V /\ today' = today
  BY DEF Deed, Seen
<1>6. /\ \A i \in 1..Len(p) : p[i].op = "join" => p[i].on \in target[c]
      /\ \A i \in 1..Len(p) : p[i].op \in {"look", "insert"} => p[i].on[2] \in M
  BY DEF Phase
<1>7. /\ a \in {"before", "join"} => N \subseteq B \cup T
      /\ Owned(W, N \cup (IF a = "retire" THEN B \ T ELSE {}))
      /\ a = "before" => \A i \in 1..Len(s) : s[i].on \in T
      /\ a = "members" => \A i \in 1..Len(s) : s[i].on[2] \in M
      /\ a = "look" => \A i \in 1..Len(s) :
           /\ s[i].on = p[1].on
           /\ \A g \in Goals : Key(g) = p[1].on => ~Live(V[g], today[c])
      /\ OneLive(W, day')
  OBVIOUS
<1> HIDE DEF q, V, W, M, N, T, B
<1>8. q[1].op \in {"join", "retire"} => N \subseteq B \cup T
  BY <1>1, <1>7
<1>9. Owned(W, N \cup (IF q[1].op = "sweep" THEN B \ T ELSE {}))
  BY <1>1, <1>7
<1>10. \A i \in 1..Len(q) : q[i].op = "join" => q[i].on \in T
  BY <1>1, <1>2, <1>3, <1>6, <1>7
<1>11. ASSUME NEW i \in 1..Len(q), q[i].op \in {"look", "insert"} PROVE q[i].on[2] \in N
  <2>1. CASE \E k \in 2..Len(p) : a \in {"look", "insert"} /\ q[i] = p[k]
    BY <1>2, <1>4, <1>6, <1>11, <2>1
  <2>2. CASE a = "members" /\ i \in 1..Len(s) /\ q[i] = s[i]
    BY <1>4, <1>7, <2>2
  <2>3. CASE a = "look" /\ i \in 1..Len(s) /\ q[i] = s[i]
    <3>1. q[i].on = p[1].on /\ p[1].on[2] \in M
      BY <1>2, <1>6, <1>7, <2>3
    <3>q. QED
      BY <1>4, <2>3, <3>1
  <2>q. QED
    BY <1>1, <1>11, <2>1, <2>2, <2>3
<1>12. q[1].op = "insert" => \A g \in Goals : Key(g) = q[1].on => ~Live(W[g], today'[c])
  BY <1>1, <1>5, <1>7
<1>13. OneLive(W, day')
  BY <1>7
<1>q. QED
  BY <1>8, <1>9, <1>10, <1>11, <1>12, <1>13 DEF Phase, q, W, N, T, B

(* What a call sees of the rows that it writes.                             *)
LEMMA SeesPut ==
  ASSUME NEW V, NEW v \in Rows(V), NEW c, NEW x
  PROVE  Sees(Put(v, c, x), c) = x
  BY DEF Rows, Put, Sees

LEMMA SeesFlag ==
  ASSUME NEW v \in Rows(BOOLEAN), NEW c
  PROVE  Sees(Put(v, c, TRUE), c) /\ ~Sees(Put(v, c, FALSE), c)
  BY DEF Rows, Put, Sees

LEMMA SetSeen ==
  ASSUME Types, NEW c \in Calls, NEW gs, NEW x, SetGoals(c, gs, x), NEW g \in Goals
  PROVE  Seen(c)'[g] = IF g \in gs THEN [Seen(c)[g] EXCEPT !.state = x] ELSE Seen(c)[g]
<1>1. goal'[g] = IF g \in gs THEN Put(goal[g], c, [Sees(goal[g], c) EXCEPT !.state = x])
                 ELSE goal[g]
  BY DEF SetGoals
<1>2. goal[g] \in Rows(GoalRow \cup {None})
  BY DEF Types, Tables
<1>3. Seen(c)'[g] = Sees(goal'[g], c) /\ Seen(c)[g] = Sees(goal[g], c)
  BY DEF Seen
<1>q. QED
  BY <1>1, <1>2, <1>3, SeesPut

LEMMA SeenRow ==
  ASSUME Types, NEW c \in Calls, NEW g \in Goals
  PROVE  Seen(c)[g] = Sees(goal[g], c) /\ Seen(c)[g] \in GoalRow \cup {None}
<1>1. goal[g] \in Rows(GoalRow \cup {None})
  BY DEF Types, Tables
<1>q. QED
  BY <1>1, RowSees DEF Seen

(* Sweep, Fail and Evaluate leave the goals waning.                         *)
LEMMA SweepSeen ==
  ASSUME Types, NEW c \in Calls, Sweep(c), NEW g \in Goals
  PROVE  /\ Wanes(Seen(c)[g], Seen(c)'[g])
         /\ Counts(Seen(c)'[g]) => g[3] \notin before[c] \ target[c]
<1> DEFINE gs == {h \in GoalsSeen(c) : h[3] \in before[c] \ target[c] /\ Swept(Sees(goal[h], c))}
           v == Seen(c)[g]
           w == Seen(c)'[g]
<1>1. w = IF g \in gs THEN [v EXCEPT !.state = "canceled"] ELSE v
  BY SetSeen DEF Sweep
<1>2. v = Sees(goal[g], c) /\ v \in GoalRow \cup {None}
  BY SeenRow
<1>3. g \in gs <=> v # None /\ g[3] \in before[c] \ target[c] /\ Swept(v)
  BY <1>2 DEF GoalsSeen
<1> HIDE DEF gs, v, w
<1>4. CASE g \in gs
  <2>1. v \in GoalRow /\ w = [v EXCEPT !.state = "canceled"]
    BY <1>1, <1>2, <1>3, <1>4
  <2>2. w.end = v.end /\ w.state = "canceled" /\ w \in GoalRow
    BY <2>1 DEF GoalRow, GoalStates
  <2>q. QED
    BY <1>3, <1>4, <2>1, <2>2, NoneIsNoRow DEF Wanes, Counts, v, w
<1>5. CASE g \notin gs
  BY <1>1, <1>3, <1>5 DEF Wanes, Counts, Swept, v, w
<1>q. QED
  BY <1>4, <1>5

LEMMA FailSeen ==
  ASSUME Types, NEW c \in Calls, Fail(c), NEW g \in Goals
  PROVE  Wanes(Seen(c)[g], Seen(c)'[g])
<1> DEFINE gs == {h \in GoalsSeen(c) : /\ Sees(goal[h], c).state = "inprogress"
                                       /\ ~Covers(Sees(goal[h], c), today[c])}
           v == Seen(c)[g]
           w == Seen(c)'[g]
<1>1. w = IF g \in gs THEN [v EXCEPT !.state = "failed"] ELSE v
  BY SetSeen DEF Fail
<1>2. v = Sees(goal[g], c) /\ v \in GoalRow \cup {None}
  BY SeenRow
<1>3. g \in gs => v # None /\ v.state = "inprogress"
  BY <1>2 DEF GoalsSeen
<1> HIDE DEF gs, v, w
<1>4. CASE g \in gs
  <2>1. v \in GoalRow /\ w = [v EXCEPT !.state = "failed"]
    BY <1>1, <1>2, <1>3, <1>4
  <2>2. w.end = v.end /\ w.state = "failed" /\ w \in GoalRow
    BY <2>1 DEF GoalRow, GoalStates
  <2>q. QED
    BY <1>3, <1>4, <2>1, <2>2, NoneIsNoRow DEF Wanes, Counts, v, w
<1>5. CASE g \notin gs
  BY <1>1, <1>5 DEF Wanes, v, w
<1>q. QED
  BY <1>4, <1>5

LEMMA EvaluatedWanes ==
  ASSUME NEW row \in GoalRow, NEW x, NEW v \in Values, Evaluated(row, x, v) # None
  PROVE  Wanes(row, Evaluated(row, x, v))
<1> DEFINE w == Evaluated(row, x, v)
           lands == v >= Target
           startable == row.state \in {"draft", "inprogress"}
<1>1. /\ ~(x = "draft" /\ ~startable)
      /\ ~(lands /\ ~(startable \/ row.state = "reached"))
      /\ w = [row EXCEPT !.current = v,
                         !.state = IF lands THEN "reached"
                                   ELSE IF x = "draft" THEN "inprogress" ELSE @]
  BY DEF Evaluated
<1> HIDE DEF w, lands
<1>2. /\ w.end = row.end
      /\ w.state = IF lands THEN "reached" ELSE IF x = "draft" THEN "inprogress" ELSE row.state
  BY <1>1 DEF GoalRow
<1>3. (row.state = "canceled" => w.state = "canceled") /\ (Counts(w) => Counts(row))
  BY <1>1, <1>2, NoneIsNoRow DEF Counts
<1>q. QED
  BY <1>2, <1>3, NoneIsNoRow DEF Wanes, w

LEMMA EvaluateSeen ==
  ASSUME Types, NEW c \in Calls, Evaluate(c), NEW g \in Goals
  PROVE  Wanes(Seen(c)[g], Seen(c)'[g])
<1> DEFINE h == Arg(c)[1]
           x == Arg(c)[2]
<1>1. /\ At(c, "evaluate")
      /\ \/ goal' = goal
         \/ \E v \in Values :
              /\ Evaluated(Sees(goal[h], c), x, v) # None
              /\ goal' = [goal EXCEPT ![h] = Put(goal[h], c, Evaluated(Sees(goal[h], c), x, v))]
  BY DEF Evaluate
<1>2. /\ goal[g] \in Rows(GoalRow \cup {None}) /\ goal \in [Goals -> Rows(GoalRow \cup {None})]
      /\ Seen(c)[g] = Sees(goal[g], c) /\ Seen(c)'[g] = Sees(goal'[g], c)
  BY DEF Types, Tables, Seen
<1>3. Sees(goal[h], c) # None
  <2>1. Good(plan[c]) /\ plan[c][1].op = "evaluate" /\ Arg(c) = plan[c][1].on
    BY <1>1, Running DEF Types, Verbs
  <2>2. 1 \in 1..Len(plan[c])
    BY <2>1, EmptySeq DEF Good
  <2>q. QED
    BY <2>1, <2>2 DEF Types, Evaluable
<1> HIDE DEF h, x
<1>4. CASE goal'[g] = goal[g]
  BY <1>2, <1>4 DEF Wanes
<1>5. CASE /\ g = h
           /\ \E v \in Values :
                /\ Evaluated(Sees(goal[h], c), x, v) # None
                /\ goal'[h] = Put(goal[h], c, Evaluated(Sees(goal[h], c), x, v))
  <2>1. PICK v \in Values : /\ Evaluated(Sees(goal[g], c), x, v) # None
                            /\ goal'[g] = Put(goal[g], c, Evaluated(Sees(goal[g], c), x, v))
    BY <1>5
  <2>2. Sees(goal[g], c) \in GoalRow
    BY <1>2, <1>3, <1>5, RowSees
  <2>3. Sees(goal'[g], c) = Evaluated(Sees(goal[g], c), x, v)
    BY <1>2, <2>1, SeesPut
  <2>q. QED
    BY <1>2, <2>1, <2>2, <2>3, EvaluatedWanes
<1>q. QED
  BY <1>1, <1>2, <1>4, <1>5

(* An insert adds a goal of a member that no goal it sees stands for.       *)
LEMMA InsertSeen ==
  ASSUME Types, NEW c \in Calls, Insert(c)
  PROVE  \E n \in Goals :
           /\ Key(n) = plan[c][1].on
           /\ \A g \in Goals \ {n} : Seen(c)'[g] = Seen(c)[g]
<1>1. At(c, "insert") /\ goal \in [Goals -> Rows(GoalRow \cup {None})]
  BY DEF Insert, Types, Tables
<1>2. Good(plan[c]) /\ plan[c][1].op = "insert" /\ Arg(c) = plan[c][1].on
  BY <1>1, Running DEF Types, Verbs
<1>3. Arg(c) \in Lines \X Users
  <2>1. plan[c][1] \in Steps
    BY <1>2, EmptySeq, ElementOfSeq DEF Good
  <2>q. QED
    BY <1>2, <2>1 DEF Steps, Typed
<1>4. PICK l \in Lines, u \in Users : Arg(c) = <<l, u>>
  BY <1>3
<1> DEFINE n == <<c, l, u>>
<1>5. n \in Goals /\ Key(n) = <<l, u>>
  BY DEF Goals, Key
<1>6. goal' = [goal EXCEPT ![<<c, Arg(c)[1], Arg(c)[2]>>] =
                 Put(@, c, [state |-> "draft", current |-> 0, end |-> WindowEnd[today[c]]])]
  BY DEF Insert
<1>7. <<c, Arg(c)[1], Arg(c)[2]>> = n
  BY <1>4
<1> HIDE DEF n
<1>8. \A g \in Goals \ {n} : goal'[g] = goal[g]
  BY <1>1, <1>6, <1>7
<1>9. \A g \in Goals \ {n} : Seen(c)'[g] = Seen(c)[g]
  BY <1>8 DEF Seen
<1>q. QED
  BY <1>2, <1>4, <1>5, <1>9

(* A statement of c takes c to its next phase.                              *)
LEMMA TurnPhase ==
  ASSUME ClaimInv, NEW c \in Calls, Phase(plan[c], c),
         \/ Quietly(c) \/ Move(c)
         \/ Join(c) \/ Retire(c) \/ ReadMembers(c) \/ Look(c) \/ Insert(c)
  PROVE  Phase(plan[c], c)'
<1> DEFINE a == plan[c][1].op
           V == Seen(c)
           M == Crew(c)
<1>t. Types /\ Plans
  BY DEF ClaimInv, Types
<1>d. /\ day \in Nat /\ day <= day /\ today[c] \in Nat
      /\ Good(plan[c]) => today[c] <= day
  BY <1>t, ChallengeAssumption DEF Types, Others, ClaimInv, OrderlyPlans
<1>s. PICK s : Deed(c, s) /\ Laid(c, s)
  BY <1>t, Deeds
<1>g. Good(plan[c]) /\ 1 \in 1..Len(plan[c])
  BY <1>s, DeedPlan DEF ClaimInv
<1>h. /\ a \in {"join", "retire"} => M \subseteq before[c] \cup target[c]
      /\ Owned(V, M \cup (IF a = "sweep" THEN before[c] \ target[c] ELSE {}))
      /\ a = "join" => plan[c][1].on \in target[c]
      /\ a = "insert" => plan[c][1].on[2] \in M
      /\ a = "insert" => \A g \in Goals : Key(g) = plan[c][1].on => ~Live(V[g], today[c])
      /\ OneLive(V, day)
  BY <1>g DEF Phase
<1>e. /\ day' = day /\ today' = today
      /\ a \notin {"rules", "sweep"} => target' = target
      /\ a \notin {"before", "sweep"} => before' = before
      /\ a \notin {"join", "retire"} => member' = member /\ Crew(c)' = M
      /\ a \notin {"sweep", "insert", "evaluate", "fail"} => Seen(c)' = V
  BY <1>s DEF Deed, Crew, Seen
<1>l. /\ a = "before" => \A i \in 1..Len(s) : s[i].on \in target[c]
      /\ a = "members" => \A i \in 1..Len(s) : s[i].on[2] \in M
      /\ a = "look" => \A i \in 1..Len(s) :
           /\ s[i].on = plan[c][1].on
           /\ \A g \in Goals : Key(g) = plan[c][1].on => ~Live(V[g], today[c])
  <2>1. /\ a = "before" => \A i \in 1..Len(s) : s[i].on \in target[c]
        /\ a = "members" => \A i \in 1..Len(s) : s[i].on[2] \in M
    BY <1>s DEF Laid, Crew
  <2>2. ASSUME a = "look", NEW i \in 1..Len(s)
        PROVE  /\ s[i].on = plan[c][1].on
               /\ \A g \in Goals : Key(g) = plan[c][1].on => ~Live(V[g], today[c])
    <3>1. /\ s[i].on = plan[c][1].on
          /\ \A g \in GoalsSeen(c) :
               <<g[2], g[3]>> = plan[c][1].on => ~Active(Sees(goal[g], c), today[c])
      BY <1>s, <2>2 DEF Laid
    <3>2. \A g \in Goals : V[g] = Sees(goal[g], c)
      BY DEF Seen
    <3> HIDE DEF V
    <3>q. QED
      BY <3>1, <3>2 DEF Live, Key, GoalsSeen
  <2>q. QED
    BY <2>1, <2>2
<1> HIDE DEF V, M
<1>1. ASSUME a \in {"before", "join"} => Crew(c)' \subseteq before'[c] \cup target'[c],
             Owned(Seen(c)', Crew(c)' \cup (IF a = "retire" THEN before'[c] \ target'[c] ELSE {})),
             OneLive(Seen(c)', day)
      PROVE  Phase(plan[c], c)'
  <2>1. a = "before" => \A i \in 1..Len(s) : s[i].on \in target'[c]
    BY <1>e, <1>l
  <2>2. a = "members" => \A i \in 1..Len(s) : s[i].on[2] \in Crew(c)
    BY <1>l DEF M
  <2>3. a = "look" => \A i \in 1..Len(s) :
           /\ s[i].on = plan[c][1].on
           /\ \A g \in Goals : Key(g) = plan[c][1].on => ~Live(Seen(c)[g], today[c])
    BY <1>l DEF V
  <2>4. OneLive(Seen(c)', day')
    BY <1>1, <1>e
  <2> HIDE DEF a
  <2>q. QED
    BY <1>1, <1>s, <2>1, <2>2, <2>3, <2>4, NextPhase DEF a
<1>2. CASE a \notin {"before", "join", "retire", "sweep", "insert", "evaluate", "fail"}
  BY <1>1, <1>2, <1>e, <1>h
<1>3. CASE ReadBefore(c)
  <2>1. /\ a = "before" /\ before \in [Calls -> SUBSET Users]
        /\ before' = [before EXCEPT ![c] = {u \in Users : Sees(member[u], c)}]
    BY <1>3, <1>t, Running DEF ReadBefore, Types, Others, Verbs
  <2>2. before'[c] = M
    BY <2>1 DEF Crew, M
  <2> HIDE DEF a
  <2>q. QED
    BY <1>1, <1>e, <1>h, <2>1, <2>2
<1>4. CASE Join(c)
  <2>1. a = "join" /\ Arg(c) = plan[c][1].on
    BY <1>4, <1>t, Running DEF Join, Verbs
  <2>2. /\ member \in [Users -> Rows(BOOLEAN)] /\ goal' = goal
        /\ \/ member' = member
           \/ member' = [member EXCEPT ![Arg(c)] = Put(member[Arg(c)], c, TRUE)]
    BY <1>4, <1>t DEF Join, Types, Tables
  <2>3. \A u \in Users : \/ member'[u] = member[u]
                         \/ u = Arg(c) /\ Sees(member'[u], c)
    <3> DEFINE n == Arg(c)
    <3>1. \/ member' = member
          \/ member' = [member EXCEPT ![n] = Put(member[n], c, TRUE)]
      BY <2>2
    <3> HIDE DEF n
    <3> SUFFICES ASSUME NEW u \in Users
                 PROVE  member'[u] = member[u] \/ (u = n /\ Sees(member'[u], c))
      BY DEF n
    <3>2. member[u] \in Rows(BOOLEAN)
      BY <2>2
    <3>3. member'[u] = member[u] \/ (u = n /\ member'[u] = Put(member[u], c, TRUE))
      BY <2>2, <3>1
    <3>q. QED
      BY <3>2, <3>3, SeesFlag
  <2>4. M \subseteq Crew(c)' /\ Crew(c)' \subseteq M \cup {Arg(c)}
    BY <2>3 DEF Crew, M
  <2> HIDE DEF a
  <2>5. Crew(c)' \subseteq before'[c] \cup target'[c]
    BY <1>e, <1>h, <2>1, <2>4
  <2>6. Owned(Seen(c)', Crew(c)')
    BY <1>e, <1>h, <2>1, <2>4 DEF Owned
  <2>q. QED
    BY <1>1, <1>e, <1>h, <2>1, <2>5, <2>6
<1>5. CASE Retire(c)
  <2>1. a = "retire"
    BY <1>5, <1>t, Running DEF Retire, Verbs
  <2> DEFINE leavers == {u \in Users \ target[c] : Sees(member[u], c)}
  <2>2. /\ member \in [Users -> Rows(BOOLEAN)]
        /\ \A u \in Users : member'[u] = IF u \in leavers THEN Put(member[u], c, FALSE)
                                         ELSE member[u]
    BY <1>5, <1>t DEF Retire, Types, Tables
  <2>3. leavers = M \ target[c] /\ M = {u \in Users : Sees(member[u], c)}
    BY DEF M, Crew
  <2> HIDE DEF leavers
  <2>4. \A u \in Users : Sees(member'[u], c) <=> (Sees(member[u], c) /\ u \notin leavers)
    <3> SUFFICES ASSUME NEW u \in Users
                 PROVE  Sees(member'[u], c) <=> (Sees(member[u], c) /\ u \notin leavers)
      OBVIOUS
    <3>1. CASE u \in leavers
      <4>1. member[u] \in Rows(BOOLEAN) /\ member'[u] = Put(member[u], c, FALSE)
        BY <2>2, <3>1
      <4>2. ~Sees(member'[u], c)
        BY <4>1, SeesFlag
      <4>q. QED
        BY <3>1, <4>2
    <3>2. CASE u \notin leavers
      BY <2>2, <3>2
    <3>q. QED
      BY <3>1, <3>2
  <2>5. Crew(c)' = M \ leavers
    BY <2>3, <2>4 DEF Crew
  <2> HIDE DEF a
  <2>6. before'[c] = before[c] /\ target'[c] = target[c]
    BY <1>e, <2>1
  <2>7. M \subseteq Crew(c)' \cup (before'[c] \ target'[c])
    BY <1>h, <2>1, <2>3, <2>5, <2>6
  <2>8. Owned(Seen(c)', Crew(c)' \cup (before'[c] \ target'[c]))
    BY <1>e, <1>h, <2>1, <2>7 DEF Owned
  <2>q. QED
    BY <1>1, <1>e, <1>h, <2>1, <2>8
<1>6. ASSUME a \in {"sweep", "evaluate", "fail"},
             \A g \in Goals : Wanes(V[g], Seen(c)'[g]),
             \A g \in Goals : a = "sweep" /\ Counts(Seen(c)'[g]) => g[3] \notin before[c] \ target[c]
      PROVE  Phase(plan[c], c)'
  <2> DEFINE W == Seen(c)'
  <2>1. \A g \in Goals : V[g] \in GoalRow \cup {None} /\ Wanes(V[g], W[g])
    BY <1>6, <1>t, SeenRow DEF V
  <2>2. day \in Nat /\ day <= day
    BY <1>d, <1>g
  <2>3. \A g \in Goals : a = "sweep" /\ Counts(W[g]) => g[3] \notin before[c] \ target[c]
    BY <1>6
  <2> HIDE DEF W
  <2>4. OneLive(V, day) => OneLive(W, day)
    BY <2>1, <2>2, WaningViews
  <2>5. \A N : Owned(V, N) => Owned(W, N)
    BY <2>1, <2>2, WaningViews
  <2> HIDE DEF a
  <2>6. Owned(W, M)
    BY <1>h, <2>3, <2>5 DEF Owned
  <2>q. QED
    BY <1>1, <1>6, <1>e, <1>h, <2>4, <2>6 DEF W
<1>7. CASE Sweep(c)
  <2>1. a = "sweep"
    BY <1>7, <1>t, Running DEF Sweep, Verbs
  <2>q. QED
    BY <1>6, <1>7, <1>t, <2>1, SweepSeen DEF V
<1>8. CASE Evaluate(c)
  <2>1. a = "evaluate"
    BY <1>8, <1>t, Running DEF Evaluate, Verbs
  <2>q. QED
    BY <1>6, <1>8, <1>t, <2>1, EvaluateSeen DEF V
<1>9. CASE Fail(c)
  <2>1. a = "fail"
    BY <1>9, <1>t, Running DEF Fail, Verbs
  <2>q. QED
    BY <1>6, <1>9, <1>t, <2>1, FailSeen DEF V
<1>10. CASE Insert(c)
  <2>1. a = "insert"
    BY <1>10, <1>t, Running DEF Insert, Verbs
  <2>2. PICK n \in Goals : /\ Key(n) = plan[c][1].on
                           /\ \A g \in Goals \ {n} : Seen(c)'[g] = V[g]
    BY <1>10, <1>t, InsertSeen DEF V
  <2> DEFINE W == Seen(c)'
  <2>3. \A g \in Goals \ {n} : W[g] = V[g]
    BY <2>2
  <2>4. \A g \in Goals : Key(g) = Key(n) => ~Live(V[g], day)
    <3> SUFFICES ASSUME NEW g \in Goals, Key(g) = Key(n), Live(V[g], day) PROVE FALSE
      OBVIOUS
    <3>1. ~Live(V[g], today[c])
      BY <1>h, <2>1, <2>2
    <3>2. V[g] \in GoalRow /\ V[g].end \in Nat \cup {None} /\ Active(V[g], day)
      BY <1>t, SeenRow DEF V, Live, GoalRow
    <3>3. today[c] \in Nat /\ day \in Nat /\ today[c] <= day
      BY <1>d, <1>g
    <3>4. Active(V[g], today[c])
      BY <3>2, <3>3 DEF Active, Covers
    <3>q. QED
      BY <3>1, <3>2, <3>4, NoneIsNoRow DEF Live
  <2>5. n[3] \in M
    BY <1>h, <2>1, <2>2 DEF Key
  <2> HIDE DEF W, a
  <2>6. OneLive(W, day)
    <3> SUFFICES ASSUME NEW g \in Goals, NEW h \in Goals, g # h, Key(g) = Key(h)
                 PROVE  ~(Live(W[g], day) /\ Live(W[h], day))
      BY DEF OneLive
    <3>q. QED
      BY <1>h, <2>3, <2>4 DEF OneLive
  <2>7. Owned(W, M)
    BY <1>h, <2>1, <2>3, <2>5 DEF Owned
  <2>q. QED
    BY <1>1, <1>e, <2>1, <2>6, <2>7 DEF W
<1>q. QED
  <2>1. At(c, a)
    BY <1>g, AtHead
  <2>2. \/ ReadBefore(c) \/ Join(c) \/ Retire(c) \/ Sweep(c) \/ Evaluate(c) \/ Fail(c) \/ Insert(c)
        \/ a \in {"rules", "members", "look", "goals", "podium", "realtime", "grant", "check",
                 "stamp", "move"}
    BY <2>1 DEF Quietly, ReadRules, ReadGoals, ReadPodium, ReadRealtime, Grant, Check, Move,
       StampReport, ReadMembers, Look, At
  <2>q. QED
    BY <1>2, <1>3, <1>4, <1>5, <1>7, <1>8, <1>9, <1>10, <2>2

(* What others do, as c sees it.                                            *)
LEMMA UnseenRewrite ==
  ASSUME NEW v, NEW w, NEW c \in Calls, NEW d \in Calls, c # d, Rewritten(v, w, d)
  PROVE  Sees(w, c) = Sees(v, c) /\ w.now = v.now
<1>1. None # c
  BY ChallengeAssumption
<1>q. QED
  BY <1>1 DEF Rewritten, Free, Sees

LEMMA UnseenDeed ==
  ASSUME ClaimInv, NEW c \in Calls, NEW d \in Calls, c # d, NEW s, Deed(d, s), Phase(plan[c], c)
  PROVE  Phase(plan[c], c)'
<1>1. plan'[c] = plan[c]
  BY DeedPlan DEF ClaimInv
<1>2. target'[c] = target[c] /\ before'[c] = before[c] /\ today'[c] = today[c] /\ day' = day
  BY DEF Deed
<1>3. \A u \in Users : Sees(member'[u], c) = Sees(member[u], c)
  BY UnseenRewrite DEF Deed
<1>4. \A g \in Goals : Sees(goal'[g], c) = Sees(goal[g], c)
  BY UnseenRewrite DEF Deed
<1>5. \A g \in Goals : Wanes(Sees(goal[g], c), Sees(goal'[g], c))
  BY <1>4 DEF Wanes
<1>q. QED
  BY <1>1, <1>2, <1>3, <1>5, PhaseLasts DEF ClaimInv

(* A statement commits nothing.                                             *)
LEMMA DeedCommitsNothing ==
  ASSUME NEW c \in Calls, NEW s, Deed(c, s)
  PROVE  Committed' = Committed /\ Members' = Members /\ day' = day
<1>1. \A g \in Goals : goal'[g].now = goal[g].now
  BY DEF Deed, Rewritten
<1>2. \A u \in Users : member'[u].now = member[u].now
  BY DEF Deed, Rewritten
<1>q. QED
  BY <1>1, <1>2 DEF Committed, Members, Deed

(* A transaction that is no turn ends: goals that close_challenge failed    *)
(* are all that others can find changed.                                    *)
LEMMA OthersEnd ==
  ASSUME ClaimInv, NoStart, NEW c \in Calls, ~Turn(c), NEW keep \in BOOLEAN,
         Good(plan[c]), End(c, keep)
  PROVE  /\ \A u \in Users : member'[u] = member[u]
         /\ \A g \in Goals :
              /\ Wanes(goal[g].now, goal'[g].now)
              /\ \A d \in Calls \ {c} : Wanes(Sees(goal[g], d), Sees(goal'[g], d))
<1>1. c.verb \notin {"start", "daily"} /\ None # c
  BY ChallengeAssumption DEF NoStart, Turn
<1>2. ASSUME NEW u \in Users PROVE member'[u] = member[u]
  <2>1. member[u] \in Rows(BOOLEAN) /\ member'[u] = Settled(member[u], c, keep)
    BY Endings DEF ClaimInv, Types, Tables
  <2>2. member[u].by # c
    BY <1>1 DEF ClaimInv, Writers
  <2>q. QED
    BY <2>1, <2>2, RowSettled
<1>3. ASSUME NEW g \in Goals
      PROVE  /\ Wanes(goal[g].now, goal'[g].now)
             /\ \A d \in Calls \ {c} : Wanes(Sees(goal[g], d), Sees(goal'[g], d))
  <2>1. goal[g] \in Rows(GoalRow \cup {None}) /\ goal'[g] = Settled(goal[g], c, keep)
    BY Endings DEF ClaimInv, Types, Tables
  <2>2. CASE goal[g].by # c
    <3>1. goal'[g] = goal[g]
      BY <2>1, <2>2, RowSettled
    <3>q. QED
      BY <3>1 DEF Wanes
  <2>3. CASE goal[g].by = c
    <3>1. FailedBy(goal[g])
      BY <1>1, <2>3 DEF ClaimInv, Writers
    <3>2. /\ goal'[g].by = None
          /\ goal'[g].now = IF keep THEN goal[g].new ELSE goal[g].now
      BY <2>1, <2>3, RowSettled
    <3>3. goal[g].now \in GoalRow /\ goal[g].now.state = "inprogress"
          /\ goal[g].new = [goal[g].now EXCEPT !.state = "failed"]
      BY <2>1, <3>1 DEF FailedBy, Rows
    <3> DEFINE v == goal[g].now
               w == goal'[g].now
    <3>4. Wanes(v, w)
      <4>1. CASE ~keep
        BY <3>2, <4>1 DEF Wanes
      <4>2. CASE keep
        <5>1. w = [v EXCEPT !.state = "failed"] /\ v \in GoalRow
          BY <3>2, <3>3, <4>2
        <5> HIDE DEF v, w
        <5>2. w.end = v.end /\ w.state = "failed" /\ w \in GoalRow
          BY <5>1 DEF GoalRow, GoalStates
        <5>3. v.state = "inprogress"
          BY <3>3 DEF v
        <5>q. QED
          BY <5>1, <5>2, <5>3, NoneIsNoRow DEF Wanes, Counts
      <4>q. QED
        BY <4>1, <4>2
    <3>5. \A d \in Calls \ {c} : Sees(goal[g], d) = v /\ Sees(goal'[g], d) = w
      <4>1. \A d \in Calls : d # None
        BY ChallengeAssumption
      <4>q. QED
        BY <2>3, <3>2, <4>1 DEF Sees
    <3>q. QED
      BY <3>4, <3>5
  <2>q. QED
    BY <2>2, <2>3
<1>q. QED
  BY <1>2, <1>3

(* What waning does to the committed goals.                                 *)
LEMMA SoundLasts ==
  ASSUME Types, SoundGoals, day' \in {day, day + 1},
         \A u \in Users : member'[u] = member[u],
         \A g \in Goals : Wanes(goal[g].now, goal'[g].now)
  PROVE  SoundGoals'
<1> DEFINE V == Committed
           W == Committed'
<1>1. \A g \in Goals : V[g] \in GoalRow \cup {None} /\ Wanes(V[g], W[g])
  <2> SUFFICES ASSUME NEW g \in Goals PROVE V[g] \in GoalRow \cup {None} /\ Wanes(V[g], W[g])
    OBVIOUS
  <2>1. goal[g] \in Rows(GoalRow \cup {None}) /\ V[g] = goal[g].now /\ W[g] = goal'[g].now
    BY DEF Types, Tables, Committed
  <2>q. QED
    BY <2>1 DEF Rows
<1>2. day \in Nat /\ day' \in Nat /\ day <= day'
  BY ChallengeAssumption DEF Types, Others
<1>3. Members' = Members
  BY DEF Members
<1>4. OneLive(V, day) /\ Owned(V, Members)
  BY DEF SoundGoals
<1> HIDE DEF V, W
<1>5. OneLive(W, day') /\ Owned(W, Members)
  BY <1>1, <1>2, <1>4, WaningViews
<1>q. QED
  BY <1>3, <1>5 DEF SoundGoals, W

(* A transaction ends.                                                      *)
LEMMA GoalEnds ==
  ASSUME ClaimInv, NoStart, Phases, SoundGoals, NEW c \in Calls, NEW keep \in BOOLEAN,
         Good(plan[c]), End(c, keep), keep => plan[c][1].op = "commit"
  PROVE  Phases' /\ SoundGoals'
<1>e. /\ plan'[c] = <<>> /\ ~Good(<<>>)
      /\ \A d \in Calls \ {c} : plan'[d] = plan[d] /\ target'[d] = target[d] /\ before'[d] = before[d]
      /\ \A u \in Users : member'[u] = Settled(member[u], c, keep)
      /\ \A g \in Goals : goal'[g] = Settled(goal[g], c, keep)
      /\ day' = day /\ today' = today
  BY Endings DEF ClaimInv
<1>t. /\ Types
      /\ \A u \in Users : member[u] \in Rows(BOOLEAN) /\ Held(member[u])
      /\ \A g \in Goals : goal[g] \in Rows(GoalRow \cup {None}) /\ Held(goal[g])
  BY DEF ClaimInv, Types, Tables, Holders
<1>1. Phases'
  <2> SUFFICES ASSUME NEW d \in Calls, Turn(d)' PROVE Phase(plan[d], d)'
    BY DEF Phases
  <2>1. d # c /\ Turn(d)
    BY <1>e DEF Turn
  <2>2. ~Turn(c)
    BY <2>1 DEF ClaimInv, Exclusive
  <2>3. /\ \A u \in Users : member'[u] = member[u]
        /\ \A g \in Goals : Wanes(Sees(goal[g], d), Sees(goal'[g], d))
    BY <2>1, <2>2, OthersEnd
  <2>4. Phase(plan[d], d) /\ plan'[d] = plan[d] /\ target'[d] = target[d] /\ before'[d] = before[d]
        /\ today'[d] = today[d] /\ day' \in {day, day + 1}
    BY <1>e, <2>1 DEF Phases
  <2>q. QED
    BY <1>t, <2>3, <2>4, PhaseLasts
<1>2. CASE ~Turn(c)
  <2>1. /\ \A u \in Users : member'[u] = member[u]
        /\ \A g \in Goals : Wanes(goal[g].now, goal'[g].now)
    BY <1>2, OthersEnd
  <2>q. QED
    BY <1>1, <1>e, <1>t, <2>1, SoundLasts
<1>3. CASE Turn(c)
  <2>1. \A g \in Goals : goal'[g].now = IF keep THEN Sees(goal[g], c) ELSE goal[g].now
    <3> SUFFICES ASSUME NEW g \in Goals
                 PROVE  goal'[g].now = IF keep THEN Sees(goal[g], c) ELSE goal[g].now
      OBVIOUS
    <3>q. QED
      BY <1>e, <1>t, SettledRow DEF Held
  <2>2. \A u \in Users : member'[u].now = IF keep THEN Sees(member[u], c) ELSE member[u].now
    <3> SUFFICES ASSUME NEW u \in Users
                 PROVE  member'[u].now = IF keep THEN Sees(member[u], c) ELSE member[u].now
      OBVIOUS
    <3>q. QED
      BY <1>e, <1>t, SettledRow DEF Held
  <2>3. CASE ~keep
    <3>1. Committed' = Committed /\ Members' = Members
      BY <2>1, <2>2, <2>3 DEF Committed, Members
    <3>q. QED
      BY <1>1, <1>e, <3>1 DEF SoundGoals
  <2>4. CASE keep
    <3>1. Committed' = Seen(c) /\ Members' = Crew(c)
      BY <2>1, <2>2, <2>4 DEF Committed, Members, Seen, Crew
    <3>2. Phase(plan[c], c) /\ plan[c][1].op = "commit"
      BY <1>3, <2>4 DEF Phases
    <3>3. Owned(Seen(c), Crew(c) \cup {}) /\ OneLive(Seen(c), day)
      BY <3>2 DEF Phase
    <3>4. Crew(c) \cup {} = Crew(c)
      OBVIOUS
    <3>q. QED
      BY <1>1, <1>e, <3>1, <3>3, <3>4 DEF SoundGoals
  <2>q. QED
    BY <2>3, <2>4
<1>q. QED
  BY <1>2, <1>3

(* A turn begins with what is committed.                                    *)
LEMMA ClaimPhase ==
  ASSUME ClaimInv, SoundGoals, NEW c \in Calls, Claim(c)
  PROVE  Phase(plan[c], c)'
<1>1. /\ Types /\ ~Good(plan[c]) /\ member' = member /\ goal' = goal /\ day' = day
  BY Claims, ClaimBegins DEF ClaimInv
<1>2. PICK n, d : plan'[c] = DailyPlan(challenge.now, n, d)
  BY <1>1, ClaimBegins
<1>3. /\ \A u \in Users : Sees(member[u], c) = member[u].now
      /\ \A g \in Goals : Sees(goal[g], c) = goal[g].now
  <2>1. \A v : Held(v) /\ v.by = c => FALSE
    BY <1>1, ChallengeAssumption DEF Held
  <2>2. (\A u \in Users : member[u].by # c) /\ \A g \in Goals : goal[g].by # c
    BY <1>1, <2>1 DEF Types, Holders
  <2>q. QED
    BY <2>2 DEF Sees
<1>4. Seen(c)' = Committed /\ Crew(c)' = Members
  BY <1>1, <1>3 DEF Seen, Crew, Committed, Members
<1> DEFINE q == plan'[c]
<1>5. q[1].op \in {"rules", "fail", "stamp", "commit"} /\ \A i \in 1..Len(q) : q[i].op \notin InnerOps
  BY <1>2, DailyIsOrderly
<1>6. OneLive(Committed, day) /\ Owned(Committed, Members)
  BY DEF SoundGoals
<1> HIDE DEF q
<1>7. Owned(Committed, Members \cup
        (IF q[1].op = "sweep" THEN before'[c] \ target'[c] ELSE {}))
  BY <1>5, <1>6 DEF Owned
<1>q. QED
  BY <1>1, <1>4, <1>5, <1>6, <1>7 DEF Phase, InnerOps, q

(* A host writes a goal.                                                    *)
LEMMA HostWanes ==
  ASSUME Types, NEW g \in Goals, EvaluateAlone(g) \/ CancelAlone(g)
  PROVE  /\ UNCHANGED <<day, challenge, member, grant, plan, today, target, before, closings>>
         /\ \A h \in Goals :
              /\ Wanes(goal[h].now, goal'[h].now)
              /\ \A c \in Calls : Wanes(Sees(goal[h], c), Sees(goal'[h], c))
<1>1. /\ goal[g].by = None /\ goal[g].now # None
      /\ UNCHANGED <<day, challenge, member, grant, plan, today, target, before, closings>>
  BY DEF EvaluateAlone, CancelAlone
<1>2. /\ goal \in [Goals -> Rows(GoalRow \cup {None})] /\ goal[g].now \in GoalRow
  BY <1>1 DEF Types, Tables, Rows
<1>3. \E r : goal' = [goal EXCEPT ![g] = Stored(r)] /\ Wanes(goal[g].now, r)
  <2>1. CASE EvaluateAlone(g)
    <3> DEFINE row == goal[g].now
    <3>1. /\ row.state \in {"draft", "inprogress"}
          /\ \E v \in Values : goal' = [goal EXCEPT ![g] = Stored(Evaluated(row, row.state, v))]
      BY <2>1 DEF EvaluateAlone
    <3>2. PICK v \in Values : goal' = [goal EXCEPT ![g] = Stored(Evaluated(row, row.state, v))]
      BY <3>1
    <3>3. row \in GoalRow
      BY <1>2
    <3> HIDE DEF row
    <3>4. Evaluated(row, row.state, v) # None
      <4>1. Evaluated(row, row.state, v) =
              [row EXCEPT !.current = v,
                          !.state = IF v >= Target THEN "reached"
                                    ELSE IF row.state = "draft" THEN "inprogress" ELSE @]
        BY <3>1 DEF Evaluated
      <4>2. Evaluated(row, row.state, v) \in GoalRow
        BY <3>1, <3>3, <4>1, ChallengeAssumption DEF GoalRow, GoalStates
      <4>q. QED
        BY <4>2, NoneIsNoRow
    <3>5. Wanes(row, Evaluated(row, row.state, v))
      BY <3>3, <3>4, EvaluatedWanes
    <3>q. QED
      BY <3>2, <3>5 DEF row
  <2>2. CASE CancelAlone(g)
    <3> DEFINE row == goal[g].now
    <3>1. goal' = [goal EXCEPT ![g] = Stored([row EXCEPT !.state = "canceled"])]
          /\ row.state \in {"inprogress", "reached"}
      BY <2>2 DEF CancelAlone
    <3>2. row \in GoalRow
      BY <1>2
    <3> DEFINE w == [row EXCEPT !.state = "canceled"]
    <3>3. w.end = row.end /\ w.state = "canceled" /\ w \in GoalRow
      BY <3>2 DEF GoalRow, GoalStates
    <3>4. goal' = [goal EXCEPT ![g] = Stored(w)]
      BY <3>1
    <3> HIDE DEF w
    <3>5. Wanes(row, w)
      BY <3>2, <3>3, NoneIsNoRow DEF Wanes, Counts
    <3>q. QED
      BY <3>4, <3>5
  <2>q. QED
    BY <2>1, <2>2
<1>4. PICK r : goal' = [goal EXCEPT ![g] = Stored(r)] /\ Wanes(goal[g].now, r)
  BY <1>3
<1>5. /\ goal'[g] = Stored(r) /\ \A h \in Goals \ {g} : goal'[h] = goal[h]
  BY <1>2, <1>4
<1>6. \A v, c : Wanes(v, v) /\ Sees(Stored(r), c) = r /\ Stored(r).now = r
  BY DEF Wanes, Sees, Stored
<1>7. \A c \in Calls : Sees(goal[g], c) = goal[g].now
  BY <1>1, ChallengeAssumption DEF Sees
<1>8. ASSUME NEW h \in Goals
      PROVE  /\ Wanes(goal[h].now, goal'[h].now)
             /\ \A c \in Calls : Wanes(Sees(goal[h], c), Sees(goal'[h], c))
  <2>1. CASE h = g
    BY <1>4, <1>5, <1>6, <1>7, <2>1
  <2>2. CASE h # g
    BY <1>5, <1>6, <2>2
  <2>q. QED
    BY <2>1, <2>2
<1>q. QED
  BY <1>1, <1>8

LEMMA GoalNext == GoalInv /\ [Next]_vars => GoalInv'
<1> SUFFICES ASSUME GoalInv, [Next]_vars, NoStart PROVE Phases' /\ SoundGoals'
  <2>1. NoStart' = NoStart
    BY DEF NoStart
  <2>q. QED
    BY <2>1, ClaimNext DEF GoalInv
<1>t. ClaimInv /\ Types /\ Phases /\ SoundGoals
  BY DEF GoalInv, ClaimInv
<1>1. ASSUME UNCHANGED <<plan, today, target, before, member>>, day' \in {day, day + 1},
             \A g \in Goals :
               /\ Wanes(goal[g].now, goal'[g].now)
               /\ \A c \in Calls : Wanes(Sees(goal[g], c), Sees(goal'[g], c))
      PROVE  Phases' /\ SoundGoals'
  <2>1. SoundGoals'
    BY <1>1, <1>t, SoundLasts
  <2>2. ASSUME NEW c \in Calls, Turn(c)' PROVE Phase(plan[c], c)'
    <3>1. Phase(plan[c], c)
      BY <1>1, <1>t, <2>2 DEF Phases, Turn
    <3>q. QED
      BY <1>1, <1>t, <3>1, PhaseLasts
  <2>q. QED
    BY <2>1, <2>2 DEF Phases
<1>w. \A v : Wanes(v, v)
  BY DEF Wanes
<1>2. CASE UNCHANGED vars
  BY <1>1, <1>2, <1>w DEF vars, tables
<1>3. CASE NextDay
  BY <1>1, <1>3, <1>w DEF NextDay, tables
<1>4. CASE RulesChange
  BY <1>1, <1>4, <1>w DEF RulesChange, tables
<1>5. CASE \E c \in Calls : Find(c) \/ Claim(c) \/ PassOver(c)
  <2>1. PICK c \in Calls : Find(c) \/ Claim(c) \/ PassOver(c)
    BY <1>5
  <2>2. /\ member' = member /\ goal' = goal /\ target' = target /\ before' = before
        /\ day' = day
    BY <2>1 DEF Find, Claim, PassOver, tables
  <2>3. \A d \in Calls \ {c} : plan'[d] = plan[d] /\ today'[d] = today[d]
    BY <1>t, <2>1, FindBegins, ClaimBegins, PassOverBegins DEF PassOver
  <2>4. SoundGoals'
    BY <1>t, <1>w, <2>2, SoundLasts
  <2>5. ASSUME NEW d \in Calls \ {c}, Turn(d)' PROVE Phase(plan[d], d)'
    <3>1. Phase(plan[d], d)
      BY <1>t, <2>3, <2>5 DEF Phases, Turn
    <3>q. QED
      BY <1>t, <1>w, <2>2, <2>3, <3>1, PhaseLasts
  <2>6. ASSUME Turn(c)' PROVE Phase(plan[c], c)'
    <3>1. CASE Claim(c)
      BY <1>t, <3>1, ClaimPhase
    <3>2. CASE Find(c)
      BY <1>t, <2>6, <3>2, FindBegins DEF Turn
    <3>3. CASE PassOver(c)
      BY <1>t, <2>6, <3>3, PassOverBegins DEF Turn, Good
    <3>q. QED
      BY <2>1, <3>1, <3>2, <3>3
  <2>q. QED
    BY <2>4, <2>5, <2>6 DEF Phases
<1>6. ASSUME NEW c \in Calls,
             \/ Quietly(c) \/ Move(c)
             \/ Join(c) \/ Retire(c) \/ ReadMembers(c) \/ Look(c) \/ Insert(c)
      PROVE  Phases' /\ SoundGoals'
  <2>1. PICK s : Deed(c, s)
    BY <1>6, <1>t, Deeds
  <2>2. SoundGoals'
    BY <1>t, <2>1, DeedCommitsNothing DEF SoundGoals
  <2>3. ASSUME NEW d \in Calls, Turn(d)' PROVE Phase(plan[d], d)'
    <3>1. Turn(d)
      BY <1>t, <2>1, <2>3, DeedPlan DEF Turn, ClaimInv
    <3>2. Phase(plan[d], d)
      BY <1>t, <3>1 DEF Phases
    <3>3. CASE d = c
      BY <1>6, <1>t, <3>2, <3>3, TurnPhase
    <3>4. CASE d # c
      BY <1>t, <2>1, <3>2, <3>4, UnseenDeed
    <3>q. QED
      BY <3>3, <3>4
  <2>q. QED
    BY <2>2, <2>3 DEF Phases
<1>9. CASE \E c \in Calls : Commit(c) \/ Rollback(c)
  <2>1. PICK c \in Calls : Commit(c) \/ Rollback(c)
    BY <1>9
  <2>2. \E keep \in BOOLEAN : End(c, keep) /\ Good(plan[c]) /\ (keep => plan[c][1].op = "commit")
    BY <1>t, <2>1, Commits, RollsBack
  <2>q. QED
    BY <1>t, <2>2, GoalEnds
<1>10. CASE \E g \in Goals : EvaluateAlone(g) \/ CancelAlone(g)
  <2>1. PICK g \in Goals : EvaluateAlone(g) \/ CancelAlone(g)
    BY <1>10
  <2>q. QED
    BY <1>1, <1>t, <2>1, HostWanes
<1>q. QED
  BY <1>2, <1>3, <1>4, <1>5, <1>6, <1>9, <1>10, StepCases

LEMMA GoalCorrect == Spec => []GoalInv
<1>1. Init => GoalInv
  <2> SUFFICES ASSUME Init PROVE GoalInv
    OBVIOUS
  <2>1. ClaimInv
    BY ClaimInit
  <2>2. Phases
    BY ClaimInit DEF Phases, Turn
  <2>3. \A g \in Goals : Committed[g] = None
    BY DEF Init, Committed, Stored
  <2>4. SoundGoals
    BY <2>3 DEF SoundGoals, OneLive, Owned, Live, Counts
  <2>q. QED
    BY <2>1, <2>2, <2>4 DEF GoalInv
<1>2. GoalInv /\ [Next]_vars => GoalInv'
  BY GoalNext
<1>q. QED
  BY <1>1, <1>2, PTL DEF Spec

(* Where nobody calls start_challenge, nobody has two goals that count for  *)
(* the same line on the same day, whatever the daily check, close_challenge *)
(* and reset_challenge do beside each other.                                *)
THEOREM OneGoalBehindTheClaim == Spec => [](NoStart => OneActiveGoal)
<1>1. GoalInv => (NoStart => OneActiveGoal)
  <2> SUFFICES ASSUME GoalInv, NoStart PROVE OneActiveGoal
    OBVIOUS
  <2>1. OneLive(Committed, day)
    BY DEF GoalInv, SoundGoals
  <2>2. \A g \in Goals : Committed[g] = goal[g].now
    BY DEF Committed
  <2>q. QED
    BY <2>1, <2>2 DEF OneLive, OneActiveGoal, Live, Active, Key
<1>2. Spec => []GoalInv
  BY GoalCorrect
<1>q. QED
  BY <1>1, <1>2, PTL

(* ... and a goal that counts belongs to a live member.                     *)
THEOREM NoOrphansBehindTheClaim == Spec => [](NoStart => NoOrphans)
<1>1. GoalInv => (NoStart => NoOrphans)
  <2> SUFFICES ASSUME GoalInv, NoStart, NEW g \in Goals, goal[g].now # None,
                      goal[g].now.state \in {"draft", "inprogress", "reached"}
               PROVE  member[g[3]].now
    BY DEF NoOrphans
  <2>1. Owned(Committed, Members)
    BY DEF GoalInv, SoundGoals
  <2>2. Committed[g] = goal[g].now
    BY DEF Committed
  <2>3. g[3] \in Members
    BY <2>1, <2>2 DEF Owned, Counts
  <2>q. QED
    BY <2>3 DEF Members
<1>2. Spec => []GoalInv
  BY GoalCorrect
<1>q. QED
  BY <1>1, <1>2, PTL

-----------------------------------------------------------------------------
(* The podium, where nobody calls close_challenge.                          *)

NoClose == \A c \in Calls : c.verb # "close"

(* The badges of the podium, and the places that award one.                 *)
Prizes == Range(Podium) \ {None, RewardBadge}
Places(b) == {p \in DOMAIN Podium : Podium[p] = b}
Limit(n, b) == n * Cardinality(Places(b))

(* Who holds b; and who holds it or will, as c with the plan p sees it.     *)
Given(b) == {u \in Users : grant[<<b, u>>].now}

Giving(p, b, c) ==
  {u \in Users : \/ Sees(grant[<<b, u>>], c)
                 \/ \E i \in 1..Len(p) : p[i].op = "grant" /\ p[i].on = <<b, u>>}

(* Whatever else it does, c will end the season, and draw up no podium      *)
(* before it does.                                                          *)
WillClose(p) ==
  /\ challenge.now # "done"
  /\ \A i \in 1..Len(p) : p[i].op # "podium" /\ (p[i].op = "move" => p[i].on = "done")
  /\ challenge.new = "done" \/ \E i \in 1..Len(p) : p[i].op = "move"

(* A turn keeps within the limit, or exceeds it in the season that it ends. *)
Within(p, b, c) ==
  \/ Cardinality(Giving(p, b, c)) <= Limit(closings, b)
  \/ WillClose(p) /\ Cardinality(Giving(p, b, c)) <= Limit(closings + 1, b)

SoundPodium == \A b \in Prizes : Cardinality(Given(b)) <= Limit(closings, b)

Limited == \A c \in Calls : Turn(c) => \A b \in Prizes : Within(plan[c], b, c)

PodiumInv == ClaimInv /\ (NoClose => SoundPodium /\ Limited)

LEMMA PrizesAreBadges ==
  ASSUME NEW b \in Prizes
  PROVE  b \in Badges /\ b # RewardBadge
  BY DEF Prizes, Badges

LEMMA LimitGrows ==
  ASSUME NEW n \in Nat, NEW b
  PROVE  /\ IsFiniteSet(Places(b)) /\ Cardinality(Places(b)) \in Nat
         /\ Limit(n, b) \in Nat /\ Limit(n + 1, b) \in Nat
         /\ Limit(n + 1, b) = Limit(n, b) + Cardinality(Places(b))
<1>1. DOMAIN Podium = 1..Len(Podium) /\ Len(Podium) \in Nat
  BY ChallengeAssumption, LenProperties
<1>2. IsFiniteSet(1..Len(Podium))
  BY <1>1, FS_Interval
<1>3. IsFiniteSet(Places(b))
  <2>1. Places(b) \subseteq 1..Len(Podium)
    BY <1>1 DEF Places
  <2>q. QED
    BY <1>2, <2>1, FS_Subset
<1> DEFINE k == Cardinality(Places(b))
<1>4. k \in Nat
  BY <1>3, FS_CardinalityType
<1> HIDE DEF k
<1>5. n * k \in Nat /\ (n + 1) * k \in Nat /\ (n + 1) * k = n * k + k
  BY <1>4
<1>q. QED
  BY <1>3, <1>4, <1>5 DEF Limit, k

LEMMA FewerUsers ==
  ASSUME NEW S \in SUBSET Users, NEW T \in SUBSET S
  PROVE  /\ IsFiniteSet(S) /\ IsFiniteSet(T)
         /\ Cardinality(S) \in Nat /\ Cardinality(T) \in Nat
         /\ Cardinality(T) <= Cardinality(S)
<1>1. IsFiniteSet(S)
  BY FS_Subset, ChallengeAssumption
<1>2. IsFiniteSet(T) /\ Cardinality(T) <= Cardinality(S)
  BY <1>1, FS_Subset
<1>q. QED
  BY <1>1, <1>2, FS_CardinalityType

(* Each place adds one user at most.                                        *)
LEMMA RankedUsers ==
  ASSUME NEW S \in SUBSET Users, NEW b, NEW ranked,
         NEW T \in SUBSET Users, T \subseteq S \cup {ranked[p] : p \in Places(b)}
  PROVE  Cardinality(T) <= Cardinality(S) + Cardinality(Places(b))
<1> DEFINE P == Places(b)
           R == {ranked[p] : p \in P}
           f == [p \in P |-> ranked[p]]
<1>1. IsFiniteSet(P) /\ Cardinality(P) \in Nat
  BY LimitGrows
<1>2. IsFiniteSet(S) /\ Cardinality(S) \in Nat
  BY FewerUsers
<1>3. f \in Surjection(P, R)
  BY DEF Surjection
<1> HIDE DEF P, f
<1>4. IsFiniteSet(R) /\ Cardinality(R) <= Cardinality(P)
  <2> HIDE DEF R
  <2>q. QED
    BY <1>1, <1>3, FS_Surjection
<1>5. Cardinality(R) \in Nat /\ IsFiniteSet(S \cap R) /\ Cardinality(S \cap R) \in Nat
  BY <1>2, <1>4, FS_CardinalityType, FS_Intersection
<1> HIDE DEF R
<1>6. /\ IsFiniteSet(S \cup R)
      /\ Cardinality(S \cup R) = Cardinality(S) + Cardinality(R) - Cardinality(S \cap R)
  BY <1>2, <1>4, FS_Union
<1>7. Cardinality(S \cup R) \in Nat /\ Cardinality(T) <= Cardinality(S \cup R)
  <2>1. T \in SUBSET (S \cup R)
    BY DEF R, P
  <2>q. QED
    BY <1>6, <2>1, FS_Subset, FS_CardinalityType
<1>8. Cardinality(T) \in Nat
  BY FewerUsers
<1>q. QED
  BY <1>1, <1>2, <1>4, <1>5, <1>6, <1>7, <1>8 DEF P

(* What a grant and a move write.                                           *)
LEMMA GrantSeen ==
  ASSUME Types, NEW c \in Calls, Grant(c), NEW k \in Badges \X Users, Sees(grant'[k], c)
  PROVE  Sees(grant[k], c) \/ k = plan[c][1].on
<1>1. Arg(c) = plan[c][1].on
  BY Running DEF Grant, Types, Verbs
<1> DEFINE a == Arg(c)
<1>2. grant' = grant \/ grant' = [grant EXCEPT ![a] = Put(grant[a], c, TRUE)]
  BY DEF Grant
<1>3. grant \in [Badges \X Users -> Rows(BOOLEAN)]
  BY DEF Types, Tables
<1> HIDE DEF a
<1>4. k # a => grant'[k] = grant[k]
  BY <1>2, <1>3
<1>q. QED
  BY <1>1, <1>4 DEF a

LEMMA MoveWrites ==
  ASSUME Types, NEW c \in Calls, Move(c)
  PROVE  challenge'.new = plan[c][1].on
<1>1. Arg(c) = plan[c][1].on /\ Arg(c) \in States
  BY Moved
<1>2. challenge \in Rows(States)
  BY DEF Types, Tables
<1>q. QED
  BY <1>1, <1>2, RowPut DEF Move

(* A statement that draws up no podium adds nobody to the holders of b.     *)
LEMMA NobodyIsAdded ==
  ASSUME ClaimInv, NEW c \in Calls, NEW s, Deed(c, s), Laid(c, s),
         plan[c][1].op = "grant" => Grant(c),
         NEW b \in Prizes, plan[c][1].op # "podium"
  PROVE  Giving(plan[c], b, c)' \subseteq Giving(plan[c], b, c)
<1> DEFINE a == plan[c][1].op
<1>1. /\ Good(plan[c]) /\ Len(plan[c]) \in Nat /\ 1 \in 1..Len(plan[c])
      /\ s \in Seq(Inner) /\ Opened(a, s) /\ Stepped(c, s)
  BY DeedPlan DEF Deed, ClaimInv
<1> SUFFICES ASSUME NEW u \in Users,
                    \/ Sees(grant'[<<b, u>>], c)
                    \/ \E i \in 1..Len(plan'[c]) :
                         plan'[c][i].op = "grant" /\ plan'[c][i].on = <<b, u>>
             PROVE  \/ Sees(grant[<<b, u>>], c)
                    \/ \E i \in 1..Len(plan[c]) :
                         plan[c][i].op = "grant" /\ plan[c][i].on = <<b, u>>
  BY DEF Giving
<1>2. CASE Sees(grant'[<<b, u>>], c)
  <2>1. <<b, u>> \in Badges \X Users
    BY PrizesAreBadges
  <2>2. CASE grant' = grant
    BY <1>2, <2>2
  <2>3. CASE a = "grant"
    <3>1. Sees(grant[<<b, u>>], c) \/ <<b, u>> = plan[c][1].on
      BY <1>2, <2>1, <2>3, GrantSeen DEF ClaimInv
    <3>q. QED
      BY <1>1, <2>3, <3>1
  <2>q. QED
    BY <2>2, <2>3 DEF Deed
<1>3. ASSUME NEW i \in 1..Len(plan'[c]), plan'[c][i].op = "grant", plan'[c][i].on = <<b, u>>
      PROVE  \E k \in 1..Len(plan[c]) : plan[c][k].op = "grant" /\ plan[c][k].on = <<b, u>>
  <2>1. CASE i \in 1..Len(s) /\ plan'[c][i] = s[i]
    <3>1. a = "realtime" /\ s[i].on = <<b, u>>
      BY <1>1, <1>3, <2>1 DEF Opened
    <3>2. s[i].on[1] = RewardBadge
      BY <2>1, <3>1 DEF Laid
    <3>q. QED
      BY <3>1, <3>2, PrizesAreBadges
  <2>2. CASE \E k \in 2..Len(plan[c]) : plan'[c][i] = plan[c][k]
    <3>1. PICK k \in 2..Len(plan[c]) : plan'[c][i] = plan[c][k]
      BY <2>2
    <3>2. k \in 1..Len(plan[c])
      BY <1>1
    <3>q. QED
      BY <1>3, <3>1, <3>2
  <2>q. QED
    BY <1>1, <2>1, <2>2 DEF Stepped
<1>q. QED
  BY <1>2, <1>3

(* ... and a podium adds as many as b has places.                           *)
LEMMA PlacesAreAdded ==
  ASSUME ClaimInv, NEW c \in Calls, NEW s, Deed(c, s), Laid(c, s),
         NEW b \in Prizes, plan[c][1].op = "podium"
  PROVE  Cardinality(Giving(plan[c], b, c)')
           <= Cardinality(Giving(plan[c], b, c)) + Cardinality(Places(b))
<1>1. Len(plan[c]) \in Nat /\ Stepped(c, s) /\ grant' = grant
  BY DeedPlan DEF Deed, ClaimInv
<1>2. PICK ranked : \A i \in 1..Len(s) : \E p \in DOMAIN Podium :
        s[i].on = <<Podium[p], ranked[p]>>
  BY DEF Laid
<1> DEFINE S == Giving(plan[c], b, c)
           T == Giving(plan[c], b, c)'
           R == {ranked[p] : p \in Places(b)}
<1>3. ASSUME NEW u \in Users, NEW i \in 1..Len(plan'[c]),
             plan'[c][i].op = "grant", plan'[c][i].on = <<b, u>>
      PROVE  \/ u \in R
             \/ \E k \in 1..Len(plan[c]) : plan[c][k].op = "grant" /\ plan[c][k].on = <<b, u>>
  <2>1. CASE i \in 1..Len(s) /\ plan'[c][i] = s[i]
    <3>1. PICK p \in DOMAIN Podium : s[i].on = <<Podium[p], ranked[p]>>
      BY <1>2, <2>1
    <3>2. Podium[p] = b /\ ranked[p] = u
      BY <1>3, <2>1, <3>1
    <3>q. QED
      BY <3>2 DEF Places
  <2>2. CASE \E k \in 2..Len(plan[c]) : plan'[c][i] = plan[c][k]
    <3>1. PICK k \in 2..Len(plan[c]) : plan'[c][i] = plan[c][k]
      BY <2>2
    <3>2. k \in 1..Len(plan[c])
      BY <1>1
    <3>q. QED
      BY <1>3, <3>1, <3>2
  <2>q. QED
    BY <1>1, <2>1, <2>2 DEF Stepped
<1>4. T \subseteq S \cup R
  <2> SUFFICES ASSUME NEW u \in Users,
                      \/ Sees(grant'[<<b, u>>], c)
                      \/ \E i \in 1..Len(plan'[c]) :
                           plan'[c][i].op = "grant" /\ plan'[c][i].on = <<b, u>>
               PROVE  u \in S \cup R
    BY DEF Giving
  <2> HIDE DEF R
  <2>q. QED
    BY <1>1, <1>3 DEF Giving
<1>5. S \in SUBSET Users /\ T \in SUBSET Users
  BY DEF Giving
<1> HIDE DEF S, T
<1>6. Cardinality(T) <= Cardinality(S) + Cardinality(Places(b))
  BY <1>4, <1>5, RankedUsers
<1>q. QED
  BY <1>6 DEF S, T

(* A turn that will close the challenge goes on to, and a podium makes it.  *)
LEMMA WillStillClose ==
  ASSUME ClaimInv, NEW c \in Calls, Turn(c), NEW s, Deed(c, s),
         plan[c][1].op = "move" => Move(c),
         WillClose(plan[c]) \/ plan[c][1].op = "podium"
  PROVE  WillClose(plan[c])'
<1> DEFINE a == plan[c][1].op
<1>1. /\ Good(plan[c]) /\ Len(plan[c]) \in Nat /\ 1 \in 1..Len(plan[c])
      /\ s \in Seq(Inner) /\ Stepped(c, s) /\ Closes(plan[c])
  BY DeedPlan DEF Deed, ClaimInv, Orderly
<1>2. /\ \A i \in 2..Len(plan[c]) :
           plan[c][i].op # "podium" /\ (plan[c][i].op = "move" => plan[c][i].on = "done")
      /\ \/ \E i \in 2..Len(plan[c]) : plan[c][i].op = "move"
         \/ WillClose(plan[c])
  <2>1. CASE WillClose(plan[c])
    BY <1>1, <2>1 DEF WillClose
  <2>2. CASE a = "podium"
    BY <1>1, <2>2 DEF Closes
  <2>q. QED
    BY <2>1, <2>2
<1>3. \A i \in 1..Len(s) : s[i].op \notin {"podium", "move"}
  BY <1>1, ElementOfSeq DEF Inner
<1>4. \A i \in 1..Len(plan'[c]) :
        plan'[c][i].op # "podium" /\ (plan'[c][i].op = "move" => plan'[c][i].on = "done")
  <2> SUFFICES ASSUME NEW i \in 1..Len(plan'[c])
               PROVE  /\ plan'[c][i].op # "podium"
                      /\ plan'[c][i].op = "move" => plan'[c][i].on = "done"
    OBVIOUS
  <2>1. \/ \E j \in 1..Len(s) : plan'[c][i] = s[j]
        \/ \E k \in 2..Len(plan[c]) : plan'[c][i] = plan[c][k]
    BY <1>1 DEF Stepped
  <2>q. QED
    BY <1>2, <1>3, <2>1
<1>5. challenge'.new = "done" \/ \E i \in 1..Len(plan'[c]) : plan'[c][i].op = "move"
  <2>1. CASE \E k \in 2..Len(plan[c]) : plan[c][k].op = "move"
    BY <1>1, <2>1 DEF Stepped
  <2>2. CASE WillClose(plan[c]) /\ ~\E k \in 2..Len(plan[c]) : plan[c][k].op = "move"
    <3>1. CASE a = "move"
      <4>1. plan[c][1].on = "done"
        BY <1>1, <2>2, <3>1 DEF WillClose
      <4>q. QED
        BY <3>1, <4>1, MoveWrites DEF ClaimInv
    <3>2. CASE a # "move"
      <4>1. challenge' = challenge
        BY <3>2 DEF Deed
      <4>2. ASSUME NEW i \in 1..Len(plan[c]) PROVE plan[c][i].op # "move"
        <5>1. i = 1 \/ i \in 2..Len(plan[c])
          BY <1>1
        <5>q. QED
          BY <2>2, <3>2, <5>1
      <4>q. QED
        BY <2>2, <4>1, <4>2 DEF WillClose
    <3>q. QED
      BY <3>1, <3>2
  <2>q. QED
    BY <1>2, <2>1, <2>2
<1>6. challenge.now # "done"
  <2>1. CASE WillClose(plan[c])
    BY <2>1 DEF WillClose
  <2>2. CASE a = "podium"
    BY <1>1, <2>2 DEF ClaimInv, Exclusive, Turn, Reporting
  <2>q. QED
    BY <2>1, <2>2
<1>7. challenge'.now = challenge.now
  BY DEF Deed, Rewritten
<1>q. QED
  BY <1>4, <1>5, <1>6, <1>7 DEF WillClose

(* A turn keeps within the limit.                                           *)
LEMMA TurnIsWithin ==
  ASSUME ClaimInv, NEW c \in Calls, Turn(c), NEW s, Deed(c, s), Laid(c, s),
         plan[c][1].op = "grant" => Grant(c), plan[c][1].op = "move" => Move(c),
         NEW b \in Prizes, Within(plan[c], b, c)
  PROVE  Within(plan[c], b, c)'
<1> DEFINE S == Giving(plan[c], b, c)
           T == Giving(plan[c], b, c)'
           k == Cardinality(Places(b))
           n == Cardinality(S)
           m == Cardinality(T)
<1>1. /\ closings \in Nat /\ closings' = closings
      /\ 1 \in 1..Len(plan[c])
  BY DeedPlan DEF Deed, ClaimInv, Types, Others
<1>2. /\ k \in Nat /\ Limit(closings, b) \in Nat /\ Limit(closings + 1, b) \in Nat
      /\ Limit(closings + 1, b) = Limit(closings, b) + k
  BY <1>1, LimitGrows
<1>3. S \in SUBSET Users /\ T \in SUBSET Users
  BY DEF Giving
<1>4. n \in Nat /\ m \in Nat
  BY <1>3, FewerUsers
<1>5. \/ n <= Limit(closings, b)
      \/ WillClose(plan[c]) /\ n <= Limit(closings + 1, b)
  BY DEF Within
<1>6. CASE plan[c][1].op # "podium"
  <2>1. T \in SUBSET S
    BY <1>6, NobodyIsAdded
  <2>2. m <= n
    BY <1>3, <2>1, FewerUsers
  <2>3. \/ m <= Limit(closings, b)
        \/ WillClose(plan[c])' /\ m <= Limit(closings + 1, b)
    <3>1. WillClose(plan[c]) => WillClose(plan[c])'
      BY WillStillClose
    <3> HIDE DEF S, T, n, m, k
    <3>q. QED
      BY <1>2, <1>4, <1>5, <2>2, <3>1
  <2>q. QED
    BY <1>1, <2>3 DEF Within, Limit
<1>7. CASE plan[c][1].op = "podium"
  <2>1. m <= n + k
    BY <1>7, PlacesAreAdded
  <2>2. ~WillClose(plan[c])
    BY <1>1, <1>7 DEF WillClose
  <2>3. m <= Limit(closings + 1, b)
    <3> HIDE DEF S, T, n, m, k
    <3>q. QED
      BY <1>2, <1>4, <1>5, <2>1, <2>2
  <2>4. WillClose(plan[c])'
    BY <1>7, WillStillClose
  <2>q. QED
    BY <1>1, <2>3, <2>4 DEF Within, Limit
<1>q. QED
  BY <1>6, <1>7

(* What a turn is within depends on its own view, and on the challenge.     *)
LEMMA WithinLasts ==
  ASSUME NEW c \in Calls, NEW b \in Prizes, Within(plan[c], b, c),
         plan'[c] = plan[c], challenge'.now = challenge.now, challenge'.new = challenge.new,
         closings' = closings,
         \A u \in Users : Sees(grant'[<<b, u>>], c) = Sees(grant[<<b, u>>], c)
  PROVE  Within(plan[c], b, c)'
<1>1. Giving(plan[c], b, c)' = Giving(plan[c], b, c)
  BY DEF Giving
<1>2. WillClose(plan[c])' <=> WillClose(plan[c])
  BY DEF WillClose
<1>q. QED
  BY <1>1, <1>2 DEF Within, Limit

(* Another call runs a statement.                                           *)
LEMMA OthersDeedLimited ==
  ASSUME ClaimInv, NEW c \in Calls, Turn(c), NEW d \in Calls, c # d, NEW s, Deed(d, s),
         NEW b \in Prizes, Within(plan[c], b, c)
  PROVE  Within(plan[c], b, c)'
<1>1. challenge.by = c /\ c # None
  BY ChallengeAssumption DEF ClaimInv, Exclusive
<1>2. challenge' = challenge
  BY <1>1 DEF Deed, Rewritten, Free
<1>3. plan'[c] = plan[c] /\ closings' = closings
  BY DeedPlan DEF Deed, ClaimInv
<1>4. \A u \in Users : Sees(grant'[<<b, u>>], c) = Sees(grant[<<b, u>>], c)
  <2> SUFFICES ASSUME NEW u \in Users
               PROVE  Sees(grant'[<<b, u>>], c) = Sees(grant[<<b, u>>], c)
    OBVIOUS
  <2>1. <<b, u>> \in Badges \X Users
    BY PrizesAreBadges
  <2>2. grant' = grant \/ Rewritten(grant[<<b, u>>], grant'[<<b, u>>], d)
    BY <2>1 DEF Deed
  <2>q. QED
    BY <2>2, UnseenRewrite
<1>q. QED
  BY <1>2, <1>3, <1>4, WithinLasts

LEMMA DeedGivesNothing ==
  ASSUME NEW c \in Calls, NEW s, Deed(c, s), SoundPodium
  PROVE  SoundPodium'
<1> SUFFICES ASSUME NEW b \in Prizes
             PROVE  Given(b)' = Given(b) /\ closings' = closings
  BY DEF SoundPodium, Limit
<1>1. \A u \in Users : <<b, u>> \in Badges \X Users
  BY PrizesAreBadges
<1>2. \A u \in Users : grant'[<<b, u>>].now = grant[<<b, u>>].now
  BY <1>1 DEF Deed, Rewritten
<1>q. QED
  BY <1>2 DEF Given, Deed

(* Where nobody calls close_challenge, an uncommitted grant is a turn's.    *)
LEMMA GrantsAreOfTurns ==
  ASSUME ClaimInv, NoClose, NEW k \in Badges \X Users, grant[k].by # None
  PROVE  grant[k].by \in Calls /\ Turn(grant[k].by)
<1>1. grant[k].by \in Calls
  BY DEF ClaimInv, Types, Tables, Rows
<1>2. Good(plan[grant[k].by])
  BY DEF ClaimInv, Types, Holders, Held
<1>3. grant[k].by.verb = "daily"
  BY <1>1 DEF ClaimInv, Writers, NoClose
<1>q. QED
  BY <1>1, <1>2, <1>3 DEF Turn

(* A transaction ends.                                                      *)
LEMMA PodiumEnds ==
  ASSUME ClaimInv, NoClose, SoundPodium, Limited, NEW c \in Calls, NEW keep \in BOOLEAN,
         Good(plan[c]), End(c, keep), keep => plan[c][1].op = "commit",
         closings' = closings
           + (IF keep /\ challenge'.now = "done" /\ challenge.now # "done" THEN 1 ELSE 0)
  PROVE  SoundPodium' /\ Limited'
<1>e. /\ plan'[c] = <<>> /\ ~Good(<<>>)
      /\ \A d \in Calls \ {c} : plan'[d] = plan[d]
      /\ challenge' = Settled(challenge, c, keep)
      /\ \A k \in Badges \X Users : grant'[k] = Settled(grant[k], c, keep)
  BY Endings DEF ClaimInv
<1>t. /\ challenge \in Rows(States) /\ grant \in [Badges \X Users -> Rows(BOOLEAN)]
      /\ \A k \in Badges \X Users : Held(grant[k])
      /\ closings \in Nat
  BY DEF ClaimInv, Types, Tables, Holders, Others
<1>c. closings' = closings \/ closings' = closings + 1
  BY <1>t
<1>1. ASSUME ~Turn(c)
      PROVE  \A k \in Badges \X Users : grant'[k] = grant[k]
  <2> SUFFICES ASSUME NEW k \in Badges \X Users PROVE grant'[k] = grant[k]
    OBVIOUS
  <2>1. c # None
    BY ChallengeAssumption
  <2>2. grant[k].by # None => Turn(grant[k].by)
    BY GrantsAreOfTurns
  <2>3. grant[k].by # c
    BY <1>1, <2>1, <2>2
  <2>q. QED
    BY <1>e, <1>t, <2>3, RowSettled
<1>2. Limited'
  <2> SUFFICES ASSUME NEW d \in Calls, Turn(d)', NEW b \in Prizes PROVE Within(plan[d], b, d)'
    BY DEF Limited, Prizes
  <2>1. d # c /\ Turn(d)
    BY <1>e DEF Turn
  <2>2. challenge.by = d /\ ~Turn(c)
    BY <2>1 DEF ClaimInv, Exclusive
  <2>3. challenge' = challenge
    BY <1>e, <1>t, <2>1, <2>2, RowSettled
  <2>4. closings' = closings
    BY <1>t, <2>3
  <2>5. \A u \in Users : Sees(grant'[<<b, u>>], d) = Sees(grant[<<b, u>>], d)
    BY <1>1, <2>2, PrizesAreBadges
  <2>6. Within(plan[d], b, d) /\ plan'[d] = plan[d]
    BY <1>e, <2>1 DEF Limited
  <2>q. QED
    BY <2>3, <2>4, <2>5, <2>6, WithinLasts
<1>3. ASSUME NEW b \in Prizes PROVE Cardinality(Given(b)') <= Limit(closings', b)
  <2> DEFINE n == Cardinality(Given(b))
             m == Cardinality(Given(b)')
  <2>1. /\ Given(b) \in SUBSET Users /\ Given(b)' \in SUBSET Users
        /\ Giving(plan[c], b, c) \in SUBSET Users
    BY DEF Given, Giving
  <2>2. n \in Nat /\ m \in Nat /\ Cardinality(Giving(plan[c], b, c)) \in Nat
    BY <2>1, FewerUsers
  <2>3. /\ Cardinality(Places(b)) \in Nat
        /\ Limit(closings, b) \in Nat /\ Limit(closings + 1, b) \in Nat
        /\ Limit(closings, b) <= Limit(closings + 1, b)
    BY <1>t, LimitGrows
  <2>4. n <= Limit(closings, b)
    BY DEF SoundPodium
  <2>5. CASE ~Turn(c) \/ ~keep
    <3>1. \A u \in Users : grant'[<<b, u>>].now = grant[<<b, u>>].now
      <4> SUFFICES ASSUME NEW u \in Users PROVE grant'[<<b, u>>].now = grant[<<b, u>>].now
        OBVIOUS
      <4>1. <<b, u>> \in Badges \X Users
        BY PrizesAreBadges
      <4>2. CASE ~Turn(c)
        BY <1>1, <4>1, <4>2
      <4>3. CASE ~keep
        <5>1. grant[<<b, u>>] \in Rows(BOOLEAN) /\ Held(grant[<<b, u>>])
          BY <1>t, <4>1
        <5>2. grant'[<<b, u>>] = Settled(grant[<<b, u>>], c, keep)
          BY <1>e, <4>1
        <5>q. QED
          BY <4>3, <5>1, <5>2, RowSettled
      <4>q. QED
        BY <2>5, <4>2, <4>3
    <3>2. Given(b)' = Given(b)
      BY <3>1 DEF Given
    <3> HIDE DEF n, m
    <3>3. m = n
      BY <3>2 DEF m, n
    <3>q. QED
      BY <1>c, <2>2, <2>3, <2>4, <3>3 DEF m
  <2>6. CASE Turn(c) /\ keep
    <3>1. Given(b)' \subseteq Giving(plan[c], b, c)
      <4> SUFFICES ASSUME NEW u \in Users, grant'[<<b, u>>].now PROVE Sees(grant[<<b, u>>], c)
        BY DEF Given, Giving
      <4>1. <<b, u>> \in Badges \X Users
        BY PrizesAreBadges
      <4>2. grant[<<b, u>>] \in Rows(BOOLEAN) /\ Held(grant[<<b, u>>])
        BY <1>t, <4>1
      <4>3. grant'[<<b, u>>] = Settled(grant[<<b, u>>], c, keep)
        BY <1>e, <4>1
      <4> DEFINE v == grant[<<b, u>>]
                 w == grant'[<<b, u>>]
      <4>4. /\ v \in Rows(BOOLEAN) /\ (v.by = None => v.new = v.now)
            /\ w = Settled(v, c, keep) /\ w.now
        BY <4>2, <4>3 DEF Held
      <4> HIDE DEF v, w
      <4>5. (v.by = c => w.now = v.new) /\ (v.by # c => w = v)
        BY <2>6, <4>4, RowSettled
      <4>q. QED
        BY <4>4, <4>5 DEF v, Sees
    <3>2. m <= Cardinality(Giving(plan[c], b, c))
      BY <2>1, <3>1, FewerUsers
    <3>3. WillClose(plan[c]) => closings' = closings + 1
      <4> SUFFICES ASSUME WillClose(plan[c]) PROVE closings' = closings + 1
        OBVIOUS
      <4>1. Len(plan[c]) = 1 /\ plan[c][1].op = "commit"
        <5>1. plan[c] # <<>> /\ plan[c] \in Seq(Steps)
          BY DEF Good
        <5>2. 1 \in 1..Len(plan[c]) /\ Len(plan[c]) \in Nat
          BY <5>1, EmptySeq, LenProperties
        <5>q. QED
          BY <2>6, <5>2 DEF Good
      <4>2. challenge.new = "done"
        BY <4>1 DEF WillClose
      <4>3. challenge.by = c /\ challenge.now # "done"
        BY <2>6 DEF ClaimInv, Exclusive, WillClose
      <4>4. challenge'.now = "done"
        BY <1>e, <1>t, <2>6, <4>2, <4>3, RowSettled
      <4>q. QED
        BY <2>6, <4>3, <4>4
    <3>4. \/ Cardinality(Giving(plan[c], b, c)) <= Limit(closings, b)
          \/ /\ WillClose(plan[c])
             /\ Cardinality(Giving(plan[c], b, c)) <= Limit(closings + 1, b)
      BY <2>6 DEF Limited, Within
    <3> DEFINE x == Cardinality(Giving(plan[c], b, c))
    <3> HIDE DEF n, m, x
    <3>5. /\ m <= x /\ x \in Nat /\ m \in Nat
          /\ \/ x <= Limit(closings, b)
             \/ closings' = closings + 1 /\ x <= Limit(closings + 1, b)
      BY <2>2, <3>2, <3>3, <3>4 DEF x
    <3>6. m <= Limit(closings', b)
      BY <1>c, <2>3, <3>5
    <3>q. QED
      BY <3>6 DEF m
  <2>q. QED
    BY <2>5, <2>6
<1>4. SoundPodium'
  <2>1. Prizes' = Prizes /\ \A b : Limit(closings, b)' = Limit(closings', b)
    BY DEF Prizes, Limit, Places
  <2>q. QED
    BY <1>3, <2>1 DEF SoundPodium
<1>q. QED
  BY <1>2, <1>4

(* A turn begins with what is committed.                                    *)
LEMMA ClaimIsWithin ==
  ASSUME ClaimInv, SoundPodium, NEW c \in Calls, Claim(c), NEW b \in Prizes
  PROVE  Within(plan[c], b, c)'
<1>1. Types /\ ~Good(plan[c]) /\ grant' = grant /\ closings' = closings
  BY Claims DEF ClaimInv, Claim
<1>2. PICK n, d : plan'[c] = DailyPlan(challenge.now, n, d)
  BY <1>1, ClaimBegins
<1>3. \A u \in Users : Sees(grant[<<b, u>>], c) = grant[<<b, u>>].now
  <2> SUFFICES ASSUME NEW u \in Users
               PROVE  Sees(grant[<<b, u>>], c) = grant[<<b, u>>].now
    OBVIOUS
  <2>1. Held(grant[<<b, u>>])
    BY <1>1, PrizesAreBadges DEF Types, Holders
  <2>2. grant[<<b, u>>].by # c
    BY <1>1, <2>1, ChallengeAssumption DEF Held
  <2>q. QED
    BY <2>2 DEF Sees
<1> DEFINE q == plan'[c]
<1>4. \A i \in 1..Len(q) : q[i].op \notin InnerOps
  BY <1>2, DailyIsOrderly
<1> HIDE DEF q
<1>5. \A i \in 1..Len(q) : q[i].op # "grant"
  BY <1>4 DEF InnerOps
<1>6. Giving(plan[c], b, c)' = Given(b)
  BY <1>1, <1>3, <1>5 DEF Giving, Given, q
<1>7. Cardinality(Given(b)) <= Limit(closings, b)
  BY DEF SoundPodium
<1>8. Limit(closings, b)' = Limit(closings, b)
  BY <1>1 DEF Limit, Places
<1>q. QED
  BY <1>6, <1>7, <1>8 DEF Within

LEMMA PodiumNext == PodiumInv /\ [Next]_vars => PodiumInv'
<1> SUFFICES ASSUME PodiumInv, [Next]_vars, NoClose PROVE SoundPodium' /\ Limited'
  <2>1. NoClose' = NoClose
    BY DEF NoClose
  <2>q. QED
    BY <2>1, ClaimNext DEF PodiumInv
<1>t. ClaimInv /\ Types /\ SoundPodium /\ Limited
  BY DEF PodiumInv, ClaimInv
<1>p. Prizes' = Prizes
  BY DEF Prizes
<1>s. ASSUME grant' = grant, closings' = closings PROVE SoundPodium'
  BY <1>s, <1>t, <1>p DEF SoundPodium, Given, Limit, Places
<1>l. ASSUME NEW c \in Calls, Turn(c), plan'[c] = plan[c], challenge' = challenge,
             grant' = grant, closings' = closings, NEW b \in Prizes
      PROVE  Within(plan[c], b, c)'
  <2>1. Within(plan[c], b, c)
    BY <1>l, <1>t DEF Limited
  <2>2. \A u \in Users : Sees(grant'[<<b, u>>], c) = Sees(grant[<<b, u>>], c)
    BY <1>l
  <2>q. QED
    BY <1>l, <2>1, <2>2, WithinLasts
<1>1. ASSUME UNCHANGED <<plan, challenge, grant, closings>>
      PROVE  SoundPodium' /\ Limited'
  <2>1. SoundPodium'
    BY <1>1, <1>s
  <2>2. ASSUME NEW c \in Calls, Turn(c)', NEW b \in Prizes PROVE Within(plan[c], b, c)'
    <3>1. Turn(c)
      BY <1>1, <2>2 DEF Turn
    <3>q. QED
      BY <1>1, <1>l, <3>1
  <2>q. QED
    BY <1>p, <2>1, <2>2 DEF Limited
<1>2. CASE UNCHANGED vars
  BY <1>1, <1>2 DEF vars, tables
<1>3. CASE NextDay
  BY <1>1, <1>3 DEF NextDay, tables
<1>4. CASE RulesChange
  BY <1>1, <1>4 DEF RulesChange, tables
<1>5. CASE \E c \in Calls : Find(c) \/ Claim(c) \/ PassOver(c)
  <2>1. PICK c \in Calls : Find(c) \/ Claim(c) \/ PassOver(c)
    BY <1>5
  <2>2. grant' = grant /\ closings' = closings
    BY <2>1 DEF Find, Claim, PassOver, tables
  <2>3. SoundPodium'
    BY <1>s, <2>2
  <2>4. ASSUME NEW d \in Calls, d # c, Turn(d)', NEW b \in Prizes PROVE Within(plan[d], b, d)'
    <3>1. plan'[d] = plan[d]
      BY <1>t, <2>1, <2>4, FindBegins, ClaimBegins, PassOverBegins
    <3>2. Turn(d)
      BY <2>4, <3>1 DEF Turn
    <3>3. challenge' = challenge
      <4>1. CASE Claim(c)
        BY <1>t, <3>2, <4>1, ClaimBegins, ChallengeAssumption DEF ClaimInv, Exclusive
      <4>q. QED
        BY <2>1, <4>1 DEF Find, PassOver, tables
    <3>q. QED
      BY <1>l, <2>2, <3>1, <3>2, <3>3
  <2>5. ASSUME Turn(c)', NEW b \in Prizes PROVE Within(plan[c], b, c)'
    <3>1. CASE Claim(c)
      BY <1>t, <3>1, ClaimIsWithin
    <3>2. CASE Find(c)
      BY <1>t, <2>5, <3>2, FindBegins DEF Turn
    <3>3. CASE PassOver(c)
      BY <1>t, <2>5, <3>3, PassOverBegins DEF Turn, Good
    <3>q. QED
      BY <2>1, <3>1, <3>2, <3>3
  <2>q. QED
    BY <1>p, <2>3, <2>4, <2>5 DEF Limited
<1>6. ASSUME NEW c \in Calls,
             \/ Quietly(c) \/ Move(c)
             \/ Join(c) \/ Retire(c) \/ ReadMembers(c) \/ Look(c) \/ Insert(c)
      PROVE  SoundPodium' /\ Limited'
  <2>1. PICK s : Deed(c, s) /\ Laid(c, s)
    BY <1>6, <1>t, Deeds
  <2>2. SoundPodium'
    BY <1>t, <2>1, DeedGivesNothing
  <2>3. /\ plan[c][1].op = "grant" => Grant(c)
        /\ plan[c][1].op = "move" => Move(c)
    <3>1. At(c, plan[c][1].op)
      BY <1>t, <2>1, DeedPlan, AtHead DEF ClaimInv
    <3>q. QED
      BY <1>6, <3>1 DEF Quietly, ReadRules, ReadBefore, Sweep, ReadGoals, Evaluate, Fail,
         ReadPodium, ReadRealtime, Grant, Check, StampReport, Move, Join, Retire, ReadMembers, Look, Insert, At
  <2>4. ASSUME NEW d \in Calls, Turn(d)', NEW b \in Prizes PROVE Within(plan[d], b, d)'
    <3>1. Turn(d)
      BY <1>t, <2>1, <2>4, DeedPlan DEF Turn, ClaimInv
    <3>2. Within(plan[d], b, d)
      BY <1>t, <3>1 DEF Limited
    <3>3. CASE d = c
      BY <1>t, <2>1, <2>3, <3>1, <3>2, <3>3, TurnIsWithin
    <3>4. CASE d # c
      BY <1>t, <2>1, <3>1, <3>2, <3>4, OthersDeedLimited
    <3>q. QED
      BY <3>3, <3>4
  <2>q. QED
    BY <1>p, <2>2, <2>4 DEF Limited
<1>9. CASE \E c \in Calls : Commit(c) \/ Rollback(c)
  <2>1. PICK c \in Calls : Commit(c) \/ Rollback(c)
    BY <1>9
  <2>2. CASE Commit(c)
    <3>1. Good(plan[c]) /\ plan[c][1].op = "commit" /\ End(c, TRUE)
      BY <1>t, <2>2, Commits
    <3>2. closings' = closings
            + (IF TRUE /\ challenge'.now = "done" /\ challenge.now # "done" THEN 1 ELSE 0)
      BY <2>2 DEF Commit
    <3>q. QED
      BY <1>t, <3>1, <3>2, PodiumEnds
  <2>3. CASE Rollback(c)
    <3>1. Good(plan[c]) /\ End(c, FALSE) /\ closings' = closings /\ closings \in Nat
      BY <1>t, <2>3, RollsBack DEF Rollback, Types, Others
    <3>2. closings' = closings
            + (IF FALSE /\ challenge'.now = "done" /\ challenge.now # "done" THEN 1 ELSE 0)
      BY <3>1
    <3>q. QED
      BY <1>t, <3>1, <3>2, PodiumEnds
  <2>q. QED
    BY <2>1, <2>2, <2>3
<1>10. CASE \E g \in Goals : EvaluateAlone(g) \/ CancelAlone(g)
  BY <1>1, <1>10 DEF EvaluateAlone, CancelAlone
<1>q. QED
  BY <1>2, <1>3, <1>4, <1>5, <1>6, <1>9, <1>10, StepCases

LEMMA PodiumCorrect == Spec => []PodiumInv
<1>1. Init => PodiumInv
  <2> SUFFICES ASSUME Init PROVE PodiumInv
    OBVIOUS
  <2>1. ClaimInv /\ \A c \in Calls : ~Good(plan[c])
    BY ClaimInit
  <2>2. ASSUME NEW b \in Prizes PROVE Cardinality(Given(b)) <= Limit(closings, b)
    <3>1. \A u \in Users : ~grant[<<b, u>>].now
      BY PrizesAreBadges DEF Init, Stored
    <3>2. Given(b) = {}
      BY <3>1 DEF Given
    <3>3. closings = 0 /\ Limit(0, b) \in Nat
      BY LimitGrows DEF Init
    <3>4. Cardinality(Given(b)) = 0
      BY <3>2, FS_EmptySet
    <3>q. QED
      BY <3>3, <3>4
  <2>q. QED
    BY <2>1, <2>2 DEF PodiumInv, SoundPodium, Limited, Turn
<1>2. PodiumInv /\ [Next]_vars => PodiumInv'
  BY PodiumNext
<1>q. QED
  BY <1>1, <1>2, PTL DEF Spec

(* Where nobody calls close_challenge, a place of the podium is awarded     *)
(* once per season: the daily check awards it in the transaction that ends  *)
(* the season, and only one turn can.                                       *)
THEOREM PodiumOnceBehindTheClaim == Spec => [](NoClose => PodiumOnce)
<1>1. PodiumInv => (NoClose => PodiumOnce)
  <2> SUFFICES ASSUME PodiumInv, NoClose PROVE PodiumOnce
    OBVIOUS
  <2>1. \A b \in Prizes : Cardinality(Given(b)) <= Limit(closings, b)
    BY DEF PodiumInv, SoundPodium
  <2>q. QED
    BY <2>1 DEF PodiumOnce, Prizes, Given, Limit, Places
<1>2. Spec => []PodiumInv
  BY PodiumCorrect
<1>q. QED
  BY <1>1, <1>2, PTL
=============================================================================
