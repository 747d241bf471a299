------------------------ MODULE ChallengeSeasonProofs ------------------------
(***************************************************************************)
(* Proofs about ChallengeSeason, for any calls, members, lines, windows,   *)
(* podium and calendar.                                                    *)
(*                                                                         *)
(* A call's plan is data that its statements rewrite, so the invariants    *)
(* are mostly about plans: an idle one is <<Do(c.verb)>>, an ended one is  *)
(* empty, and any other is Good: one commit, at its end, no move but to    *)
(* "done" after the first statement that is left, and every join that is   *)
(* left is followed by a reading of the members.                           *)
(*   - Types adds to Plans that evaluated goals exist (Evaluable), that    *)
(*     the rows are typed and held by open transactions (Tables, Holders), *)
(*     and that a goal is committed by the end of the call that inserts    *)
(*     it, and written by nobody else until then (Fresh).                  *)
(*   - MachineInv adds that an uncommitted move starts from the committed  *)
(*     state and is a declared one, or the two of a single turn.           *)
(*   - MembersInv adds that a member only c can see has his goals, or      *)
(*     c's plan will still look for them (Joiners).                        *)
(* What else the runs check of the module needs the daily check's claim:   *)
(* see ChallengeClaimProofs.                                               *)
(***************************************************************************)
EXTENDS ChallengeSeason, FiniteSetTheorems, SequenceTheorems, TLAPS

-----------------------------------------------------------------------------
(* Plans.                                                                   *)

States == {"draft", "inprogress", "done"}

Args ==
  {None} \cup States \cup Users \cup (Lines \X Users) \cup (Goals \X GoalStates)
    \cup (Badges \X Users)

(* A statement whose argument is what its operation expects.                *)
Typed(s) ==
  /\ s.op \in {"look", "insert"} => s.on \in Lines \X Users
  /\ s.op = "evaluate" => s.on \in Goals \X GoalStates
  /\ s.op = "move" => s.on \in States

Steps == {s \in [op : Ops, on : Args] : Typed(s)}

Joining == {"rules", "before", "join"}

(* The statements that other statements put in front of the rest.           *)
Inner == {s \in Steps : s.op \in {"join", "look", "insert", "evaluate", "grant"}}

(* The plan of an open transaction: it ends in its only commit, a move that *)
(* is not the first one closes the challenge, and the members are read      *)
(* after the last one joined.                                               *)
Good(p) ==
  /\ p \in Seq(Steps) /\ p # <<>>
  /\ \A i \in 1..Len(p) : p[i].op \notin Verbs
  /\ \A i \in 1..Len(p) : p[i].op = "commit" <=> i = Len(p)
  /\ \A i, j \in 1..Len(p) :
       i < j /\ p[i].op = "move" /\ p[j].op = "move" => p[j].on = "done"
  /\ \A i \in 1..Len(p) :
       p[i].op \in Joining => \E j \in (i + 1)..Len(p) : p[j].op = "members"

(* The elements of s \o Tail(p).                                            *)
LEMMA Instead1 ==
  ASSUME NEW S, NEW s \in Seq(S), NEW p \in Seq(S), p # <<>>
  PROVE  LET q == s \o Tail(p) IN
         /\ q \in Seq(S) /\ Len(q) = Len(s) + Len(p) - 1
         /\ \A i \in 1..Len(s) : i \in 1..Len(q) /\ q[i] = s[i]
         /\ \A k \in 2..Len(p) : Len(s) + k - 1 \in 1..Len(q) /\ q[Len(s) + k - 1] = p[k]
         /\ \A i \in 1..Len(q) : \/ i \in 1..Len(s)
                                 \/ i - Len(s) + 1 \in 2..Len(p) /\ q[i] = p[i - Len(s) + 1]
<1>1. Len(p) \in Nat \ {0} /\ Len(s) \in Nat
  BY EmptySeq, LenProperties
<1>2. Tail(p) \in Seq(S) /\ Len(Tail(p)) = Len(p) - 1
      /\ \A i \in 1..Len(Tail(p)) : Tail(p)[i] = p[i + 1]
  BY <1>1
<1>q. QED
  BY <1>1, <1>2

LEMMA GoodStep ==
  ASSUME NEW p, Good(p), p[1].op # "commit", NEW s \in Seq(Inner),
         (\E i \in 1..Len(s) : s[i].op = "join") => p[1].op \in Joining
  PROVE  Good(s \o Tail(p))
<1> DEFINE q == s \o Tail(p)
<1>1. Inner \subseteq Steps /\ s \in Seq(Steps) /\ p \in Seq(Steps) /\ p # <<>>
  BY SeqMonotonic DEF Good, Inner
<1>2. /\ Len(p) \in Nat \ {0} /\ Len(s) \in Nat
      /\ \A i \in 1..Len(s) : s[i] \in Inner
      /\ \A i \in 1..Len(s) : s[i].op \in {"join", "look", "insert", "evaluate", "grant"}
  BY <1>1, EmptySeq, LenProperties, ElementOfSeq DEF Inner
<1>3. /\ q \in Seq(Steps) /\ Len(q) = Len(s) + Len(p) - 1
      /\ \A i \in 1..Len(s) : i \in 1..Len(q) /\ q[i] = s[i]
      /\ \A k \in 2..Len(p) : Len(s) + k - 1 \in 1..Len(q) /\ q[Len(s) + k - 1] = p[k]
      /\ \A i \in 1..Len(q) : \/ i \in 1..Len(s)
                              \/ i - Len(s) + 1 \in 2..Len(p) /\ q[i] = p[i - Len(s) + 1]
  BY <1>1, Instead1
<1> HIDE DEF q
<1>4. Len(p) > 1
  BY <1>2 DEF Good
<1>5. q # <<>>
  BY <1>3, <1>4, <1>2, EmptySeq
<1>6. \A i \in 1..Len(q) : q[i].op \notin Verbs
  <2> SUFFICES ASSUME NEW i \in 1..Len(q) PROVE q[i].op \notin Verbs
    OBVIOUS
  <2>1. CASE i \in 1..Len(s)
    BY <2>1, <1>2, <1>3 DEF Verbs
  <2>2. CASE i - Len(s) + 1 \in 2..Len(p) /\ q[i] = p[i - Len(s) + 1]
    BY <2>2, <1>2 DEF Good
  <2>q. QED
    BY <2>1, <2>2, <1>3
<1>7. \A i \in 1..Len(q) : q[i].op = "commit" <=> i = Len(q)
  <2> SUFFICES ASSUME NEW i \in 1..Len(q) PROVE q[i].op = "commit" <=> i = Len(q)
    OBVIOUS
  <2>1. CASE i \in 1..Len(s)
    <3>1. q[i].op # "commit"
      BY <2>1, <1>2, <1>3
    <3>2. i # Len(q)
      BY <2>1, <1>2, <1>3, <1>4
    <3>q. QED
      BY <3>1, <3>2
  <2>2. CASE i - Len(s) + 1 \in 2..Len(p) /\ q[i] = p[i - Len(s) + 1]
    <3>1. i - Len(s) + 1 = Len(p) <=> i = Len(q)
      BY <1>2, <1>3
    <3>2. p[i - Len(s) + 1].op = "commit" <=> i - Len(s) + 1 = Len(p)
      BY <2>2, <1>2 DEF Good
    <3>q. QED
      BY <2>2, <3>1, <3>2
  <2>q. QED
    BY <2>1, <2>2, <1>3
<1>8. \A i, j \in 1..Len(q) :
        i < j /\ q[i].op = "move" /\ q[j].op = "move" => q[j].on = "done"
  <2> SUFFICES ASSUME NEW i \in 1..Len(q), NEW j \in 1..Len(q), i < j,
                      q[i].op = "move", q[j].op = "move"
               PROVE  q[j].on = "done"
    OBVIOUS
  <2>1. i \notin 1..Len(s) /\ j \notin 1..Len(s)
    BY <1>2, <1>3
  <2>2. /\ i - Len(s) + 1 \in 1..Len(p) /\ q[i] = p[i - Len(s) + 1]
        /\ j - Len(s) + 1 \in 1..Len(p) /\ q[j] = p[j - Len(s) + 1]
        /\ i - Len(s) + 1 < j - Len(s) + 1
    BY <2>1, <1>2, <1>3
  <2>q. QED
    BY <2>2 DEF Good
<1>9. \A i \in 1..Len(q) :
        q[i].op \in Joining => \E j \in (i + 1)..Len(q) : q[j].op = "members"
  <2> SUFFICES ASSUME NEW i \in 1..Len(q), q[i].op \in Joining
               PROVE  \E j \in (i + 1)..Len(q) : q[j].op = "members"
    OBVIOUS
  <2>1. CASE i \in 1..Len(s)
    <3>1. q[i].op = "join" /\ s[i].op = "join"
      BY <2>1, <1>2, <1>3 DEF Inner, Joining
    <3>2. PICK k \in 2..Len(p) : p[k].op = "members"
      BY <3>1, <2>1, <1>2 DEF Good
    <3>3. Len(s) + k - 1 \in (i + 1)..Len(q) /\ q[Len(s) + k - 1] = p[k]
      BY <2>1, <1>2, <1>3
    <3>q. QED
      BY <3>2, <3>3
  <2>2. CASE i \notin 1..Len(s)
    <3>1. i - Len(s) + 1 \in 2..Len(p) /\ q[i] = p[i - Len(s) + 1]
      BY <2>2, <1>3
    <3>2. PICK k \in (i - Len(s) + 2)..Len(p) : p[k].op = "members"
      BY <3>1, <1>2 DEF Good
    <3>3. k \in 2..Len(p) /\ Len(s) + k - 1 \in (i + 1)..Len(q)
      BY <3>1, <3>2, <1>2, <1>3
    <3>4. q[Len(s) + k - 1] = p[k]
      BY <3>3, <1>3
    <3>q. QED
      BY <3>2, <3>3, <3>4
  <2>q. QED
    BY <2>1, <2>2
<1>q. QED
  BY <1>3, <1>5, <1>6, <1>7, <1>8, <1>9 DEF Good, q

(* The moves of p only close the challenge, and it evaluates no goal.       *)
Closing(p) == \A i \in 1..Len(p) : p[i].op = "move" => p[i].on = "done"

(* What may be put in front of a plan: statements that settle the members   *)
(* among themselves, with a first move of their own at most.                *)
Prefix(s) ==
  /\ s \in Seq(Steps)
  /\ \A i \in 1..Len(s) : s[i].op \notin Verbs \cup {"commit", "evaluate"}
  /\ \A i, j \in 1..Len(s) : i < j => s[i].op # "move" \/ s[j].op # "move"
  /\ \A i \in 1..Len(s) :
       s[i].op \in Joining => \E j \in (i + 1)..Len(s) : s[j].op = "members"

Calm(p) == \A i \in 1..Len(p) : p[i].op # "evaluate"

Still(s) == \A i \in 1..Len(s) : s[i].op # "move"

LEMMA GoodPrefix ==
  ASSUME NEW p, Good(p), NEW s, Prefix(s), Still(s) \/ Closing(p)
  PROVE  /\ Good(s \o p)
         /\ Closing(s) /\ Closing(p) => Closing(s \o p)
         /\ Calm(p) => Calm(s \o p)
<1> DEFINE q == s \o p
<1>1. s \in Seq(Steps) /\ p \in Seq(Steps) /\ p # <<>>
  BY DEF Good, Prefix
<1>2. /\ Len(p) \in Nat \ {0} /\ Len(s) \in Nat
  BY <1>1, EmptySeq, LenProperties
<1>3. /\ q \in Seq(Steps) /\ Len(q) = Len(s) + Len(p)
      /\ \A i \in 1..Len(q) : q[i] = IF i <= Len(s) THEN s[i] ELSE p[i - Len(s)]
  BY <1>1, ConcatProperties
<1> HIDE DEF q
<1>4. \A i \in 1..Len(q) : \/ i \in 1..Len(s) /\ q[i] = s[i]
                           \/ i > Len(s) /\ i - Len(s) \in 1..Len(p) /\ q[i] = p[i - Len(s)]
  BY <1>2, <1>3
<1>5. q # <<>>
  BY <1>3, <1>2, EmptySeq
<1>6. \A i \in 1..Len(q) : q[i].op \notin Verbs
  BY <1>4 DEF Good, Prefix
<1>7. \A i \in 1..Len(q) : q[i].op = "commit" <=> i = Len(q)
  <2> SUFFICES ASSUME NEW i \in 1..Len(q) PROVE q[i].op = "commit" <=> i = Len(q)
    OBVIOUS
  <2>1. CASE i \in 1..Len(s) /\ q[i] = s[i]
    <3>1. q[i].op # "commit"
      BY <2>1 DEF Prefix
    <3>2. i # Len(q)
      BY <2>1, <1>2, <1>3
    <3>q. QED
      BY <3>1, <3>2
  <2>2. CASE i > Len(s) /\ i - Len(s) \in 1..Len(p) /\ q[i] = p[i - Len(s)]
    <3>1. i - Len(s) = Len(p) <=> i = Len(q)
      BY <1>2, <1>3
    <3>2. p[i - Len(s)].op = "commit" <=> i - Len(s) = Len(p)
      BY <2>2 DEF Good
    <3>q. QED
      BY <2>2, <3>1, <3>2
  <2>q. QED
    BY <2>1, <2>2, <1>4
<1>8. \A i, j \in 1..Len(q) :
        i < j /\ q[i].op = "move" /\ q[j].op = "move" => q[j].on = "done"
  <2> SUFFICES ASSUME NEW i \in 1..Len(q), NEW j \in 1..Len(q), i < j,
                      q[i].op = "move", q[j].op = "move"
               PROVE  q[j].on = "done"
    OBVIOUS
  <2>1. CASE j \in 1..Len(s) /\ q[j] = s[j]
    <3>1. i \in 1..Len(s) /\ q[i] = s[i]
      BY <2>1, <1>2, <1>4
    <3>q. QED
      BY <2>1, <3>1 DEF Prefix
  <2>2. CASE j > Len(s) /\ j - Len(s) \in 1..Len(p) /\ q[j] = p[j - Len(s)]
    <3>1. CASE i \in 1..Len(s) /\ q[i] = s[i]
      BY <2>2, <3>1 DEF Still, Closing
    <3>2. CASE i > Len(s) /\ i - Len(s) \in 1..Len(p) /\ q[i] = p[i - Len(s)]
      <4>1. i - Len(s) < j - Len(s)
        BY <1>2
      <4>q. QED
        BY <2>2, <3>2, <4>1 DEF Good
    <3>q. QED
      BY <3>1, <3>2, <1>4
  <2>q. QED
    BY <2>1, <2>2, <1>4
<1>9. \A i \in 1..Len(q) :
        q[i].op \in Joining => \E j \in (i + 1)..Len(q) : q[j].op = "members"
  <2> SUFFICES ASSUME NEW i \in 1..Len(q), q[i].op \in Joining
               PROVE  \E j \in (i + 1)..Len(q) : q[j].op = "members"
    OBVIOUS
  <2>1. CASE i \in 1..Len(s) /\ q[i] = s[i]
    <3>1. PICK j \in (i + 1)..Len(s) : s[j].op = "members"
      BY <2>1 DEF Prefix
    <3>2. j \in (i + 1)..Len(q) /\ q[j] = s[j]
      BY <3>1, <1>2, <1>3
    <3>q. QED
      BY <3>1, <3>2
  <2>2. CASE i > Len(s) /\ i - Len(s) \in 1..Len(p) /\ q[i] = p[i - Len(s)]
    <3>1. PICK k \in (i - Len(s) + 1)..Len(p) : p[k].op = "members"
      BY <2>2 DEF Good
    <3>2. k + Len(s) \in (i + 1)..Len(q) /\ k + Len(s) > Len(s) /\ k + Len(s) - Len(s) = k
      BY <2>2, <3>1, <1>2, <1>3
    <3>3. q[k + Len(s)] = p[k]
      BY <3>2, <1>2, <1>3
    <3>q. QED
      BY <3>1, <3>2, <3>3
  <2>q. QED
    BY <2>1, <2>2, <1>4
<1>10. Closing(s) /\ Closing(p) => Closing(q)
  BY <1>4 DEF Closing
<1>11. Calm(p) => Calm(q)
  BY <1>4 DEF Calm, Prefix
<1>q. QED
  BY <1>3, <1>5, <1>6, <1>7, <1>8, <1>9, <1>10, <1>11 DEF Good, q

LEMMA FinishIsGood ==
  ASSUME NEW due
  PROVE  Good(Finish(due)) /\ Closing(Finish(due)) /\ Calm(Finish(due))
<1> DEFINE p == Finish(due)
<1>1. CASE due
  <2>1. p = <<Do("stamp"), Do("commit")>>
    BY <1>1 DEF Finish
  <2>2. p \in Seq(Steps) /\ Len(p) = 2 /\ p[1].op = "stamp" /\ p[2].op = "commit"
    BY <2>1 DEF Steps, Typed, Do, Ops, Args, Verbs
  <2> HIDE DEF p
  <2>3. p # <<>>
    BY <2>2, EmptySeq
  <2>4. Good(p) /\ Closing(p) /\ Calm(p)
    BY <2>2, <2>3 DEF Good, Closing, Calm, Verbs, Joining
  <2>q. QED
    BY <2>4 DEF p
<1>2. CASE ~due
  <2>1. p = <<Do("commit")>>
    BY <1>2 DEF Finish
  <2>2. p \in Seq(Steps) /\ Len(p) = 1 /\ p[1].op = "commit"
    BY <2>1 DEF Steps, Typed, Do, Ops, Args, Verbs
  <2> HIDE DEF p
  <2>3. p # <<>>
    BY <2>2, EmptySeq
  <2>4. Good(p) /\ Closing(p) /\ Calm(p)
    BY <2>2, <2>3 DEF Good, Closing, Calm, Verbs, Joining
  <2>q. QED
    BY <2>4 DEF p
<1>q. QED
  BY <1>1, <1>2

LEMMA FillIsPrefix == Prefix(Fill) /\ Still(Fill)
<1>1. Fill \in Seq(Steps)
  BY DEF Fill, Steps, Typed, Do, Ops, Args, Verbs
<1>2. /\ Len(Fill) = 5
      /\ Fill[1].op = "rules" /\ Fill[2].op = "before" /\ Fill[3].op = "retire"
      /\ Fill[4].op = "sweep" /\ Fill[5].op = "members"
  BY DEF Fill, Do
<1>q. QED
  BY <1>1, <1>2 DEF Prefix, Still, Verbs, Joining

LEMMA MoveIsPrefix ==
  ASSUME NEW x \in States
  PROVE  Prefix(<<On("move", x)>>) /\ (x = "done" => Closing(<<On("move", x)>>))
<1> DEFINE p == <<On("move", x)>>
<1>1. p \in Seq(Steps) /\ Len(p) = 1 /\ p[1].op = "move" /\ p[1].on = x
  BY DEF Steps, Typed, On, Ops, Args, Verbs, States
<1>q. QED
  BY <1>1 DEF Prefix, Closing, Verbs, Joining

LEMMA Regroup ==
  ASSUME NEW s \in Seq(Steps), NEW t \in Seq(Steps), NEW u \in Seq(Steps)
  PROVE  (s \o t) \o u = s \o (t \o u) /\ s \o t \in Seq(Steps)
<1> DEFINE l == (s \o t) \o u
           r == s \o (t \o u)
<1>1. /\ s \o t \in Seq(Steps) /\ t \o u \in Seq(Steps)
      /\ Len(s) \in Nat /\ Len(t) \in Nat /\ Len(u) \in Nat
      /\ Len(s \o t) = Len(s) + Len(t) /\ Len(t \o u) = Len(t) + Len(u)
      /\ \A i \in 1..(Len(s) + Len(t)) : (s \o t)[i] = IF i <= Len(s) THEN s[i] ELSE t[i - Len(s)]
      /\ \A i \in 1..(Len(t) + Len(u)) : (t \o u)[i] = IF i <= Len(t) THEN t[i] ELSE u[i - Len(t)]
  BY ConcatProperties, LenProperties
<1>2. /\ l \in Seq(Steps) /\ Len(l) = Len(s) + Len(t) + Len(u)
      /\ \A i \in 1..Len(l) : l[i] = IF i <= Len(s) + Len(t) THEN (s \o t)[i]
                                    ELSE u[i - (Len(s) + Len(t))]
  BY <1>1, ConcatProperties
<1>3. /\ r \in Seq(Steps) /\ Len(r) = Len(s) + Len(t) + Len(u)
      /\ \A i \in 1..Len(r) : r[i] = IF i <= Len(s) THEN s[i] ELSE (t \o u)[i - Len(s)]
  BY <1>1, ConcatProperties
<1> HIDE DEF l, r
<1>4. ASSUME NEW i \in 1..Len(l) PROVE l[i] = r[i]
  <2>1. CASE i <= Len(s)
    BY <2>1, <1>1, <1>2, <1>3
  <2>2. CASE i > Len(s) /\ i <= Len(s) + Len(t)
    <3>1. i - Len(s) \in 1..(Len(t) + Len(u)) /\ i - Len(s) <= Len(t)
      BY <2>2, <1>1, <1>2
    <3>2. r[i] = t[i - Len(s)] /\ l[i] = t[i - Len(s)]
      BY <2>2, <3>1, <1>1, <1>2, <1>3
    <3>q. QED
      BY <3>2
  <2>3. CASE i > Len(s) + Len(t)
    <3>1. /\ i - Len(s) \in 1..(Len(t) + Len(u)) /\ i - Len(s) > Len(t)
          /\ i - Len(s) - Len(t) = i - (Len(s) + Len(t))
      BY <2>3, <1>1, <1>2
    <3>2. r[i] = u[i - (Len(s) + Len(t))] /\ l[i] = u[i - (Len(s) + Len(t))]
      BY <2>3, <3>1, <1>1, <1>2, <1>3
    <3>q. QED
      BY <3>2
  <2>q. QED
    BY <2>1, <2>2, <2>3, <1>1, <1>2
<1>5. l = r
  BY <1>2, <1>3, <1>4, SeqEqual
<1>q. QED
  BY <1>1, <1>5 DEF l, r

(* The plans of the four verbs are good ones.                               *)
LEMMA StartIsGood ==
  ASSUME NEW d
  PROVE  Good(StartPlan(d)) /\ Calm(StartPlan(d))
<1> DEFINE M == <<On("move", "inprogress")>>
           Z == Finish(NextReport[d] # None)
<1>1. Good(Z) /\ Closing(Z) /\ Calm(Z)
  BY FinishIsGood
<1>2. Prefix(M) /\ Prefix(Fill) /\ Still(Fill)
  BY MoveIsPrefix, FillIsPrefix DEF States
<1>3. StartPlan(d) = (Fill \o M) \o Z
  BY DEF StartPlan
<1> HIDE DEF M, Z
<1>4. Good(M \o Z) /\ Calm(M \o Z)
  BY <1>1, <1>2, GoodPrefix
<1>5. Good(Fill \o (M \o Z)) /\ Calm(Fill \o (M \o Z))
  BY <1>2, <1>4, GoodPrefix
<1>6. (Fill \o M) \o Z = Fill \o (M \o Z)
  BY <1>1, <1>2, Regroup DEF Prefix, Good
<1>q. QED
  BY <1>3, <1>5, <1>6

LEMMA CloseIsGood == Good(ClosePlan) /\ Calm(ClosePlan)
<1> DEFINE p == ClosePlan
<1>1. p \in Seq(Steps)
  BY DEF ClosePlan, Steps, Typed, Do, On, Ops, Args, States, Verbs
<1>2. Len(p) = 4 /\ p[1].op = "fail" /\ p[2].op = "podium" /\ p[3].op = "move" /\ p[4].op = "commit"
  BY DEF ClosePlan, Do, On
<1>3. p # <<>>
  BY <1>2
<1> HIDE DEF p
<1>4. Good(p) /\ Calm(p)
  BY <1>1, <1>2, <1>3 DEF Good, Calm, Verbs, Joining
<1>q. QED
  BY <1>4 DEF p

LEMMA ResetIsGood == Good(ResetPlan) /\ Calm(ResetPlan)
<1> DEFINE p == ResetPlan
<1>1. p \in Seq(Steps)
  BY DEF ResetPlan, Steps, Typed, Do, On, Ops, Args, States, Verbs
<1>2. Len(p) = 3 /\ p[1].op = "check" /\ p[2].op = "move" /\ p[3].op = "commit"
  BY DEF ResetPlan, Do, On
<1>3. p # <<>>
  BY <1>2
<1> HIDE DEF p
<1>4. Good(p) /\ Calm(p)
  BY <1>1, <1>2, <1>3 DEF Good, Calm, Verbs, Joining
<1>q. QED
  BY <1>4 DEF p

LEMMA DailyIsGood ==
  ASSUME NEW x, NEW n, NEW d
  PROVE  Good(DailyPlan(x, n, d)) /\ Calm(DailyPlan(x, n, d))
<1> DEFINE A == StartEdge(x)
           W == <<Do("fail"), Do("podium"), Do("realtime"), On("move", "done")>>
           G == <<Do("goals"), Do("realtime")>>
           B == IF x = "done" THEN <<>> ELSE CloseOrSweep(d)
           Z == Finish(ReportDue(n, d))
           M == <<On("move", "inprogress")>>
<1>1. Prefix(W) /\ Closing(W)
  <2>1. W \in Seq(Steps)
    BY DEF Steps, Typed, Do, On, Ops, Args, States, Verbs
  <2>2. /\ Len(W) = 4 /\ W[1].op = "fail" /\ W[2].op = "podium" /\ W[3].op = "realtime"
        /\ W[4].op = "move" /\ W[4].on = "done"
    BY DEF Do, On
  <2> HIDE DEF W
  <2>q. QED
    BY <2>1, <2>2 DEF Prefix, Closing, Verbs, Joining
<1>2. Prefix(G) /\ Still(G) /\ Closing(G)
  <2>1. G \in Seq(Steps)
    BY DEF Steps, Typed, Do, On, Ops, Args, States, Verbs
  <2>2. Len(G) = 2 /\ G[1].op = "goals" /\ G[2].op = "realtime"
    BY DEF Do, On
  <2> HIDE DEF G
  <2>q. QED
    BY <2>1, <2>2 DEF Prefix, Still, Closing, Verbs, Joining
<1>3. Prefix(M)
  BY MoveIsPrefix DEF States
<1>4. Prefix(Fill) /\ Still(Fill) /\ Closing(Fill)
  BY FillIsPrefix DEF Still, Closing
<1>5. Good(Z) /\ Closing(Z) /\ Calm(Z)
  BY FinishIsGood
<1>6. W \in Seq(Steps) /\ G \in Seq(Steps) /\ Fill \in Seq(Steps) /\ M \in Seq(Steps) /\ Z \in Seq(Steps)
  BY <1>1, <1>2, <1>3, <1>4, <1>5 DEF Prefix, Good
<1> HIDE DEF W, G, M, Z
<1>7. /\ Good(B \o Z) /\ Closing(B \o Z) /\ Calm(B \o Z) /\ B \in Seq(Steps)
  <2>0. CASE x = "done"
    <3>1. B = <<>> /\ B \in Seq(Steps)
      BY <2>0
    <3>2. B \o Z = Z
      BY <3>1, <1>6, ConcatEmptySeq
    <3>q. QED
      BY <3>1, <3>2, <1>5
  <2>1. CASE x # "done" /\ Over(d)
    <3>1. B = W
      BY <2>1 DEF CloseOrSweep, W
    <3>q. QED
      BY <3>1, <1>1, <1>5, <1>6, GoodPrefix
  <2>2. CASE x # "done" /\ ~Over(d)
    <3>1. B = Fill \o G
      BY <2>2 DEF CloseOrSweep, G
    <3>2. Good(G \o Z) /\ Closing(G \o Z) /\ Calm(G \o Z)
      BY <1>2, <1>5, GoodPrefix
    <3>3. Good(Fill \o (G \o Z)) /\ Closing(Fill \o (G \o Z)) /\ Calm(Fill \o (G \o Z))
      BY <1>4, <3>2, GoodPrefix
    <3>4. (Fill \o G) \o Z = Fill \o (G \o Z) /\ Fill \o G \in Seq(Steps)
      BY <1>6, Regroup
    <3>q. QED
      BY <3>1, <3>3, <3>4
  <2>q. QED
    BY <2>0, <2>1, <2>2
<1> HIDE DEF B
<1> DEFINE N == B \o Z
<1>n. Good(N) /\ Closing(N) /\ Calm(N) /\ N \in Seq(Steps)
  BY <1>6, <1>7, ConcatProperties
<1> HIDE DEF N
<1>8. Good(A \o N) /\ Calm(A \o N) /\ A \in Seq(Steps)
  <2>1. CASE x = "draft"
    <3>1. A = Fill \o M
      BY <2>1 DEF M, StartEdge
    <3>2. Good(M \o N) /\ Calm(M \o N)
      BY <1>3, <1>n, GoodPrefix
    <3>3. Good(Fill \o (M \o N)) /\ Calm(Fill \o (M \o N))
      BY <1>4, <3>2, GoodPrefix
    <3>4. (Fill \o M) \o N = Fill \o (M \o N) /\ Fill \o M \in Seq(Steps)
      <4>1. Fill \in Seq(Steps) /\ M \in Seq(Steps) /\ N \in Seq(Steps)
        BY <1>6, <1>n
      <4> HIDE DEF A
      <4>q. QED
        BY <4>1, Regroup
    <3> HIDE DEF A
    <3>q. QED
      BY <3>1, <3>3, <3>4
  <2>2. CASE x # "draft"
    <3>1. A = <<>> /\ A \in Seq(Steps)
      BY <2>2 DEF StartEdge
    <3>2. A \o N = N
      BY <3>1, <1>n, ConcatEmptySeq
    <3>q. QED
      BY <3>1, <3>2, <1>n
  <2>q. QED
    BY <2>1, <2>2
<1> HIDE DEF A
<1>9. (A \o B) \o Z = A \o (B \o Z)
  <2>1. A \in Seq(Steps) /\ B \in Seq(Steps) /\ Z \in Seq(Steps)
    BY <1>6, <1>7, <1>8
  <2>q. QED
    BY <2>1, Regroup
<1>10. DailyPlan(x, n, d) = (A \o B) \o Z
  BY DEF DailyPlan, A, B, Z
<1>q. QED
  BY <1>8, <1>9, <1>10 DEF N

-----------------------------------------------------------------------------
(* Types.                                                                   *)

Rows(V) == [now : V, new : V, by : Calls \cup {None}]

(* An uncommitted version belongs to an open transaction.                   *)
Held(v) == (v.by = None => v.new = v.now) /\ (v.by # None => Good(plan[v.by]))

Plans ==
  /\ plan \in [Calls -> Seq(Steps)]
  /\ \A c \in Calls : plan[c] \in {<<>>, <<Do(c.verb)>>} \/ Good(plan[c])

(* A goal that a call has still to evaluate is one that it sees.            *)
Evaluable ==
  \A c \in Calls : \A i \in 1..Len(plan[c]) :
    plan[c][i].op = "evaluate" => Sees(goal[plan[c][i].on[1]], c) # None

Tables ==
  /\ challenge \in Rows(States)
  /\ report \in Rows(Nat \cup {None})
  /\ member \in [Users -> Rows(BOOLEAN)]
  /\ goal \in [Goals -> Rows(GoalRow \cup {None})]
  /\ \A g \in Goals : goal[g].now # None => goal[g].new # None
  /\ grant \in [Badges \X Users -> Rows(BOOLEAN)]

Holders ==
  /\ Held(challenge)
  /\ Held(report)
  /\ \A u \in Users : Held(member[u])
  /\ \A g \in Goals : Held(goal[g])
  /\ \A k \in Badges \X Users : Held(grant[k])
  /\ share \in SUBSET {c \in Calls : Good(plan[c])}

Others ==
  /\ day \in 0..MaxDay
  /\ rules \in RuleSets
  /\ today \in [Calls -> 0..MaxDay]
  /\ target \in [Calls -> SUBSET Users]
  /\ before \in [Calls -> SUBSET Users]
  /\ closings \in Nat

(* A goal is committed by the call that inserts it, which then is over;     *)
(* until then nobody else writes it.                                        *)
Fresh ==
  \A g \in Goals :
    /\ goal[g].now # None => Ended(g[1])
    /\ goal[g].by \notin {None, g[1]} => goal[g].now # None

Types == Plans /\ Evaluable /\ Tables /\ Holders /\ Fresh /\ Others

LEMMA RowPut ==
  ASSUME NEW V, NEW v \in Rows(V), NEW c \in Calls, NEW x \in V
  PROVE  /\ Put(v, c, x) \in Rows(V)
         /\ Put(v, c, x).now = v.now /\ Put(v, c, x).new = x /\ Put(v, c, x).by = c
  BY DEF Rows, Put

LEMMA FlagPut ==
  ASSUME NEW v \in Rows(BOOLEAN), NEW c \in Calls, NEW x \in BOOLEAN
  PROVE  /\ Put(v, c, x) \in Rows(BOOLEAN)
         /\ Put(v, c, x).now = v.now /\ Put(v, c, x).new = x /\ Put(v, c, x).by = c
  BY DEF Rows, Put

LEMMA RowSettled ==
  ASSUME NEW V, NEW v \in Rows(V), NEW c \in Calls, NEW keep \in BOOLEAN
  PROVE  /\ Settled(v, c, keep) \in Rows(V)
         /\ v.by # c => Settled(v, c, keep) = v
         /\ v.by = c => /\ Settled(v, c, keep).by = None
                        /\ Settled(v, c, keep).new = Settled(v, c, keep).now
                        /\ Settled(v, c, keep).now = IF keep THEN v.new ELSE v.now
  BY DEF Rows, Settled, Kept, Undone, Stored

LEMMA RowSees ==
  ASSUME NEW V, NEW v \in Rows(V), NEW c \in Calls
  PROVE  Sees(v, c) \in V
  BY DEF Rows, Sees

(* A call whose first statement is not a verb is an open transaction.       *)
LEMMA Running ==
  ASSUME Plans, NEW c \in Calls, NEW op, At(c, op), op \notin Verbs
  PROVE  Good(plan[c]) /\ plan[c][1].op = op /\ Arg(c) = plan[c][1].on
<1>1. plan[c] \in Seq(Steps) /\ plan[c] # <<>> /\ Head(plan[c]) = plan[c][1]
  BY DEF Plans, At
<1>2. c.verb \in Verbs
  BY ChallengeAssumption
<1>3. plan[c] # <<Do(c.verb)>>
  BY <1>1, <1>2 DEF At, Do
<1>q. QED
  BY <1>1, <1>3 DEF Plans, At, Arg

LEMMA Waiting ==
  ASSUME Plans, NEW c \in Calls, NEW op \in Verbs, At(c, op)
  PROVE  ~Good(plan[c])
<1>1. plan[c] \in Seq(Steps) /\ plan[c] # <<>> /\ Head(plan[c]) = plan[c][1]
  BY DEF Plans, At
<1>2. 1 \in 1..Len(plan[c])
  BY <1>1, EmptySeq
<1>q. QED
  BY <1>1, <1>2 DEF At, Good

(* Call c has run its first statement, which put s in front of the rest.    *)
Stepped(c, s) ==
  /\ Good(plan[c])
  /\ Plans'
  /\ \A d \in Calls : Good(plan[d]) => Good(plan'[d])
  /\ \A d \in Calls \ {c} : plan'[d] = plan[d]
  /\ \A i \in 1..Len(s) : i \in 1..Len(plan'[c]) /\ plan'[c][i] = s[i]
  /\ \A k \in 2..Len(plan[c]) : \E i \in 1..Len(plan'[c]) : plan'[c][i] = plan[c][k]
  /\ \A i \in 1..Len(plan'[c]) :
       \/ i \in 1..Len(s) /\ plan'[c][i] = s[i]
       \/ \E k \in 2..Len(plan[c]) : plan'[c][i] = plan[c][k]

LEMMA StepOfPlan ==
  ASSUME Plans, NEW c \in Calls, NEW op, At(c, op), op \notin Verbs, op # "commit",
         NEW s \in Seq(Inner), Instead(c, s),
         (\E i \in 1..Len(s) : s[i].op = "join") => op \in Joining
  PROVE  Stepped(c, s)
<1>1. Good(plan[c]) /\ plan[c][1].op = op
  BY Running
<1>2. plan \in [Calls -> Seq(Steps)] /\ plan[c] # <<>> /\ plan[c] \in Seq(Steps)
  BY <1>1 DEF Plans, Good
<1>3. plan' = [plan EXCEPT ![c] = s \o Tail(plan[c])]
  BY DEF Instead
<1>4. plan'[c] = s \o Tail(plan[c]) /\ \A d \in Calls \ {c} : plan'[d] = plan[d]
  BY <1>2, <1>3
<1>5. Good(plan'[c])
  BY <1>1, <1>4, GoodStep
<1>6. plan'[c] \in Seq(Steps)
  BY <1>5 DEF Good
<1>7. Plans'
  <2>1. plan' \in [Calls -> Seq(Steps)]
    BY <1>2, <1>3, <1>4, <1>6
  <2>q. QED
    BY <2>1, <1>4, <1>5 DEF Plans
<1>8. s \in Seq(Steps) /\ Len(s) \in Nat /\ Len(plan[c]) \in Nat
  BY <1>2, SeqMonotonic, LenProperties DEF Inner
<1>9. LET q == s \o Tail(plan[c]) IN
      /\ \A i \in 1..Len(s) : i \in 1..Len(q) /\ q[i] = s[i]
      /\ \A k \in 2..Len(plan[c]) : Len(s) + k - 1 \in 1..Len(q) /\ q[Len(s) + k - 1] = plan[c][k]
      /\ \A i \in 1..Len(q) :
           \/ i \in 1..Len(s)
           \/ i - Len(s) + 1 \in 2..Len(plan[c]) /\ q[i] = plan[c][i - Len(s) + 1]
  BY <1>2, <1>8, Instead1
<1>q. QED
  BY <1>1, <1>4, <1>5, <1>7, <1>9 DEF Stepped

(* The goal rows that a statement of c leaves behind.                       *)
GoalWrites(c) ==
  \A g \in Goals :
    \/ goal'[g] = goal[g]
    \/ /\ Free(goal[g], c) /\ goal'[g].by = c
       /\ goal'[g].new # None /\ goal'[g].now = goal[g].now
       /\ g[1] = c \/ Sees(goal[g], c) # None

LEMMA SeenStaysSeen ==
  ASSUME Tables, NEW c \in Calls, GoalWrites(c), NEW d \in Calls, NEW g \in Goals,
         Sees(goal[g], d) # None
  PROVE  Sees(goal'[g], d) # None
<1>1. None # c /\ None # d
  BY ChallengeAssumption
<1>2. CASE goal'[g] = goal[g]
  BY <1>2
<1>3. CASE /\ Free(goal[g], c) /\ goal'[g].by = c
           /\ goal'[g].new # None /\ goal'[g].now = goal[g].now
  <2>1. CASE d = c
    BY <1>3, <2>1 DEF Sees
  <2>2. CASE d # c
    BY <1>1, <1>3, <2>2 DEF Sees, Free
  <2>q. QED
    BY <2>1, <2>2
<1>q. QED
  BY <1>2, <1>3 DEF GoalWrites

(* A statement keeps the types when it keeps those of the tables, writes    *)
(* rows in its own name and plans to evaluate goals that it sees.           *)
LEMMA StatementTypes ==
  ASSUME Types, NEW c \in Calls, NEW s \in Seq(Inner), Stepped(c, s), Tables', Others',
         challenge' = challenge \/ challenge'.by = c,
         report' = report \/ report'.by = c,
         \A u \in Users : member'[u] = member[u] \/ member'[u].by = c,
         GoalWrites(c),
         \A k \in Badges \X Users : grant'[k] = grant[k] \/ grant'[k].by = c,
         share' \subseteq share \cup {c},
         \A i \in 1..Len(s) : s[i].op = "evaluate" => Sees(goal[s[i].on[1]], c) # None
  PROVE  Types'
<1>1. None # c
  BY ChallengeAssumption
<1>2. Good(plan[c]) /\ Good(plan'[c]) /\ \A d \in Calls : Good(plan[d]) => Good(plan'[d])
  BY DEF Stepped
<1>3. ASSUME NEW V, NEW v \in Rows(V), NEW w, Held(v), w = v \/ w.by = c
      PROVE  (w.by = None => w.new = w.now) /\ (w.by # None => Good(plan'[w.by]))
  BY <1>1, <1>2, <1>3 DEF Held, Rows
<1>4. Held(challenge)' /\ Held(report)'
  BY <1>3 DEF Types, Tables, Holders, Held
<1>5. \A u \in Users : Held(member[u])'
  <2> SUFFICES ASSUME NEW u \in Users PROVE Held(member[u])'
    OBVIOUS
  <2>1. member[u] \in Rows(BOOLEAN) /\ Held(member[u]) /\ (member'[u] = member[u] \/ member'[u].by = c)
    BY DEF Types, Tables, Holders
  <2>q. QED
    BY <1>3, <2>1 DEF Held
<1>6. \A g \in Goals : Held(goal[g])'
  <2> SUFFICES ASSUME NEW g \in Goals PROVE Held(goal[g])'
    OBVIOUS
  <2>1. goal[g] \in Rows(GoalRow \cup {None}) /\ Held(goal[g]) /\ (goal'[g] = goal[g] \/ goal'[g].by = c)
    BY DEF Types, Tables, Holders, GoalWrites
  <2>q. QED
    BY <1>3, <2>1 DEF Held
<1>7. \A k \in Badges \X Users : Held(grant[k])'
  <2> SUFFICES ASSUME NEW k \in Badges \X Users PROVE Held(grant[k])'
    OBVIOUS
  <2>1. grant[k] \in Rows(BOOLEAN) /\ Held(grant[k]) /\ (grant'[k] = grant[k] \/ grant'[k].by = c)
    BY DEF Types, Tables, Holders
  <2>q. QED
    BY <1>3, <2>1 DEF Held
<1>8. (share \in SUBSET {d \in Calls : Good(plan[d])})'
  BY <1>2 DEF Types, Holders
<1>9. Evaluable'
  <2> SUFFICES ASSUME NEW d \in Calls, NEW i \in 1..Len(plan'[d]), plan'[d][i].op = "evaluate"
               PROVE  Sees(goal'[plan'[d][i].on[1]], d) # None
    BY DEF Evaluable
  <2> DEFINE x == plan'[d][i]
  <2>1. x \in Steps /\ x.on[1] \in Goals
    <3>1. plan'[d] \in Seq(Steps)
      BY DEF Stepped, Plans
    <3>2. x \in Steps
      BY <3>1, ElementOfSeq
    <3> HIDE DEF x
    <3>q. QED
      BY <3>2 DEF Steps, Typed, x
  <2>2. Sees(goal[x.on[1]], d) # None
    <3>1. CASE d # c
      BY <3>1 DEF Stepped, Types, Evaluable
    <3>2. CASE d = c /\ i \in 1..Len(s) /\ x = s[i]
      BY <3>2
    <3>3. CASE d = c /\ \E k \in 2..Len(plan[c]) : x = plan[c][k]
      <4>1. PICK k \in 2..Len(plan[c]) : x = plan[c][k]
        BY <3>3
      <4>2. k \in 1..Len(plan[c])
        BY <4>1
      <4>q. QED
        BY <3>3, <4>1, <4>2 DEF Types, Evaluable
    <3>q. QED
      BY <3>1, <3>2, <3>3 DEF Stepped
  <2>q. QED
    BY <2>1, <2>2, SeenStaysSeen DEF Types
<1>10. Fresh'
  <2> SUFFICES ASSUME NEW g \in Goals
               PROVE  /\ goal'[g].now # None => plan'[g[1]] = <<>>
                      /\ goal'[g].by \notin {None, g[1]} => goal'[g].now # None
    BY DEF Fresh, Ended
  <2>1. g[1] \in Calls /\ plan[c] # <<>>
    BY <1>2 DEF Goals, Good
  <2>2. goal'[g].now = goal[g].now
    BY DEF GoalWrites
  <2>3. goal'[g].now # None => plan'[g[1]] = <<>>
    BY <2>1, <2>2 DEF Stepped, Types, Fresh, Ended
  <2>4. goal'[g].by \notin {None, g[1]} => goal'[g].now # None
    BY <2>2 DEF GoalWrites, Types, Fresh, Free, Sees
  <2>q. QED
    BY <2>3, <2>4
<1>q. QED
  BY <1>4, <1>5, <1>6, <1>7, <1>8, <1>9, <1>10 DEF Types, Holders, Stepped

-----------------------------------------------------------------------------
(* What the lists that the statements read contain.                         *)

LEMMA Listing ==
  ASSUME NEW S, IsFiniteSet(S), NEW f \in SetToSeqs(S)
  PROVE  /\ Cardinality(S) \in Nat /\ f \in [1..Cardinality(S) -> S]
         /\ \A x \in S : \E i \in 1..Cardinality(S) : f[i] = x
<1> DEFINE n == Cardinality(S)
<1>1. n \in Nat
  BY FS_CardinalityType
<1>2. f \in Injection(1..n, S)
  BY DEF SetToSeqs, Injection, IsInjective
<1>3. Cardinality(1..n) = n
  BY <1>1, FS_Interval
<1>4. f \in Surjection(1..n, S)
  BY <1>2, <1>3, FS_Injection
<1>q. QED
  BY <1>1, <1>4 DEF Surjection

LEMMA GoalsAreFinite == IsFiniteSet(Goals)
<1> DEFINE P == (Calls \X Lines) \X Users
           f == [x \in P |-> <<x[1][1], x[1][2], x[2]>>]
<1>1. IsFiniteSet(P)
  BY FS_Product, ChallengeAssumption
<1>2. f \in [P -> Goals]
  BY DEF Goals
<1>3. ASSUME NEW g \in Goals PROVE \E x \in P : f[x] = g
  <2>1. PICK c \in Calls, l \in Lines, u \in Users : g = <<c, l, u>>
    BY DEF Goals
  <2>2. <<<<c, l>>, u>> \in P /\ f[<<<<c, l>>, u>>] = g
    BY <2>1
  <2>q. QED
    BY <2>2
<1>4. f \in Surjection(P, Goals)
  BY <1>2, <1>3 DEF Surjection
<1>q. QED
  BY <1>1, <1>4, FS_Surjection

(* Reading statements change no table.                                      *)
LEMMA ReadingTypes ==
  ASSUME Types, NEW c \in Calls, NEW s \in Seq(Inner), Stepped(c, s),
         UNCHANGED <<tables, share>>, Others',
         \A i \in 1..Len(s) : s[i].op = "evaluate" => Sees(goal[s[i].on[1]], c) # None
  PROVE  Types'
<1>1. /\ challenge' = challenge /\ report' = report /\ member' = member /\ goal' = goal
      /\ grant' = grant /\ share' = share
  BY DEF tables
<1>2. Tables'
  BY <1>1 DEF Types, Tables
<1>3. GoalWrites(c)
  BY <1>1 DEF GoalWrites
<1>q. QED
  BY <1>1, <1>2, <1>3, StatementTypes

-----------------------------------------------------------------------------
(* The statements, one by one.                                              *)

(* A statement of c that is about neither the challenge nor its members.    *)
Quiet(c) ==
  /\ \E s \in Seq(Inner) : Stepped(c, s)
  /\ \E op \in Ops \ {"members", "look", "insert", "move"} : plan[c][1].op = op
  /\ challenge' = challenge /\ member' = member /\ GoalWrites(c)

LEMMA EmptyIsInner ==
  /\ <<>> \in Seq(Inner) /\ Len(<<>>) = 0
  /\ \A i \in 1..Len(<<>>) : FALSE
  OBVIOUS

(* A statement that plans nothing new.                                      *)
LEMMA DoneSteps ==
  ASSUME Plans, NEW c \in Calls, NEW op, At(c, op), op \notin Verbs, op # "commit", Done(c)
  PROVE  Stepped(c, <<>>) /\ plan[c][1].op = op
<1>1. \A i \in 1..Len(<<>>) : <<>>[i].op # "join"
  BY EmptyIsInner
<1>q. QED
  BY <1>1, EmptyIsInner, StepOfPlan, Running DEF Done

(* c plans the statements s, all of the operation op.                       *)
Lays(c, s, op) ==
  /\ s \in Seq(Inner)
  /\ Instead(c, s)
  /\ \A i \in 1..Len(s) : s[i].op = op

(* A quiet statement that reads: s is what it plans.                        *)
LEMMA QuietReading ==
  ASSUME Types, NEW c \in Calls, NEW op \in Ops \ Verbs, At(c, op),
         op \notin {"members", "look", "insert", "move", "commit"},
         NEW s \in Seq(Inner), Instead(c, s),
         (\E i \in 1..Len(s) : s[i].op = "join") => op \in Joining,
         UNCHANGED <<tables, share>>, Others',
         \A i \in 1..Len(s) : s[i].op = "evaluate" => Sees(goal[s[i].on[1]], c) # None
  PROVE  Types' /\ Quiet(c)
<1>1. Stepped(c, s) /\ plan[c][1].op = op
  BY StepOfPlan, Running DEF Types
<1>2. Types'
  BY <1>1, ReadingTypes
<1>q. QED
  BY <1>1, <1>2 DEF Quiet, GoalWrites, tables

LEMMA QuietDone ==
  ASSUME Types, NEW c \in Calls, NEW op \in Ops \ Verbs, At(c, op),
         op \notin {"members", "look", "insert", "move", "commit"},
         Done(c), UNCHANGED <<tables, share>>, Others'
  PROVE  Types' /\ Quiet(c)
<1>1. Instead(c, <<>>) /\ \A i \in 1..Len(<<>>) : <<>>[i].op \notin {"join", "evaluate"}
  BY EmptyIsInner DEF Done
<1>q. QED
  BY <1>1, EmptyIsInner, QuietReading

LEMMA RulesRead ==
  ASSUME Types, NEW c \in Calls, ReadRules(c)
  PROVE  Types' /\ Quiet(c)
<1>1. Others'
  <2>1. rules \in SUBSET Users
    BY ChallengeAssumption DEF Types, Others
  <2>q. QED
    BY <2>1 DEF Types, Others, ReadRules
<1>q. QED
  BY <1>1, QuietDone DEF ReadRules, Ops, Verbs

LEMMA BeforeRead ==
  ASSUME Types, NEW c \in Calls, ReadBefore(c)
  PROVE  /\ Types' /\ Quiet(c)
         /\ \E s : Lays(c, s, "join") /\ \A i \in 1..Len(s) : s[i].on \in target[c]
<1> DEFINE T == target[c]
           n == Cardinality(T)
<1>1. Others'
  BY DEF Types, Others, ReadBefore
<1>2. PICK us \in SetToSeqs(T) : Instead(c, [i \in DOMAIN us |-> On("join", us[i])])
  BY DEF ReadBefore
<1>3. T \subseteq Users /\ IsFiniteSet(T)
  BY FS_Subset, ChallengeAssumption DEF Types, Others
<1>4. n \in Nat /\ us \in [1..n -> T]
  BY <1>3, Listing
<1>5. \A u \in T : On("join", u) \in Inner
  BY <1>3 DEF Inner, Steps, Typed, On, Ops, Args
<1> HIDE DEF T, n
<1> DEFINE s == [i \in DOMAIN us |-> On("join", us[i])]
<1>6. s = [i \in 1..n |-> On("join", us[i])]
  BY <1>4
<1>7. s \in [1..n -> Inner] /\ \A i \in 1..n : s[i].op = "join" /\ s[i].on \in T
  BY <1>4, <1>5, <1>6 DEF On
<1> HIDE DEF s
<1>8. s \in Seq(Inner) /\ Len(s) = n
  BY <1>4, <1>7
<1>9. Instead(c, s)
  BY <1>2 DEF s
<1>10. Types' /\ Quiet(c)
  BY <1>1, <1>7, <1>8, <1>9, QuietReading DEF ReadBefore, Ops, Verbs, Joining
<1>q. QED
  BY <1>7, <1>8, <1>9, <1>10 DEF Lays, T

LEMMA GoalsRead ==
  ASSUME Types, NEW c \in Calls, ReadGoals(c)
  PROVE  Types' /\ Quiet(c) /\ \E s : Lays(c, s, "evaluate")
<1> DEFINE U == {g \in GoalsSeen(c) : Sees(goal[g], c).state \in {"draft", "inprogress"}}
<1>1. Others'
  BY DEF Types, Others, ReadGoals
<1>2. PICK gs \in SetToSeqs(U) :
        Instead(c, [i \in DOMAIN gs |-> On("evaluate", <<gs[i], Sees(goal[gs[i]], c).state>>)])
  BY DEF ReadGoals
<1>3. IsFiniteSet(U)
  BY GoalsAreFinite, FS_Subset DEF GoalsSeen
<1> DEFINE n == Cardinality(U)
<1>4. n \in Nat /\ gs \in [1..n -> U]
  BY <1>2, <1>3, Listing
<1>5. ASSUME NEW g \in U
      PROVE  g \in Goals /\ Sees(goal[g], c) # None
             /\ On("evaluate", <<g, Sees(goal[g], c).state>>) \in Inner
  <2>1. g \in Goals /\ Sees(goal[g], c) # None /\ Sees(goal[g], c).state \in {"draft", "inprogress"}
    BY DEF GoalsSeen
  <2>2. <<g, Sees(goal[g], c).state>> \in Goals \X GoalStates
    BY <2>1 DEF GoalStates
  <2>q. QED
    BY <2>1, <2>2 DEF Inner, Steps, Typed, On, Ops, Args
<1> HIDE DEF U, n
<1> DEFINE s == [i \in DOMAIN gs |-> On("evaluate", <<gs[i], Sees(goal[gs[i]], c).state>>)]
<1>6. s = [i \in 1..n |-> On("evaluate", <<gs[i], Sees(goal[gs[i]], c).state>>)]
  BY <1>4
<1>7. s \in [1..n -> Inner]
  BY <1>4, <1>5, <1>6
<1>8. ASSUME NEW i \in 1..n
      PROVE  s[i].op = "evaluate" /\ Sees(goal[s[i].on[1]], c) # None
  <2>1. s[i] = On("evaluate", <<gs[i], Sees(goal[gs[i]], c).state>>) /\ gs[i] \in U
    BY <1>4, <1>6
  <2>2. s[i].op = "evaluate" /\ s[i].on[1] = gs[i]
    BY <2>1 DEF On
  <2>q. QED
    BY <2>1, <2>2, <1>5
<1> HIDE DEF s
<1>9. s \in Seq(Inner) /\ Len(s) = n
  BY <1>4, <1>7
<1>10. Instead(c, s)
  BY <1>2 DEF s
<1>11. Types' /\ Quiet(c)
  BY <1>1, <1>8, <1>9, <1>10, QuietReading DEF ReadGoals, Ops, Verbs
<1>q. QED
  BY <1>8, <1>9, <1>10, <1>11 DEF Lays

LEMMA RealtimeRead ==
  ASSUME Types, NEW c \in Calls, ReadRealtime(c)
  PROVE  /\ Types' /\ Quiet(c)
         /\ \E s : Lays(c, s, "grant") /\ \A i \in 1..Len(s) : s[i].on[1] = RewardBadge
<1> DEFINE S == {u \in Contenders(c) : AllReached(c, u)}
<1>1. Others'
  BY DEF Types, Others, ReadRealtime
<1>2. CASE RewardBadge = None
  <2>1. Types' /\ Quiet(c) /\ Instead(c, <<>>)
    BY <1>1, <1>2, QuietDone DEF ReadRealtime, Ops, Verbs, Done
  <2>q. QED
    BY <2>1, EmptyIsInner DEF Lays
<1>3. CASE RewardBadge # None
  <2>1. PICK us \in SetToSeqs(S) :
          Instead(c, [i \in DOMAIN us |-> On("grant", <<RewardBadge, us[i]>>)])
    BY <1>3 DEF ReadRealtime
  <2>2. S \subseteq Users /\ IsFiniteSet(S)
    BY FS_Subset, ChallengeAssumption DEF Contenders
  <2> DEFINE n == Cardinality(S)
             s == [i \in DOMAIN us |-> On("grant", <<RewardBadge, us[i]>>)]
  <2>3. n \in Nat /\ us \in [1..n -> S]
    BY <2>1, <2>2, Listing
  <2>4. \A u \in S : On("grant", <<RewardBadge, u>>) \in Inner
    BY <1>3, <2>2 DEF Inner, Steps, Typed, On, Ops, Args, Badges
  <2> HIDE DEF S, n
  <2>5. s = [i \in 1..n |-> On("grant", <<RewardBadge, us[i]>>)]
    BY <2>3
  <2>6. s \in [1..n -> Inner] /\ \A i \in 1..n : s[i].op = "grant" /\ s[i].on[1] = RewardBadge
    BY <2>3, <2>4, <2>5 DEF On
  <2> HIDE DEF s
  <2>7. s \in Seq(Inner) /\ Len(s) = n
    BY <2>3, <2>6
  <2>8. Instead(c, s)
    BY <2>1 DEF s
  <2>9. Types' /\ Quiet(c)
    BY <1>1, <2>6, <2>7, <2>8, QuietReading DEF ReadRealtime, Ops, Verbs
  <2>q. QED
    BY <2>6, <2>7, <2>8, <2>9 DEF Lays
<1>q. QED
  BY <1>2, <1>3

LEMMA PodiumRead ==
  ASSUME Types, NEW c \in Calls, ReadPodium(c)
  PROVE  /\ Types' /\ Quiet(c)
         /\ \E s, ranked : /\ Lays(c, s, "grant")
                           /\ \A i \in 1..Len(s) : \E p \in DOMAIN Podium :
                                s[i].on = <<Podium[p], ranked[p]>>
<1>1. Others'
  BY DEF Types, Others, ReadPodium
<1>p. PICK ranked \in SetToSeqs(Contenders(c)) : \E ps \in SetToSeqs(Awarded(c, ranked)) :
        Instead(c, [i \in DOMAIN ps |-> On("grant", <<Podium[ps[i]], ranked[ps[i]]>>)])
  BY DEF ReadPodium
<1>2. PICK places \in SetToSeqs(Awarded(c, ranked)) :
        Instead(c, [i \in DOMAIN places |-> On("grant", <<Podium[places[i]], ranked[places[i]]>>)])
  BY <1>p
<1> DEFINE W == Awarded(c, ranked)
           n == Cardinality(W)
           m == Cardinality(Contenders(c))
<1>3. Contenders(c) \subseteq Users /\ IsFiniteSet(Contenders(c))
  BY FS_Subset, ChallengeAssumption DEF Contenders
<1>4. m \in Nat /\ ranked \in [1..m -> Contenders(c)]
  BY <1>p, <1>3, Listing
<1>5. Len(ranked) = m
  BY <1>4
<1>6. Podium \in Seq(Badges \cup {None}) /\ DOMAIN Podium = 1..Len(Podium) /\ Len(Podium) \in Nat
  BY ChallengeAssumption, LenProperties
<1>7. IsFiniteSet(W)
  <2>1. IsFiniteSet(1..Len(Podium))
    BY <1>6, FS_Interval
  <2>2. W \subseteq 1..Len(Podium)
    BY <1>6 DEF Awarded
  <2>q. QED
    BY <2>1, <2>2, FS_Subset
<1>8. n \in Nat /\ places \in [1..n -> W]
  BY <1>2, <1>7, Listing
<1>9. ASSUME NEW p \in W
      PROVE  On("grant", <<Podium[p], ranked[p]>>) \in Inner
  <2>1. p \in 1..Len(Podium) /\ Podium[p] # None /\ Earned(c, ranked, p)
    <3>1. p \in 1..Len(Podium) /\ Podium[p] # None
      BY <1>6 DEF Awarded
    <3>2. p \in 1..p
      BY <3>1, <1>6
    <3>q. QED
      BY <3>1, <3>2 DEF Awarded
  <2>2. p \in 1..m
    BY <2>1, <1>4, <1>5, <1>6 DEF Earned
  <2>3. Podium[p] \in Badges
    BY <2>1, <1>6, ElementOfSeq
  <2>4. ranked[p] \in Users
    BY <2>2, <1>3, <1>4
  <2>q. QED
    BY <2>3, <2>4 DEF Inner, Steps, Typed, On, Ops, Args
<1> HIDE DEF W, n
<1> DEFINE s == [i \in DOMAIN places |-> On("grant", <<Podium[places[i]], ranked[places[i]]>>)]
<1>10. s = [i \in 1..n |-> On("grant", <<Podium[places[i]], ranked[places[i]]>>)]
  BY <1>8
<1>11. /\ s \in [1..n -> Inner]
       /\ \A i \in 1..n : s[i].op = "grant" /\ s[i].on = <<Podium[places[i]], ranked[places[i]]>>
  BY <1>8, <1>9, <1>10 DEF On
<1> HIDE DEF s
<1>12. s \in Seq(Inner) /\ Len(s) = n
  BY <1>8, <1>11
<1>13. Instead(c, s)
  BY <1>2 DEF s
<1>14. Types' /\ Quiet(c)
  BY <1>1, <1>11, <1>12, <1>13, QuietReading DEF ReadPodium, Ops, Verbs
<1>15. \A i \in 1..n : places[i] \in DOMAIN Podium
  BY <1>8 DEF Awarded, W
<1>q. QED
  BY <1>11, <1>12, <1>13, <1>14, <1>15 DEF Lays

LEMMA Checked ==
  ASSUME Types, NEW c \in Calls, Check(c)
  PROVE  Types' /\ Quiet(c)
<1>1. Others'
  BY DEF Types, Others, Check
<1>q. QED
  BY <1>1, QuietDone DEF Check, Ops, Verbs

(* A quiet statement that writes goals or grants.                           *)
LEMMA QuietWriting ==
  ASSUME Types, NEW c \in Calls, NEW op \in Ops \ Verbs, At(c, op),
         op \notin {"members", "look", "insert", "move", "commit"},
         Done(c), Tables', Others', challenge' = challenge, report' = report, member' = member,
         GoalWrites(c),
         \A k \in Badges \X Users : grant'[k] = grant[k] \/ grant'[k].by = c,
         share' \subseteq share \cup {c}
  PROVE  Types' /\ Quiet(c)
<1>1. Stepped(c, <<>>) /\ plan[c][1].op = op
  BY DoneSteps DEF Types
<1>2. \A i \in 1..Len(<<>>) : <<>>[i].op # "evaluate"
  BY EmptyIsInner
<1>3. Types'
  BY <1>1, <1>2, EmptyIsInner, StatementTypes
<1>q. QED
  BY <1>1, <1>3, EmptyIsInner DEF Quiet

LEMMA GoalsSet ==
  ASSUME Types, NEW c \in Calls, NEW gs \in SUBSET GoalsSeen(c), NEW x \in GoalStates,
         SetGoals(c, gs, x)
  PROVE  /\ GoalWrites(c) /\ goal' \in [Goals -> Rows(GoalRow \cup {None})]
         /\ \A g \in Goals : goal'[g].now # None => goal'[g].new # None
<1>1. gs \subseteq Goals /\ \A g \in gs : Sees(goal[g], c) # None
  BY DEF GoalsSeen
<1>2. goal' = [g \in Goals |-> IF g \in gs THEN Put(goal[g], c, [Sees(goal[g], c) EXCEPT !.state = x])
                               ELSE goal[g]]
  BY DEF SetGoals
<1>3. ASSUME NEW g \in gs
      PROVE  /\ goal'[g] \in Rows(GoalRow \cup {None}) /\ goal'[g].by = c
             /\ goal'[g].new # None /\ goal'[g].now = goal[g].now
  <2>1. goal[g] \in Rows(GoalRow \cup {None}) /\ g \in Goals
    BY <1>1 DEF Types, Tables
  <2>2. Sees(goal[g], c) \in GoalRow
    BY <1>1, <2>1, RowSees
  <2>3. [Sees(goal[g], c) EXCEPT !.state = x] \in GoalRow
    BY <2>2 DEF GoalRow, GoalStates
  <2>4. goal'[g] = Put(goal[g], c, [Sees(goal[g], c) EXCEPT !.state = x])
    BY <1>2, <2>1
  <2> DEFINE r == [Sees(goal[g], c) EXCEPT !.state = x]
  <2> HIDE DEF r
  <2>5. r \in GoalRow /\ r \in GoalRow \cup {None} /\ goal'[g] = Put(goal[g], c, r)
    BY <2>3, <2>4 DEF r
  <2>6. r # None
    BY <2>5, NoneIsNoRow
  <2>q. QED
    BY <2>1, <2>5, <2>6, RowPut
<1>4. \A g \in Goals \ gs : goal'[g] = goal[g]
  BY <1>2
<1>5. GoalWrites(c)
  BY <1>1, <1>3, <1>4 DEF GoalWrites, SetGoals
<1>6. goal' \in [Goals -> Rows(GoalRow \cup {None})]
  <2>1. \A g \in Goals : goal'[g] \in Rows(GoalRow \cup {None})
    BY <1>3, <1>4 DEF Types, Tables
  <2>q. QED
    BY <1>2, <2>1
<1>7. \A g \in Goals : goal'[g].now # None => goal'[g].new # None
  BY <1>3, <1>4 DEF Types, Tables
<1>q. QED
  BY <1>5, <1>6, <1>7

LEMMA Swept1 ==
  ASSUME Types, NEW c \in Calls, Sweep(c)
  PROVE  Types' /\ Quiet(c)
<1>1. Others'
  BY DEF Types, Others, Sweep
<1> DEFINE gs == {g \in GoalsSeen(c) : g[3] \in before[c] \ target[c] /\ Swept(Sees(goal[g], c))}
<1>2. GoalWrites(c) /\ goal' \in [Goals -> Rows(GoalRow \cup {None})]
      /\ \A g \in Goals : goal'[g].now # None => goal'[g].new # None
  <2>1. gs \in SUBSET GoalsSeen(c) /\ SetGoals(c, gs, "canceled") /\ "canceled" \in GoalStates
    BY DEF Sweep, GoalStates
  <2> HIDE DEF gs
  <2>q. QED
    BY <2>1, GoalsSet
<1>3. Tables'
  BY <1>2 DEF Types, Tables, Sweep
<1>q. QED
  BY <1>1, <1>2, <1>3, QuietWriting DEF Sweep, Ops, Verbs

LEMMA Failed ==
  ASSUME Types, NEW c \in Calls, Fail(c)
  PROVE  Types' /\ Quiet(c)
<1>1. Others'
  BY DEF Types, Others, Fail
<1> DEFINE gs == {g \in GoalsSeen(c) : /\ Sees(goal[g], c).state = "inprogress"
                                       /\ ~Covers(Sees(goal[g], c), today[c])}
<1>2. GoalWrites(c) /\ goal' \in [Goals -> Rows(GoalRow \cup {None})]
      /\ \A g \in Goals : goal'[g].now # None => goal'[g].new # None
  <2>1. gs \in SUBSET GoalsSeen(c) /\ SetGoals(c, gs, "failed") /\ "failed" \in GoalStates
    BY DEF Fail, GoalStates
  <2> HIDE DEF gs
  <2>q. QED
    BY <2>1, GoalsSet
<1>3. Tables'
  BY <1>2 DEF Types, Tables, Fail
<1>q. QED
  BY <1>1, <1>2, <1>3, QuietWriting DEF Fail, Ops, Verbs

LEMMA EvaluatedType ==
  ASSUME NEW row \in GoalRow, NEW x, NEW v \in Values, Evaluated(row, x, v) # None
  PROVE  Evaluated(row, x, v) \in GoalRow
<1>1. v \in Nat
  BY ChallengeAssumption
<1> DEFINE st == IF v >= Target THEN "reached" ELSE IF x = "draft" THEN "inprogress" ELSE row.state
<1>2. Evaluated(row, x, v) = [row EXCEPT !.current = v, !.state = st]
  BY DEF Evaluated
<1>3. st \in GoalStates
  BY DEF GoalRow, GoalStates
<1> HIDE DEF st
<1>4. [row EXCEPT !.current = v, !.state = st] \in GoalRow
  BY <1>1, <1>3 DEF GoalRow, GoalStates
<1>q. QED
  BY <1>2, <1>4

LEMMA Evaluates ==
  ASSUME Types, NEW c \in Calls, Evaluate(c)
  PROVE  Types' /\ Quiet(c)
<1>1. Others'
  BY DEF Types, Others, Evaluate
<1>2. GoalWrites(c) /\ goal' \in [Goals -> Rows(GoalRow \cup {None})]
      /\ \A g \in Goals : goal'[g].now # None => goal'[g].new # None
  <2>1. CASE goal' = goal
    BY <2>1 DEF Types, Tables, GoalWrites
  <2>2. CASE goal' # goal
    <3> DEFINE g == Arg(c)[1]
               x == Arg(c)[2]
    <3>1. PICK v \in Values :
            /\ Free(goal[g], c) /\ Evaluated(Sees(goal[g], c), x, v) # None
            /\ goal' = [goal EXCEPT ![g] = Put(@, c, Evaluated(Sees(@, c), x, v))]
      BY <2>2 DEF Evaluate
    <3>2. g \in Goals /\ Sees(goal[g], c) # None
      <4>1. Good(plan[c]) /\ plan[c][1].op = "evaluate" /\ Arg(c) = plan[c][1].on
        BY Running DEF Evaluate, Types, Verbs
      <4>2. plan[c] \in Seq(Steps) /\ 1 \in 1..Len(plan[c])
        BY <4>1, EmptySeq DEF Good
      <4>3. plan[c][1] \in Steps
        BY <4>2, ElementOfSeq
      <4>4. Arg(c) \in Goals \X GoalStates
        BY <4>1, <4>3 DEF Steps, Typed
      <4>q. QED
        BY <4>1, <4>2, <4>4 DEF Types, Evaluable
    <3>3. goal[g] \in Rows(GoalRow \cup {None}) /\ goal \in [Goals -> Rows(GoalRow \cup {None})]
      BY <3>2 DEF Types, Tables
    <3>4. Sees(goal[g], c) \in GoalRow
      BY <3>2, <3>3, RowSees
    <3> DEFINE r == Evaluated(Sees(goal[g], c), x, v)
    <3>5. r \in GoalRow /\ r # None
      BY <3>1, <3>4, EvaluatedType
    <3>6. goal' = [goal EXCEPT ![g] = Put(goal[g], c, r)]
      BY <3>1
    <3> HIDE DEF r, g, x
    <3>7. /\ Put(goal[g], c, r) \in Rows(GoalRow \cup {None})
          /\ Put(goal[g], c, r).now = goal[g].now /\ Put(goal[g], c, r).new = r
          /\ Put(goal[g], c, r).by = c
      BY <3>3, <3>5, RowPut
    <3>8. goal'[g] = Put(goal[g], c, r) /\ \A h \in Goals \ {g} : goal'[h] = goal[h]
      BY <3>2, <3>3, <3>6
    <3>9. goal' \in [Goals -> Rows(GoalRow \cup {None})]
      BY <3>3, <3>6, <3>7
    <3>10. GoalWrites(c)
      BY <3>1, <3>2, <3>5, <3>7, <3>8 DEF GoalWrites
    <3>11. \A h \in Goals : goal'[h].now # None => goal'[h].new # None
      BY <3>5, <3>7, <3>8 DEF Types, Tables
    <3>q. QED
      BY <3>9, <3>10, <3>11
  <2>q. QED
    BY <2>1, <2>2
<1>3. Tables'
  BY <1>2 DEF Types, Tables, Evaluate
<1>q. QED
  BY <1>1, <1>2, <1>3, QuietWriting DEF Evaluate, Ops, Verbs

LEMMA Granted ==
  ASSUME Types, NEW c \in Calls, Grant(c)
  PROVE  Types' /\ Quiet(c)
<1>1. Others'
  BY DEF Types, Others, Grant
<1>2. /\ grant' \in [Badges \X Users -> Rows(BOOLEAN)]
      /\ \A k \in Badges \X Users : grant'[k] = grant[k] \/ grant'[k].by = c
      /\ share' \subseteq share \cup {c}
  <2>1. CASE UNCHANGED <<grant, share>>
    BY <2>1 DEF Types, Tables
  <2>2. CASE grant' = [grant EXCEPT ![Arg(c)] = Put(@, c, TRUE)] /\ share' = share \cup {c}
    <3>1. \A k \in Badges \X Users :
            /\ Put(grant[k], c, TRUE) \in Rows(BOOLEAN) /\ Put(grant[k], c, TRUE).by = c
      BY FlagPut DEF Types, Tables
    <3>2. grant \in [Badges \X Users -> Rows(BOOLEAN)]
      BY DEF Types, Tables
    <3> DEFINE a == Arg(c)
    <3>3. grant' = [grant EXCEPT ![a] = Put(grant[a], c, TRUE)]
      BY <2>2
    <3> HIDE DEF a
    <3>4. \A k \in Badges \X Users : grant'[k] = IF k = a THEN Put(grant[k], c, TRUE) ELSE grant[k]
      BY <3>2, <3>3
    <3>5. grant' \in [Badges \X Users -> Rows(BOOLEAN)]
      BY <3>1, <3>2, <3>3
    <3>q. QED
      BY <2>2, <3>1, <3>4, <3>5
  <2>q. QED
    BY <2>1, <2>2 DEF Grant
<1>3. Tables' /\ GoalWrites(c)
  BY <1>2 DEF Types, Tables, Grant, GoalWrites
<1>q. QED
  BY <1>1, <1>2, <1>3, QuietWriting DEF Grant, Ops, Verbs

(* The statements about the challenge and its members.                      *)
LEMMA Joined ==
  ASSUME Types, NEW c \in Calls, Join(c)
  PROVE  /\ Types' /\ Stepped(c, <<>>) /\ plan[c][1].op = "join"
         /\ challenge' = challenge /\ goal' = goal
         /\ \A u \in Users : \/ member'[u] = member[u]
                             \/ member'[u].by = c /\ member'[u].now = member[u].now
<1>1. Others'
  BY DEF Types, Others, Join
<1>2. Stepped(c, <<>>) /\ plan[c][1].op = "join"
  BY DoneSteps DEF Join, Types, Verbs
<1>3. /\ member' \in [Users -> Rows(BOOLEAN)]
      /\ \A u \in Users : \/ member'[u] = member[u]
                          \/ member'[u].by = c /\ member'[u].now = member[u].now
      /\ share' \subseteq share \cup {c}
  <2>1. CASE UNCHANGED <<member, share>>
    BY <2>1 DEF Types, Tables
  <2>2. CASE member' = [member EXCEPT ![Arg(c)] = Put(@, c, TRUE)] /\ share' = share \cup {c}
    <3>1. \A u \in Users : /\ Put(member[u], c, TRUE) \in Rows(BOOLEAN)
                           /\ Put(member[u], c, TRUE).by = c
                           /\ Put(member[u], c, TRUE).now = member[u].now
      BY FlagPut DEF Types, Tables
    <3>2. member \in [Users -> Rows(BOOLEAN)]
      BY DEF Types, Tables
    <3> DEFINE a == Arg(c)
    <3>3. member' = [member EXCEPT ![a] = Put(member[a], c, TRUE)]
      BY <2>2
    <3> HIDE DEF a
    <3>4. \A u \in Users : member'[u] = IF u = a THEN Put(member[u], c, TRUE) ELSE member[u]
      BY <3>2, <3>3
    <3>5. member' \in [Users -> Rows(BOOLEAN)]
      BY <3>1, <3>2, <3>3
    <3>q. QED
      BY <2>2, <3>1, <3>4, <3>5
  <2>q. QED
    BY <2>1, <2>2 DEF Join
<1>4. Tables' /\ GoalWrites(c)
  BY <1>3 DEF Types, Tables, Join, GoalWrites
<1>5. \A i \in 1..Len(<<>>) : <<>>[i].op # "evaluate"
  BY EmptyIsInner
<1>6. challenge' = challenge /\ report' = report /\ goal' = goal /\ grant' = grant
  BY DEF Join
<1>7. Types'
  BY <1>1, <1>2, <1>3, <1>4, <1>5, <1>6, EmptyIsInner, StatementTypes
<1>q. QED
  BY <1>2, <1>3, <1>6, <1>7

LEMMA Retired ==
  ASSUME Types, NEW c \in Calls, Retire(c)
  PROVE  /\ Types' /\ Stepped(c, <<>>) /\ plan[c][1].op = "retire"
         /\ challenge' = challenge /\ goal' = goal
         /\ \A u \in Users : \/ member'[u] = member[u]
                             \/ /\ member'[u].by = c /\ member'[u].now = member[u].now
                                /\ member'[u].new = FALSE
<1>1. Others'
  BY DEF Types, Others, Retire
<1>2. Stepped(c, <<>>) /\ plan[c][1].op = "retire"
  BY DoneSteps DEF Retire, Types, Verbs
<1>3. /\ member' \in [Users -> Rows(BOOLEAN)]
      /\ \A u \in Users : \/ member'[u] = member[u]
                          \/ /\ member'[u].by = c /\ member'[u].now = member[u].now
                             /\ member'[u].new = FALSE
  <2> DEFINE L == {u \in Users \ target[c] : Sees(member[u], c)}
  <2>1. member' = [u \in Users |-> IF u \in L THEN Put(member[u], c, FALSE) ELSE member[u]]
    BY DEF Retire
  <2>2. \A u \in Users : /\ Put(member[u], c, FALSE) \in Rows(BOOLEAN)
                         /\ Put(member[u], c, FALSE).by = c
                         /\ Put(member[u], c, FALSE).now = member[u].now
                         /\ Put(member[u], c, FALSE).new = FALSE
    BY FlagPut DEF Types, Tables
  <2>3. member \in [Users -> Rows(BOOLEAN)]
    BY DEF Types, Tables
  <2> HIDE DEF L
  <2>4. \A u \in Users : member'[u] = IF u \in L THEN Put(member[u], c, FALSE) ELSE member[u]
    BY <2>1
  <2>5. member' \in [Users -> Rows(BOOLEAN)]
    BY <2>1, <2>2, <2>3
  <2>q. QED
    BY <2>2, <2>4, <2>5
<1>4. Tables' /\ GoalWrites(c)
  BY <1>3 DEF Types, Tables, Retire, GoalWrites
<1>5. \A i \in 1..Len(<<>>) : <<>>[i].op # "evaluate"
  BY EmptyIsInner
<1>6. /\ challenge' = challenge /\ report' = report /\ goal' = goal /\ grant' = grant
      /\ share' = share
  BY DEF Retire
<1>7. Types'
  BY <1>1, <1>2, <1>3, <1>4, <1>5, <1>6, EmptyIsInner, StatementTypes
<1>q. QED
  BY <1>2, <1>3, <1>6, <1>7

LEMMA MembersRead ==
  ASSUME Types, NEW c \in Calls, ReadMembers(c)
  PROVE  /\ Types' /\ UNCHANGED tables
         /\ \E s \in Seq(Inner) :
              /\ Stepped(c, s)
              /\ Lays(c, s, "look")
              /\ \A i \in 1..Len(s) : s[i].on[2] \in Users /\ Sees(member[s[i].on[2]], c)
              /\ \A u \in Users, l \in Lines : Sees(member[u], c) =>
                   \E i \in 1..Len(s) : s[i] = On("look", <<l, u>>)
<1>1. Others'
  BY DEF Types, Others, ReadMembers
<1> DEFINE M == {u \in Users : Sees(member[u], c)}
           T == Lines \X M
           n == Cardinality(T)
<1>2. PICK ps \in SetToSeqs(T) : Instead(c, [i \in DOMAIN ps |-> On("look", ps[i])])
  BY DEF ReadMembers
<1>3. T \subseteq Lines \X Users /\ IsFiniteSet(T)
  BY FS_Subset, FS_Product, ChallengeAssumption
<1>t. \A u \in Users, l \in Lines : Sees(member[u], c) => <<l, u>> \in T
  OBVIOUS
<1>m. \A x \in T : x[2] \in Users /\ Sees(member[x[2]], c)
  OBVIOUS
<1> HIDE DEF T
<1>4. n \in Nat /\ ps \in [1..n -> T] /\ \A x \in T : \E i \in 1..n : ps[i] = x
  BY <1>2, <1>3, Listing
<1>5. \A x \in T : On("look", x) \in Inner
  BY <1>3 DEF Inner, Steps, Typed, On, Ops, Args
<1> HIDE DEF n
<1> DEFINE s == [i \in DOMAIN ps |-> On("look", ps[i])]
<1>6. s = [i \in 1..n |-> On("look", ps[i])]
  BY <1>4
<1>7. s \in [1..n -> Inner] /\ \A i \in 1..n : s[i] = On("look", ps[i]) /\ s[i].op = "look"
  BY <1>4, <1>5, <1>6 DEF On
<1> HIDE DEF s
<1>8. s \in Seq(Inner) /\ Len(s) = n
  BY <1>4, <1>7
<1>9. Instead(c, s) /\ At(c, "members") /\ UNCHANGED <<tables, share>>
  BY <1>2 DEF s, ReadMembers
<1>10. Stepped(c, s)
  BY <1>7, <1>8, <1>9, StepOfPlan DEF Types, Verbs
<1>11. Types'
  BY <1>1, <1>7, <1>8, <1>9, <1>10, ReadingTypes
<1>12. \A u \in Users, l \in Lines : Sees(member[u], c) => \E i \in 1..Len(s) : s[i] = On("look", <<l, u>>)
  BY <1>t, <1>4, <1>7, <1>8
<1>13. Lays(c, s, "look")
  BY <1>7, <1>8, <1>9 DEF Lays
<1>14. \A i \in 1..Len(s) : s[i].on[2] \in Users /\ Sees(member[s[i].on[2]], c)
  BY <1>m, <1>4, <1>7, <1>8 DEF On
<1>q. QED
  BY <1>8, <1>9, <1>10, <1>11, <1>12, <1>13, <1>14

LEMMA Looked ==
  ASSUME Types, NEW c \in Calls, Look(c)
  PROVE  /\ Types' /\ UNCHANGED tables
         /\ plan[c][1].op = "look" /\ Arg(c) = plan[c][1].on
         /\ \/ /\ Stepped(c, <<>>)
               /\ \E g \in Goals : <<g[2], g[3]>> = Arg(c) /\ Sees(goal[g], c) # None
            \/ Stepped(c, <<On("insert", Arg(c))>>) /\ <<On("insert", Arg(c))>> \in Seq(Inner)
<1>1. Others'
  BY DEF Types, Others, Look
<1>2. plan[c][1].op = "look" /\ Arg(c) = plan[c][1].on /\ Good(plan[c])
  BY Running DEF Look, Types, Verbs
<1>3. CASE Done(c) /\ \E g \in GoalsSeen(c) : <<g[2], g[3]>> = Arg(c)
  <2>1. Stepped(c, <<>>)
    BY <1>3, DoneSteps DEF Look, Types, Verbs
  <2>2. \A i \in 1..Len(<<>>) : <<>>[i].op # "evaluate"
    BY EmptyIsInner
  <2>3. UNCHANGED <<tables, share>>
    BY DEF Look
  <2>4. Types'
    BY <1>1, <2>1, <2>2, <2>3, EmptyIsInner, ReadingTypes
  <2>q. QED
    BY <1>2, <1>3, <2>1, <2>3, <2>4 DEF GoalsSeen
<1>4. CASE Instead(c, <<On("insert", Arg(c))>>)
  <2> DEFINE s == <<On("insert", Arg(c))>>
  <2>1. On("insert", Arg(c)) \in Inner
    <3>1. plan[c] \in Seq(Steps) /\ 1 \in 1..Len(plan[c])
      BY <1>2, EmptySeq DEF Good
    <3>2. plan[c][1] \in Steps
      BY <3>1, ElementOfSeq
    <3>3. Arg(c) \in Lines \X Users
      BY <1>2, <3>2 DEF Steps, Typed
    <3>q. QED
      BY <3>3 DEF Inner, Steps, Typed, On, Ops, Args
  <2>2. s \in Seq(Inner) /\ Len(s) = 1 /\ s[1].op = "insert"
    BY <2>1 DEF On
  <2> HIDE DEF s
  <2>3. At(c, "look") /\ UNCHANGED <<tables, share>> /\ Instead(c, s)
    BY <1>4 DEF Look, s
  <2>4. \A i \in 1..Len(s) : s[i].op = "insert"
    BY <2>2
  <2>5. Stepped(c, s)
    BY <2>2, <2>3, <2>4, StepOfPlan DEF Types, Verbs
  <2>6. Types'
    BY <1>1, <2>2, <2>3, <2>4, <2>5, ReadingTypes
  <2>q. QED
    BY <1>2, <2>2, <2>3, <2>5, <2>6 DEF s
<1>q. QED
  BY <1>3, <1>4 DEF Look

LEMMA Inserted ==
  ASSUME Types, NEW c \in Calls, Insert(c)
  PROVE  /\ Types' /\ Stepped(c, <<>>) /\ GoalWrites(c)
         /\ challenge' = challenge /\ member' = member
         /\ plan[c][1].op = "insert"
         /\ \A u \in Users, l \in Lines : plan[c][1].on = <<l, u>> =>
              Sees(goal'[<<c, l, u>>], c) # None
<1>1. Others'
  BY DEF Types, Others, Insert
<1>2. plan[c][1].op = "insert" /\ Arg(c) = plan[c][1].on /\ Good(plan[c])
  BY Running DEF Insert, Types, Verbs
<1>3. Stepped(c, <<>>)
  BY DoneSteps DEF Insert, Types, Verbs
<1>4. PICK l \in Lines, u \in Users : Arg(c) = <<l, u>>
  <2>1. plan[c] \in Seq(Steps) /\ 1 \in 1..Len(plan[c])
    BY <1>2, EmptySeq DEF Good
  <2>2. plan[c][1] \in Steps
    BY <2>1, ElementOfSeq
  <2>q. QED
    BY <1>2, <2>2 DEF Steps, Typed
<1> DEFINE g == <<c, l, u>>
           r == [state |-> "draft", current |-> 0, end |-> WindowEnd[today[c]]]
<1>5. goal' = [goal EXCEPT ![g] = Put(goal[g], c, r)] /\ g \in Goals /\ g[1] = c
  BY <1>4 DEF Insert, Goals
<1>6. r \in GoalRow /\ r # None
  <2>1. WindowEnd[today[c]] \in Nat \cup {None}
    BY ChallengeAssumption DEF Types, Others
  <2>2. r \in GoalRow
    BY <2>1 DEF GoalRow, GoalStates
  <2>q. QED
    BY <2>2, NoneIsNoRow
<1> HIDE DEF r, g
<1>7. goal \in [Goals -> Rows(GoalRow \cup {None})] /\ goal[g] \in Rows(GoalRow \cup {None})
  BY <1>5 DEF Types, Tables
<1>8. /\ Put(goal[g], c, r) \in Rows(GoalRow \cup {None})
      /\ Put(goal[g], c, r).now = goal[g].now /\ Put(goal[g], c, r).new = r
      /\ Put(goal[g], c, r).by = c
  BY <1>6, <1>7, RowPut
<1>9. goal'[g] = Put(goal[g], c, r) /\ \A h \in Goals \ {g} : goal'[h] = goal[h]
  BY <1>5, <1>7
<1>10. Free(goal[g], c)
  <2>1. plan[c] # <<>>
    BY <1>2 DEF Good
  <2>q. QED
    BY <1>5, <2>1 DEF Types, Fresh, Ended, Free
<1>11. GoalWrites(c)
  BY <1>5, <1>6, <1>8, <1>9, <1>10 DEF GoalWrites
<1>12. Tables'
  <2>1. goal' \in [Goals -> Rows(GoalRow \cup {None})]
    BY <1>5, <1>7, <1>8
  <2>2. \A h \in Goals : goal'[h].now # None => goal'[h].new # None
    BY <1>6, <1>8, <1>9 DEF Types, Tables
  <2>3. challenge' = challenge /\ report' = report /\ member' = member /\ grant' = grant
    BY DEF Insert
  <2>q. QED
    BY <2>1, <2>2, <2>3 DEF Types, Tables
<1>13. \A i \in 1..Len(<<>>) : <<>>[i].op # "evaluate"
  BY EmptyIsInner
<1>14. /\ challenge' = challenge /\ report' = report /\ member' = member /\ grant' = grant
       /\ share' = share \cup {c}
  BY DEF Insert
<1>15. Types'
  BY <1>1, <1>3, <1>11, <1>12, <1>13, <1>14, EmptyIsInner, StatementTypes
<1>16. Sees(goal'[g], c) # None
  BY <1>6, <1>8, <1>9 DEF Sees
<1>g. Sees(goal'[<<c, l, u>>], c) # None
  BY <1>16 DEF g
<1>17. ASSUME NEW v \in Users, NEW k \in Lines, plan[c][1].on = <<k, v>>
       PROVE  Sees(goal'[<<c, k, v>>], c) # None
  <2>1. <<k, v>> = <<l, u>>
    BY <1>2, <1>4, <1>17
  <2>2. k = l /\ v = u
    BY <2>1
  <2>q. QED
    BY <2>2, <1>g
<1>q. QED
  BY <1>2, <1>3, <1>11, <1>14, <1>15, <1>17

LEMMA Stamped ==
  ASSUME Types, NEW c \in Calls, StampReport(c)
  PROVE  Types' /\ Quiet(c)
<1>1. Others'
  BY DEF Types, Others, StampReport
<1>2. Stepped(c, <<>>) /\ plan[c][1].op = "stamp"
  BY DoneSteps DEF StampReport, Types, Verbs
<1>3. NextReport[today[c]] \in Nat \cup {None}
  <2>1. today[c] \in 0..MaxDay
    BY DEF Types, Others
  <2>q. QED
    BY <2>1, ChallengeAssumption
<1>4. report' \in Rows(Nat \cup {None}) /\ report'.by = c
  BY <1>3, RowPut DEF StampReport, Types, Tables
<1>5. challenge' = challenge /\ member' = member /\ goal' = goal /\ grant' = grant /\ share' = share
  BY DEF StampReport
<1>6. Tables' /\ GoalWrites(c)
  BY <1>4, <1>5 DEF Types, Tables, GoalWrites
<1>7. \A i \in 1..Len(<<>>) : <<>>[i].op # "evaluate"
  BY EmptyIsInner
<1>8. Types'
  BY <1>1, <1>2, <1>4, <1>5, <1>6, <1>7, EmptyIsInner, StatementTypes
<1>9. "stamp" \in Ops \ {"members", "look", "insert", "move"}
  BY DEF Ops
<1>q. QED
  BY <1>2, <1>5, <1>6, <1>8, <1>9, EmptyIsInner DEF Quiet

LEMMA Moved ==
  ASSUME Types, NEW c \in Calls, Move(c)
  PROVE  /\ Types' /\ Stepped(c, <<>>) /\ member' = member /\ goal' = goal
         /\ plan[c][1].op = "move" /\ Arg(c) = plan[c][1].on /\ Arg(c) \in States
<1>1. Others'
  BY DEF Types, Others, Move
<1>2. plan[c][1].op = "move" /\ Arg(c) = plan[c][1].on /\ Good(plan[c])
  BY Running DEF Move, Types, Verbs
<1>3. Stepped(c, <<>>)
  BY DoneSteps DEF Move, Types, Verbs
<1>4. Arg(c) \in States
  <2>1. plan[c] \in Seq(Steps) /\ 1 \in 1..Len(plan[c])
    BY <1>2, EmptySeq DEF Good
  <2>2. plan[c][1] \in Steps
    BY <2>1, ElementOfSeq
  <2>q. QED
    BY <1>2, <2>2 DEF Steps, Typed
<1>5. challenge' \in Rows(States) /\ challenge'.by = c
  BY <1>4, RowPut DEF Move, Types, Tables
<1>6. Tables' /\ GoalWrites(c)
  BY <1>5 DEF Types, Tables, Move, GoalWrites
<1>7. \A i \in 1..Len(<<>>) : <<>>[i].op # "evaluate"
  BY EmptyIsInner
<1>8. report' = report /\ member' = member /\ goal' = goal /\ grant' = grant /\ share' = share
  BY DEF Move
<1>9. Types'
  BY <1>1, <1>3, <1>5, <1>6, <1>7, <1>8, EmptyIsInner, StatementTypes
<1>q. QED
  BY <1>2, <1>3, <1>4, <1>8, <1>9

-----------------------------------------------------------------------------
(* The beginning and the end of a call, and the world around it.            *)

LEMMA Ends ==
  ASSUME Types, NEW c \in Calls, NEW keep \in BOOLEAN, Good(plan[c]), End(c, keep)
  PROVE  /\ Plans' /\ Evaluable' /\ Tables' /\ Holders' /\ Fresh'
         /\ plan'[c] = <<>> /\ \A d \in Calls \ {c} : plan'[d] = plan[d]
<1>0. None # c
  BY ChallengeAssumption
<1>1. plan' = [plan EXCEPT ![c] = <<>>] /\ plan \in [Calls -> Seq(Steps)] /\ <<>> \in Seq(Steps)
  BY EmptySeq DEF End, Types, Plans
<1>2. plan'[c] = <<>> /\ \A d \in Calls \ {c} : plan'[d] = plan[d]
  BY <1>1
<1>3. Plans'
  BY <1>1, <1>2 DEF Types, Plans
<1>4. /\ challenge' = Settled(challenge, c, keep)
      /\ report' = Settled(report, c, keep)
      /\ member' = [u \in Users |-> Settled(member[u], c, keep)]
      /\ goal' = [g \in Goals |-> Settled(goal[g], c, keep)]
      /\ grant' = [k \in Badges \X Users |-> Settled(grant[k], c, keep)]
      /\ share' = share \ {c}
  BY DEF End
<1>5. ASSUME NEW V, NEW v \in Rows(V), NEW w, Held(v), w = Settled(v, c, keep)
      PROVE  (w.by = None => w.new = w.now) /\ (w.by # None => Good(plan'[w.by]))
  <2>1. CASE v.by = c
    BY <1>5, <2>1, RowSettled
  <2>2. CASE v.by # c
    <3>1. w = v /\ v.by \in Calls \cup {None}
      BY <1>5, <2>2, RowSettled DEF Rows
    <3>q. QED
      BY <1>2, <1>5, <2>2, <3>1 DEF Held
  <2>q. QED
    BY <2>1, <2>2
<1>6. Held(challenge)' /\ Held(report)'
  <2>1. /\ challenge \in Rows(States) /\ Held(challenge)
        /\ report \in Rows(Nat \cup {None}) /\ Held(report)
    BY DEF Types, Tables, Holders
  <2>q. QED
    BY <1>4, <1>5, <2>1 DEF Held
<1>7. \A u \in Users : Held(member[u])' /\ member'[u] \in Rows(BOOLEAN)
  <2> SUFFICES ASSUME NEW u \in Users PROVE Held(member[u])' /\ member'[u] \in Rows(BOOLEAN)
    OBVIOUS
  <2>1. member[u] \in Rows(BOOLEAN) /\ Held(member[u]) /\ member'[u] = Settled(member[u], c, keep)
    BY <1>4 DEF Types, Tables, Holders
  <2>2. member'[u] \in Rows(BOOLEAN)
    BY <2>1, RowSettled
  <2>q. QED
    BY <1>5, <2>1, <2>2 DEF Held
<1>8. \A g \in Goals : /\ Held(goal[g])' /\ goal'[g] \in Rows(GoalRow \cup {None})
                       /\ goal'[g] = Settled(goal[g], c, keep)
                       /\ goal[g] \in Rows(GoalRow \cup {None})
  <2> SUFFICES ASSUME NEW g \in Goals
               PROVE /\ Held(goal[g])' /\ goal'[g] \in Rows(GoalRow \cup {None})
                     /\ goal'[g] = Settled(goal[g], c, keep)
                     /\ goal[g] \in Rows(GoalRow \cup {None})
    OBVIOUS
  <2>1. /\ goal[g] \in Rows(GoalRow \cup {None}) /\ Held(goal[g])
        /\ goal'[g] = Settled(goal[g], c, keep)
    BY <1>4 DEF Types, Tables, Holders
  <2>2. goal'[g] \in Rows(GoalRow \cup {None})
    BY <2>1, RowSettled
  <2>q. QED
    BY <1>5, <2>1, <2>2 DEF Held
<1>9. \A k \in Badges \X Users : Held(grant[k])' /\ grant'[k] \in Rows(BOOLEAN)
  <2> SUFFICES ASSUME NEW k \in Badges \X Users PROVE Held(grant[k])' /\ grant'[k] \in Rows(BOOLEAN)
    OBVIOUS
  <2>1. grant[k] \in Rows(BOOLEAN) /\ Held(grant[k]) /\ grant'[k] = Settled(grant[k], c, keep)
    BY <1>4 DEF Types, Tables, Holders
  <2>2. grant'[k] \in Rows(BOOLEAN)
    BY <2>1, RowSettled
  <2>q. QED
    BY <1>5, <2>1, <2>2 DEF Held
<1>10. Holders'
  <2>1. (share \in SUBSET {d \in Calls : Good(plan[d])})'
    BY <1>2, <1>4 DEF Types, Holders
  <2>q. QED
    BY <1>6, <1>7, <1>8, <1>9, <2>1 DEF Holders
<1>11. \A g \in Goals :
         \/ goal'[g] = goal[g] /\ goal[g].by # c
         \/ /\ goal[g].by = c /\ goal'[g].by = None
            /\ goal'[g].new = goal'[g].now
            /\ goal'[g].now \in {goal[g].now, goal[g].new}
  BY <1>8, RowSettled
<1>12. Tables'
  <2>1. challenge' \in Rows(States) /\ report' \in Rows(Nat \cup {None})
    BY <1>4, RowSettled DEF Types, Tables
  <2>2. \A g \in Goals : goal'[g].now # None => goal'[g].new # None
    BY <1>11 DEF Types, Tables
  <2>3. /\ member' \in [Users -> Rows(BOOLEAN)]
        /\ goal' \in [Goals -> Rows(GoalRow \cup {None})]
        /\ grant' \in [Badges \X Users -> Rows(BOOLEAN)]
    BY <1>4, <1>7, <1>8, <1>9
  <2>q. QED
    BY <2>1, <2>2, <2>3 DEF Tables
<1>13. Fresh'
  <2> SUFFICES ASSUME NEW g \in Goals
               PROVE  /\ goal'[g].now # None => plan'[g[1]] = <<>>
                      /\ goal'[g].by \notin {None, g[1]} => goal'[g].now # None
    BY DEF Fresh, Ended
  <2>1. g[1] \in Calls
    BY DEF Goals
  <2>2. goal[g].now # None => plan[g[1]] = <<>>
    BY DEF Types, Fresh, Ended
  <2>3. goal[g].by \notin {None, g[1]} => goal[g].now # None
    BY DEF Types, Fresh
  <2>4. goal[g].now # None => plan'[g[1]] = <<>>
    BY <1>2, <2>1, <2>2
  <2>5. CASE goal'[g] = goal[g] /\ goal[g].by # c
    BY <2>3, <2>4, <2>5
  <2>6. CASE /\ goal[g].by = c /\ goal'[g].by = None
             /\ goal'[g].now \in {goal[g].now, goal[g].new}
    BY <1>0, <1>2, <2>1, <2>3, <2>4, <2>6
  <2>q. QED
    BY <1>11, <2>5, <2>6
<1>14. Evaluable'
  <2> SUFFICES ASSUME NEW d \in Calls, NEW i \in 1..Len(plan'[d]), plan'[d][i].op = "evaluate"
               PROVE  Sees(goal'[plan'[d][i].on[1]], d) # None
    BY DEF Evaluable
  <2>1. d # c
    BY <1>2
  <2>2. plan'[d] = plan[d] /\ plan[d] \in Seq(Steps)
    BY <1>2, <2>1 DEF Types, Plans
  <2> DEFINE g == plan[d][i].on[1]
  <2>3. g \in Goals /\ Sees(goal[g], d) # None
    <3>1. i \in 1..Len(plan[d]) /\ plan[d][i].op = "evaluate"
      BY <2>2
    <3>2. plan[d][i] \in Steps
      BY <2>2, <3>1, ElementOfSeq
    <3>3. plan[d][i].on \in Goals \X GoalStates
      BY <3>1, <3>2 DEF Steps, Typed
    <3>q. QED
      BY <3>1, <3>3 DEF Types, Evaluable
  <2> HIDE DEF g
  <2>4. None # d
    BY ChallengeAssumption
  <2>7. Sees(goal'[g], d) # None
    <3>1. CASE goal'[g] = goal[g]
      BY <2>3, <3>1 DEF Sees
    <3>2. CASE /\ goal[g].by = c /\ goal'[g].by = None
               /\ goal'[g].now \in {goal[g].now, goal[g].new}
      <4>1. goal[g].now # None
        BY <2>1, <2>3, <3>2 DEF Sees
      <4>2. goal[g].new # None
        BY <4>1, <2>3 DEF Types, Tables
      <4>q. QED
        BY <2>4, <3>2, <4>1, <4>2 DEF Sees
    <3>q. QED
      BY <1>11, <2>3, <3>1, <3>2
  <2>q. QED
    BY <2>2, <2>7 DEF g
<1>q. QED
  BY <1>2, <1>3, <1>10, <1>12, <1>13, <1>14

LEMMA Commits ==
  ASSUME Types, NEW c \in Calls, Commit(c)
  PROVE  Types' /\ plan[c][1].op = "commit" /\ Good(plan[c]) /\ End(c, TRUE)
<1>1. Good(plan[c]) /\ plan[c][1].op = "commit" /\ End(c, TRUE)
  BY Running DEF Commit, Types, Verbs
<1>2. Others'
  <2>1. closings' \in {closings, closings + 1}
    BY DEF Commit, Types, Others
  <2>2. closings' \in Nat
    BY <2>1 DEF Types, Others
  <2>q. QED
    BY <1>1, <2>2 DEF Types, Others, End
<1>q. QED
  BY <1>1, <1>2, Ends DEF Types

LEMMA RollsBack ==
  ASSUME Types, NEW c \in Calls, Rollback(c)
  PROVE  Types' /\ Good(plan[c]) /\ End(c, FALSE)
<1>1. Good(plan[c])
  <2>1. c.verb \in Verbs /\ plan[c] # <<>>
    BY ChallengeAssumption DEF Rollback, Ended
  <2>2. Head(<<Do(c.verb)>>).op = c.verb
    BY DEF Do
  <2>3. plan[c] # <<Do(c.verb)>>
    BY <2>1, <2>2 DEF Rollback, At
  <2>q. QED
    BY <2>1, <2>3 DEF Types, Plans
<1>2. Others'
  BY DEF Types, Others, Rollback, End
<1>q. QED
  BY <1>1, <1>2, Ends DEF Types, Rollback

(* A call takes up its work on p, or has none when p is empty.              *)
LEMMA Begins ==
  ASSUME Types, NEW c \in Calls, NEW op \in Verbs, At(c, op),
         NEW p, p = <<>> \/ (Good(p) /\ Calm(p)),
         plan' = [plan EXCEPT ![c] = p],
         \/ challenge' = challenge
         \/ challenge' = Put(challenge, c, challenge.now) /\ challenge.by = None /\ Good(p),
         UNCHANGED <<report, member, goal, grant, share>>, Others'
  PROVE  Types' /\ ~Good(plan[c])
<1>1. ~Good(plan[c]) /\ plan[c] # <<>>
  BY Waiting DEF Types, At
<1>2. plan \in [Calls -> Seq(Steps)] /\ p \in Seq(Steps)
  BY EmptySeq DEF Types, Plans, Good
<1>3. plan'[c] = p /\ \A d \in Calls \ {c} : plan'[d] = plan[d]
  BY <1>2
<1>4. Plans'
  BY <1>2, <1>3 DEF Types, Plans
<1>5. \A d \in Calls : Good(plan[d]) => Good(plan'[d])
  BY <1>1, <1>3
<1>6. ASSUME NEW V, NEW v \in Rows(V), NEW w, Held(v), w = v
      PROVE  (w.by = None => w.new = w.now) /\ (w.by # None => Good(plan'[w.by]))
  BY <1>5, <1>6 DEF Held, Rows
<1>7. challenge' \in Rows(States) /\ Held(challenge)'
  <2>1. CASE challenge' = challenge
    BY <1>6, <2>1 DEF Types, Tables, Holders, Held
  <2>2. CASE challenge' = Put(challenge, c, challenge.now) /\ challenge.by = None /\ Good(p)
    <3>1. challenge \in Rows(States) /\ challenge.now \in States
      BY DEF Types, Tables, Rows
    <3>2. challenge' \in Rows(States) /\ challenge'.by = c
      BY <2>2, <3>1, RowPut
    <3>3. c # None
      BY ChallengeAssumption
    <3>q. QED
      BY <1>3, <2>2, <3>2, <3>3 DEF Held
  <2>q. QED
    BY <2>1, <2>2
<1>r. Held(report)'
  BY <1>6 DEF Types, Tables, Holders, Held
<1>8. \A u \in Users : Held(member[u])'
  <2> SUFFICES ASSUME NEW u \in Users PROVE Held(member[u])'
    OBVIOUS
  <2>1. member[u] \in Rows(BOOLEAN) /\ Held(member[u]) /\ member'[u] = member[u]
    BY DEF Types, Tables, Holders
  <2>q. QED
    BY <1>6, <2>1 DEF Held
<1>9. \A g \in Goals : Held(goal[g])'
  <2> SUFFICES ASSUME NEW g \in Goals PROVE Held(goal[g])'
    OBVIOUS
  <2>1. goal[g] \in Rows(GoalRow \cup {None}) /\ Held(goal[g]) /\ goal'[g] = goal[g]
    BY DEF Types, Tables, Holders
  <2>q. QED
    BY <1>6, <2>1 DEF Held
<1>10. \A k \in Badges \X Users : Held(grant[k])'
  <2> SUFFICES ASSUME NEW k \in Badges \X Users PROVE Held(grant[k])'
    OBVIOUS
  <2>1. grant[k] \in Rows(BOOLEAN) /\ Held(grant[k]) /\ grant'[k] = grant[k]
    BY DEF Types, Tables, Holders
  <2>q. QED
    BY <1>6, <2>1 DEF Held
<1>11. (share \in SUBSET {d \in Calls : Good(plan[d])})'
  BY <1>5 DEF Types, Holders
<1>12. Tables'
  BY <1>7 DEF Types, Tables
<1>13. Fresh'
  <2> SUFFICES ASSUME NEW g \in Goals
               PROVE  /\ goal[g].now # None => plan'[g[1]] = <<>>
                      /\ goal[g].by \notin {None, g[1]} => goal[g].now # None
    BY DEF Fresh, Ended
  <2>1. g[1] \in Calls
    BY DEF Goals
  <2>q. QED
    BY <1>1, <1>3, <2>1 DEF Types, Fresh, Ended
<1>14. Evaluable'
  <2> SUFFICES ASSUME NEW d \in Calls, NEW i \in 1..Len(plan'[d]), plan'[d][i].op = "evaluate"
               PROVE  Sees(goal[plan'[d][i].on[1]], d) # None
    BY DEF Evaluable
  <2>1. CASE d # c
    BY <1>3, <2>1 DEF Types, Evaluable
  <2>2. CASE d = c
    <3>1. p # <<>> => Calm(p)
      OBVIOUS
    <3>2. Len(<<>>) = 0
      BY EmptyIsInner
    <3>q. QED
      BY <1>3, <2>2, <3>1, <3>2 DEF Calm
  <2>q. QED
    BY <2>1, <2>2
<1>q. QED
  BY <1>1, <1>4, <1>7, <1>r, <1>8, <1>9, <1>10, <1>11, <1>12, <1>13, <1>14 DEF Types, Holders

LEMMA Finds ==
  ASSUME Types, NEW c \in Calls, Find(c)
  PROVE  Types' /\ ~Good(plan[c]) /\ UNCHANGED tables
<1>1. Others'
  BY DEF Types, Others, Find
<1>2. PICK v \in {"start", "close", "reset"} :
        /\ At(c, v)
        /\ LET wanted == [start |-> "draft", close |-> "inprogress", reset |-> "done"]
               next == [start |-> StartPlan(day), close |-> ClosePlan, reset |-> ResetPlan]
           IN plan' = [plan EXCEPT ![c] =
                         IF challenge.now = wanted[v] THEN next[v] ELSE <<>>]
  BY DEF Find
<1>3. \E p \in {StartPlan(day), ClosePlan, ResetPlan, <<>>} : plan' = [plan EXCEPT ![c] = p]
  <2>1. CASE v = "start"
    BY <1>2, <2>1
  <2>2. CASE v = "close"
    BY <1>2, <2>2
  <2>3. CASE v = "reset"
    BY <1>2, <2>3
  <2>q. QED
    BY <2>1, <2>2, <2>3
<1>4. \E p : plan' = [plan EXCEPT ![c] = p] /\ (p = <<>> \/ (Good(p) /\ Calm(p)))
  BY <1>3, StartIsGood, CloseIsGood, ResetIsGood
<1>5. PICK p : plan' = [plan EXCEPT ![c] = p] /\ (p = <<>> \/ (Good(p) /\ Calm(p)))
  BY <1>4
<1>6. /\ challenge' = challenge /\ UNCHANGED <<report, member, goal, grant, share>> /\ UNCHANGED tables
      /\ v \in Verbs
  BY DEF Find, tables, Verbs
<1>q. QED
  BY <1>1, <1>2, <1>5, <1>6, Begins

LEMMA Claims ==
  ASSUME Types, NEW c \in Calls, Claim(c)
  PROVE  /\ Types' /\ ~Good(plan[c]) /\ UNCHANGED <<member, goal>>
         /\ challenge.by = None /\ challenge' = Put(challenge, c, challenge.now)
<1>1. Others'
  <2>1. \E d \in 0..day : today' = [today EXCEPT ![c] = d]
    BY DEF Claim
  <2>2. today' \in [Calls -> 0..MaxDay]
    BY <2>1, ChallengeAssumption DEF Types, Others
  <2>q. QED
    BY <2>2 DEF Types, Others, Claim
<1>2. PICK d \in 0..day : plan' = [plan EXCEPT ![c] = DailyPlan(challenge.now, report.now, d)]
  BY DEF Claim
<1>3. Good(DailyPlan(challenge.now, report.now, d)) /\ Calm(DailyPlan(challenge.now, report.now, d))
  BY DailyIsGood
<1>4. /\ challenge' = Put(challenge, c, challenge.now) /\ challenge.by = None
      /\ UNCHANGED <<report, member, goal, grant, share>> /\ At(c, "daily") /\ "daily" \in Verbs
  BY DEF Claim, Locked, Verbs
<1>q. QED
  BY <1>1, <1>2, <1>3, <1>4, Begins

LEMMA PassesOver ==
  ASSUME Types, NEW c \in Calls, PassOver(c)
  PROVE  Types' /\ ~Good(plan[c]) /\ UNCHANGED tables
<1>1. Others'
  BY DEF Types, Others, PassOver
<1>2. At(c, "daily") /\ "daily" \in Verbs
  BY DEF PassOver, Verbs
<1>3. ~Good(plan[c]) /\ plan[c] # <<>>
  BY <1>2, Waiting DEF Types, At
<1>4. plan[c] = <<Do(c.verb)>>
  BY <1>3 DEF Types, Plans
<1>5. <<>> \o Tail(plan[c]) = <<>>
  <2>1. Tail(plan[c]) = <<>>
    BY <1>4
  <2>q. QED
    BY <2>1, EmptyIsInner, ConcatEmptySeq
<1>6. plan' = [plan EXCEPT ![c] = <<>>]
  BY <1>5 DEF PassOver, Done, Instead
<1>7. challenge' = challenge /\ UNCHANGED <<report, member, goal, grant, share>> /\ UNCHANGED tables
  BY DEF PassOver, tables
<1>q. QED
  BY <1>1, <1>2, <1>6, <1>7, Begins

(* A host writes a committed goal that nobody holds.                        *)
LEMMA HostWrites ==
  ASSUME Types, NEW g \in Goals, goal[g].by = None, goal[g].now # None,
         NEW r \in GoalRow, goal' = [goal EXCEPT ![g] = Stored(r)],
         UNCHANGED <<day, rules, challenge, report, member, grant, share, plan, today, target, before, closings>>
  PROVE  /\ Types'
         /\ \A h \in Goals : /\ goal[h].now # None => goal'[h].now # None
                             /\ \A c \in Calls : Sees(goal[h], c) # None => Sees(goal'[h], c) # None
<1>1. r \in GoalRow \cup {None} /\ r # None
  BY NoneIsNoRow
<1>2. Stored(r) \in Rows(GoalRow \cup {None}) /\ Stored(r).now = r /\ Stored(r).new = r /\ Stored(r).by = None
  BY <1>1 DEF Rows, Stored
<1>3. goal \in [Goals -> Rows(GoalRow \cup {None})]
  BY DEF Types, Tables
<1>4. goal'[g] = Stored(r) /\ \A h \in Goals \ {g} : goal'[h] = goal[h]
  BY <1>3
<1>5. Tables'
  <2>1. goal' \in [Goals -> Rows(GoalRow \cup {None})]
    BY <1>2, <1>3
  <2>2. \A h \in Goals : goal'[h].now # None => goal'[h].new # None
    BY <1>1, <1>2, <1>4 DEF Types, Tables
  <2>q. QED
    BY <2>1, <2>2 DEF Types, Tables
<1>6. Holders'
  <2>1. \A h \in Goals : Held(goal[h])'
    BY <1>2, <1>4 DEF Types, Holders, Held
  <2>2. Held(challenge)' /\ Held(report)' /\ (\A u \in Users : Held(member[u])') /\ \A k \in Badges \X Users : Held(grant[k])'
    BY DEF Types, Holders, Held
  <2>q. QED
    BY <2>1, <2>2 DEF Types, Holders
<1>7. Fresh'
  BY <1>1, <1>2, <1>4 DEF Types, Fresh, Ended
<1>8. \A h \in Goals, c \in Calls : Sees(goal[h], c) # None => Sees(goal'[h], c) # None
  <2> SUFFICES ASSUME NEW h \in Goals, NEW c \in Calls, Sees(goal[h], c) # None
               PROVE  Sees(goal'[h], c) # None
    OBVIOUS
  <2>1. c # None
    BY ChallengeAssumption
  <2>q. QED
    BY <1>1, <1>2, <1>4, <2>1 DEF Sees
<1>9. Evaluable'
  <2> SUFFICES ASSUME NEW d \in Calls, NEW i \in 1..Len(plan[d]), plan[d][i].op = "evaluate"
               PROVE  Sees(goal'[plan[d][i].on[1]], d) # None
    BY DEF Evaluable
  <2>1. plan[d] \in Seq(Steps)
    BY DEF Types, Plans
  <2>2. plan[d][i] \in Steps
    BY <2>1, ElementOfSeq
  <2>3. plan[d][i].on \in Goals \X GoalStates
    BY <2>2 DEF Steps, Typed
  <2>4. plan[d][i].on[1] \in Goals /\ Sees(goal[plan[d][i].on[1]], d) # None
    BY <2>3 DEF Types, Evaluable
  <2>q. QED
    BY <1>8, <2>4
<1>10. Plans' /\ Others'
  BY DEF Types, Plans, Others
<1>11. \A h \in Goals : goal[h].now # None => goal'[h].now # None
  BY <1>1, <1>2, <1>4
<1>q. QED
  BY <1>5, <1>6, <1>7, <1>8, <1>9, <1>10, <1>11 DEF Types

LEMMA HostEvaluates ==
  ASSUME Types, NEW g \in Goals, EvaluateAlone(g)
  PROVE  \E r \in GoalRow : goal' = [goal EXCEPT ![g] = Stored(r)]
<1>1. PICK v \in Values :
        goal' = [goal EXCEPT ![g] = Stored(Evaluated(@.now, @.now.state, v))]
  BY DEF EvaluateAlone
<1>2. goal[g].now \in GoalRow /\ goal[g].now.state \in {"draft", "inprogress"}
  BY DEF EvaluateAlone, Types, Tables, Rows
<1> DEFINE row == goal[g].now
           r == Evaluated(row, row.state, v)
<1>3. r # None
  <2> DEFINE z == [row EXCEPT !.current = v,
                              !.state = IF v >= Target THEN "reached"
                                        ELSE IF row.state = "draft" THEN "inprogress" ELSE row.state]
  <2>1. r = z
    BY <1>2 DEF Evaluated
  <2>2. z \in GoalRow
    <3>1. v \in Nat
      BY ChallengeAssumption
    <3> DEFINE st == IF v >= Target THEN "reached"
                     ELSE IF row.state = "draft" THEN "inprogress" ELSE row.state
    <3>2. st \in GoalStates
      BY <1>2 DEF GoalStates
    <3>3. row \in GoalRow
      BY <1>2
    <3> HIDE DEF st, row
    <3>4. [row EXCEPT !.current = v, !.state = st] \in GoalRow
      BY <3>1, <3>2, <3>3 DEF GoalRow, GoalStates
    <3>q. QED
      BY <3>4 DEF st
  <2> HIDE DEF z
  <2>q. QED
    BY <2>1, <2>2, NoneIsNoRow
<1>4. r \in GoalRow
  BY <1>2, <1>3, EvaluatedType
<1>q. QED
  BY <1>1, <1>4

LEMMA HostCancels ==
  ASSUME Types, NEW g \in Goals, CancelAlone(g)
  PROVE  \E r \in GoalRow : goal' = [goal EXCEPT ![g] = Stored(r)]
<1>1. goal[g].now \in GoalRow
  BY DEF CancelAlone, Types, Tables, Rows
<1>2. [goal[g].now EXCEPT !.state = "canceled"] \in GoalRow
  BY <1>1 DEF GoalRow, GoalStates
<1>3. goal' = [goal EXCEPT ![g] = Stored([goal[g].now EXCEPT !.state = "canceled"])]
  BY DEF CancelAlone
<1>q. QED
  BY <1>2, <1>3

-----------------------------------------------------------------------------
Quietly(c) ==
  \/ ReadRules(c) \/ ReadBefore(c) \/ Sweep(c) \/ ReadGoals(c) \/ Evaluate(c)
  \/ Fail(c) \/ ReadPodium(c) \/ ReadRealtime(c) \/ Grant(c) \/ Check(c)
  \/ StampReport(c)

LEMMA QuietStatement ==
  ASSUME Types, NEW c \in Calls, Quietly(c)
  PROVE  Types' /\ Quiet(c)
<1>1. CASE ReadRules(c)
  BY <1>1, RulesRead
<1>2. CASE ReadBefore(c)
  BY <1>2, BeforeRead
<1>3. CASE Sweep(c)
  BY <1>3, Swept1
<1>4. CASE ReadGoals(c)
  BY <1>4, GoalsRead
<1>5. CASE Evaluate(c)
  BY <1>5, Evaluates
<1>6. CASE Fail(c)
  BY <1>6, Failed
<1>7. CASE ReadPodium(c)
  BY <1>7, PodiumRead
<1>8. CASE ReadRealtime(c)
  BY <1>8, RealtimeRead
<1>9. CASE Grant(c)
  BY <1>9, Granted
<1>10. CASE Check(c)
  BY <1>10, Checked
<1>11. CASE StampReport(c)
  BY <1>11, Stamped
<1>q. QED
  BY <1>1, <1>2, <1>3, <1>4, <1>5, <1>6, <1>7, <1>8, <1>9, <1>10, <1>11 DEF Quietly

(* The steps of the specification, one CASE each.                           *)
LEMMA StepCases ==
  ASSUME [Next]_vars
  PROVE  \/ UNCHANGED vars \/ NextDay \/ RulesChange
         \/ \E c \in Calls : Find(c) \/ Claim(c) \/ PassOver(c)
         \/ \E c \in Calls : Quietly(c)
         \/ \E c \in Calls : Join(c) \/ Retire(c) \/ ReadMembers(c) \/ Look(c) \/ Insert(c)
         \/ \E c \in Calls : Move(c)
         \/ \E c \in Calls : Commit(c) \/ Rollback(c)
         \/ \E g \in Goals : EvaluateAlone(g) \/ CancelAlone(g)
  BY DEF Next, Statement, Quietly

LEMMA TypesInit == Init => Types
<1> SUFFICES ASSUME Init PROVE Types
  OBVIOUS
<1>1. \A c \in Calls : <<Do(c.verb)>> \in Seq(Steps) /\ Len(<<Do(c.verb)>>) = 1
                       /\ <<Do(c.verb)>>[1].op \in Verbs
  <2> SUFFICES ASSUME NEW c \in Calls
               PROVE  <<Do(c.verb)>> \in Seq(Steps) /\ Len(<<Do(c.verb)>>) = 1
                      /\ <<Do(c.verb)>>[1].op \in Verbs
    OBVIOUS
  <2>1. c.verb \in Verbs
    BY ChallengeAssumption
  <2>2. Do(c.verb) \in Steps /\ Do(c.verb).op \in Verbs
    BY <2>1 DEF Do, Steps, Typed, Ops, Verbs, Args
  <2>q. QED
    BY <2>2
<1>2. plan \in [Calls -> Seq(Steps)] /\ \A c \in Calls : plan[c] = <<Do(c.verb)>>
  BY <1>1 DEF Init
<1>3. Plans
  BY <1>2 DEF Plans
<1>4. Evaluable
  <2> SUFFICES ASSUME NEW c \in Calls, NEW i \in 1..Len(plan[c]), plan[c][i].op = "evaluate"
               PROVE  FALSE
    BY DEF Evaluable
  <2>1. i = 1 /\ plan[c][1].op \in Verbs
    BY <1>1, <1>2
  <2>q. QED
    BY <2>1 DEF Verbs
<1>5. Tables /\ Holders /\ Fresh
  <2>1. challenge = [now |-> "draft", new |-> "draft", by |-> None]
    BY DEF Init, Stored
  <2>r. report = [now |-> None, new |-> None, by |-> None]
    BY DEF Init, Stored
  <2>2. member = [u \in Users |-> [now |-> FALSE, new |-> FALSE, by |-> None]]
    BY DEF Init, Stored
  <2>3. goal = [g \in Goals |-> [now |-> None, new |-> None, by |-> None]]
    BY DEF Init, Stored
  <2>4. grant = [k \in Badges \X Users |-> [now |-> FALSE, new |-> FALSE, by |-> None]]
    BY DEF Init, Stored
  <2>5. Tables
    BY <2>1, <2>r, <2>2, <2>3, <2>4 DEF Tables, Rows, States
  <2>6. Holders
    <3>1. Held(challenge) /\ Held(report) /\ \A u \in Users : Held(member[u])
      BY <2>1, <2>r, <2>2 DEF Held
    <3>2. (\A g \in Goals : Held(goal[g])) /\ \A k \in Badges \X Users : Held(grant[k])
      BY <2>3, <2>4 DEF Held
    <3>q. QED
      BY <3>1, <3>2 DEF Holders, Init
  <2>7. Fresh
    BY <2>3 DEF Fresh
  <2>q. QED
    BY <2>5, <2>6, <2>7
<1>6. Others
  BY ChallengeAssumption DEF Init, Others
<1>q. QED
  BY <1>3, <1>4, <1>5, <1>6 DEF Types

LEMMA TypesNext == Types /\ [Next]_vars => Types'
<1> SUFFICES ASSUME Types, [Next]_vars PROVE Types'
  OBVIOUS
<1>1. ASSUME UNCHANGED <<challenge, report, member, goal, grant, share, plan>>, Others' PROVE Types'
  <2>1. Plans' /\ Evaluable' /\ Tables' /\ Fresh'
    BY <1>1 DEF Types, Plans, Evaluable, Tables, Fresh, Ended
  <2>2. Holders'
    BY <1>1 DEF Types, Holders, Held
  <2>q. QED
    BY <1>1, <2>1, <2>2 DEF Types
<1>2. CASE UNCHANGED vars
  <2>1. Others'
    BY <1>2 DEF vars, Types, Others
  <2>q. QED
    BY <1>1, <1>2, <2>1 DEF vars, tables
<1>3. CASE NextDay
  <2>1. Others'
    BY <1>3, ChallengeAssumption DEF NextDay, Types, Others
  <2>q. QED
    BY <1>1, <1>3, <2>1 DEF NextDay, tables
<1>4. CASE RulesChange
  <2>1. Others'
    BY <1>4 DEF RulesChange, Types, Others
  <2>q. QED
    BY <1>1, <1>4, <2>1 DEF RulesChange, tables
<1>5. CASE \E c \in Calls : Find(c) \/ Claim(c) \/ PassOver(c)
  BY <1>5, Finds, Claims, PassesOver
<1>6. CASE \E c \in Calls : Quietly(c)
  BY <1>6, QuietStatement
<1>7. CASE \E c \in Calls : Join(c) \/ Retire(c) \/ ReadMembers(c) \/ Look(c) \/ Insert(c)
  BY <1>7, Joined, Retired, MembersRead, Looked, Inserted
<1>8. CASE \E c \in Calls : Move(c)
  BY <1>8, Moved
<1>9. CASE \E c \in Calls : Commit(c) \/ Rollback(c)
  BY <1>9, Commits, RollsBack
<1>10. CASE \E g \in Goals : EvaluateAlone(g) \/ CancelAlone(g)
  <2>1. PICK g \in Goals : EvaluateAlone(g) \/ CancelAlone(g)
    BY <1>10
  <2>2. /\ goal[g].by = None /\ goal[g].now # None
        /\ UNCHANGED <<day, rules, challenge, report, member, grant, share, plan, today, target, before, closings>>
    BY <2>1 DEF EvaluateAlone, CancelAlone
  <2>3. \E r \in GoalRow : goal' = [goal EXCEPT ![g] = Stored(r)]
    BY <2>1, HostEvaluates, HostCancels
  <2>q. QED
    BY <2>2, <2>3, HostWrites
<1>q. QED
  BY <1>2, <1>3, <1>4, <1>5, <1>6, <1>7, <1>8, <1>9, <1>10, StepCases

LEMMA TypesCorrect == Spec => []Types
<1>1. Init => Types
  BY TypesInit
<1>2. Types /\ [Next]_vars => Types'
  BY TypesNext
<1>q. QED
  BY <1>1, <1>2, PTL DEF Spec

(* The types hold and every uncommitted row belongs to an open transaction, *)
(* for any calls, users, lines, rules, badges and calendar.                 *)
THEOREM TypeCorrect == Spec => []TypeOK
<1>1. Types => TypeOK
  <2> SUFFICES ASSUME Types PROVE TypeOK
    OBVIOUS
  <2>1. \A c \in Calls : Good(plan[c]) => ~Ended(c)
    BY DEF Good, Ended
  <2>2. ASSUME NEW V, NEW v \in Rows(V), Held(v) PROVE Version(v, V)
    BY <2>1, <2>2 DEF Rows, Held, Version
  <2>3. Version(challenge, {"draft", "inprogress", "done"})
    BY <2>2 DEF Types, Tables, Holders, States
  <2>r. Version(report, Nat \cup {None})
    BY <2>2 DEF Types, Tables, Holders
  <2>4. \A u \in Users : Version(member[u], BOOLEAN)
    <3> SUFFICES ASSUME NEW u \in Users PROVE Version(member[u], BOOLEAN)
      OBVIOUS
    <3>1. member[u] \in Rows(BOOLEAN) /\ Held(member[u])
      BY DEF Types, Tables, Holders
    <3>q. QED
      BY <2>2, <3>1
  <2>5. \A g \in Goals : Version(goal[g], GoalRow \cup {None})
    <3> SUFFICES ASSUME NEW g \in Goals PROVE Version(goal[g], GoalRow \cup {None})
      OBVIOUS
    <3>1. goal[g] \in Rows(GoalRow \cup {None}) /\ Held(goal[g])
      BY DEF Types, Tables, Holders
    <3>q. QED
      BY <2>2, <3>1
  <2>6. \A k \in Badges \X Users : Version(grant[k], BOOLEAN)
    <3> SUFFICES ASSUME NEW k \in Badges \X Users PROVE Version(grant[k], BOOLEAN)
      OBVIOUS
    <3>1. grant[k] \in Rows(BOOLEAN) /\ Held(grant[k])
      BY DEF Types, Tables, Holders
    <3>q. QED
      BY <2>2, <3>1
  <2>7. share \in SUBSET {c \in Calls : ~Ended(c)}
    BY <2>1 DEF Types, Holders
  <2>8. \A c \in Calls : \A i \in DOMAIN plan[c] : plan[c][i].op \in Ops
    <3> SUFFICES ASSUME NEW c \in Calls, NEW i \in DOMAIN plan[c] PROVE plan[c][i].op \in Ops
      OBVIOUS
    <3>1. plan[c] \in Seq(Steps)
      BY DEF Types, Plans
    <3>2. plan[c][i] \in Steps
      BY <3>1, LenProperties, ElementOfSeq
    <3>q. QED
      BY <3>2 DEF Steps
  <2>q. QED
    BY <2>3, <2>r, <2>4, <2>5, <2>6, <2>7, <2>8 DEF Types, Others, TypeOK
<1>q. QED
  BY <1>1, TypesCorrect, PTL

-----------------------------------------------------------------------------
(* The state machine.                                                       *)

(* The moves that one transaction makes of the committed state.             *)
Moves == Declared \cup {<<"draft", "done">>}

(* An open transaction has either not moved the challenge, or has moved it  *)
(* by the machine and can only close it.                                    *)
MovesByMachine ==
  \A c \in Calls : challenge.by = c =>
    \/ challenge.new = challenge.now
    \/ <<challenge.now, challenge.new>> \in Moves /\ Closing(plan[c])

MachineInv == Types /\ MovesByMachine

LEMMA ClosingStays ==
  ASSUME NEW c \in Calls, NEW s \in Seq(Inner), Stepped(c, s), Closing(plan[c])
  PROVE  Closing(plan'[c])
<1> SUFFICES ASSUME NEW i \in 1..Len(plan'[c]), plan'[c][i].op = "move"
             PROVE  plan'[c][i].on = "done"
  BY DEF Closing
<1>1. CASE i \in 1..Len(s) /\ plan'[c][i] = s[i]
  <2>1. s[i] \in Inner
    BY <1>1, ElementOfSeq
  <2>q. QED
    BY <1>1, <2>1 DEF Inner
<1>2. CASE \E k \in 2..Len(plan[c]) : plan'[c][i] = plan[c][k]
  BY <1>2 DEF Closing
<1>q. QED
  BY <1>1, <1>2 DEF Stepped

LEMMA MachineSteps ==
  ASSUME MachineInv, NEW c \in Calls, NEW s \in Seq(Inner), Stepped(c, s), challenge' = challenge
  PROVE  MovesByMachine'
<1> SUFFICES ASSUME NEW d \in Calls, challenge.by = d
             PROVE  \/ challenge.new = challenge.now
                    \/ <<challenge.now, challenge.new>> \in Moves /\ Closing(plan'[d])
  BY DEF MovesByMachine
<1>1. CASE d = c
  BY <1>1, ClosingStays DEF MachineInv, MovesByMachine
<1>2. CASE d # c
  BY <1>2 DEF MachineInv, MovesByMachine, Stepped
<1>q. QED
  BY <1>1, <1>2

LEMMA MachineMoves ==
  ASSUME MachineInv, NEW c \in Calls, Move(c)
  PROVE  MovesByMachine' /\ challenge'.now = challenge.now
<1>1. /\ Stepped(c, <<>>) /\ Good(plan[c]) /\ plan[c][1].op = "move"
      /\ Arg(c) = plan[c][1].on /\ Arg(c) \in States
  BY Moved DEF MachineInv, Stepped
<1>2. 1 \in 1..Len(plan[c]) /\ plan[c] \in Seq(Steps)
  BY <1>1, EmptySeq DEF Good
<1>3. Closing(plan'[c])
  <2> SUFFICES ASSUME NEW i \in 1..Len(plan'[c]), plan'[c][i].op = "move"
               PROVE  plan'[c][i].on = "done"
    BY DEF Closing
  <2>1. PICK k \in 2..Len(plan[c]) : plan'[c][i] = plan[c][k]
    BY <1>1, EmptyIsInner DEF Stepped
  <2>2. k \in 1..Len(plan[c]) /\ 1 < k
    BY <1>2
  <2>q. QED
    BY <1>1, <1>2, <2>1, <2>2 DEF Good
<1>4. Closing(plan[c]) => Arg(c) = "done"
  BY <1>1, <1>2 DEF Closing
<1>5. challenge \in Rows(States) /\ Held(challenge) /\ None \notin Calls
  BY ChallengeAssumption DEF MachineInv, Types, Tables, Holders
<1>6. challenge' = Put(challenge, c, Arg(c))
  BY DEF Move
<1>7. challenge'.now = challenge.now /\ challenge'.new = Arg(c) /\ challenge'.by = c
  BY <1>1, <1>5, <1>6, RowPut
<1>8. challenge.new = Arg(c) \/ <<challenge.new, Arg(c)>> \in Declared
  <2>1. challenge.by \in {None, c}
    BY DEF Move, Free
  <2>2. Sees(challenge, c) = challenge.new
    BY <1>5, <2>1 DEF Sees, Held
  <2>q. QED
    BY <2>2 DEF Move
<1>9. \/ challenge.new = challenge.now
      \/ <<challenge.now, challenge.new>> \in Moves /\ Closing(plan[c])
  <2>1. CASE challenge.by = None
    BY <1>5, <2>1 DEF Held
  <2>2. CASE challenge.by = c
    BY <2>2 DEF MachineInv, MovesByMachine
  <2>q. QED
    BY <2>1, <2>2 DEF Move, Free
<1>10. Arg(c) = challenge.now \/ <<challenge.now, Arg(c)>> \in Moves
  <2>1. CASE challenge.new = challenge.now
    BY <1>8, <2>1 DEF Moves
  <2>2. CASE <<challenge.now, challenge.new>> \in Moves /\ Closing(plan[c])
    <3>1. Arg(c) = "done"
      BY <1>4, <2>2
    <3>2. CASE challenge.new = Arg(c)
      BY <2>2, <3>2
    <3>3. CASE <<challenge.new, Arg(c)>> \in Declared
      <4>1. challenge.new = "inprogress"
        BY <3>1, <3>3 DEF Declared
      <4>2. challenge.now = "draft"
        BY <2>2, <4>1 DEF Moves, Declared
      <4>q. QED
        BY <3>1, <4>2 DEF Moves
    <3>q. QED
      BY <1>8, <3>2, <3>3
  <2>q. QED
    BY <1>9, <2>1, <2>2
<1>q. QED
  BY <1>3, <1>7, <1>10 DEF MovesByMachine

(* A committed state changes by a move of the machine.                      *)
LEMMA MachineNext ==
  MachineInv /\ [Next]_vars =>
    /\ MovesByMachine'
    /\ challenge'.now = challenge.now \/ <<challenge.now, challenge'.now>> \in Moves
<1> SUFFICES ASSUME MachineInv, [Next]_vars
             PROVE  /\ MovesByMachine'
                    /\ challenge'.now = challenge.now \/ <<challenge.now, challenge'.now>> \in Moves
  OBVIOUS
<1>t. Types /\ None \notin Calls
  BY ChallengeAssumption DEF MachineInv
<1>1. ASSUME challenge' = challenge, plan' = plan
      PROVE  MovesByMachine'
  BY <1>1 DEF MachineInv, MovesByMachine
<1>2. CASE UNCHANGED vars
  BY <1>1, <1>2 DEF vars, tables
<1>3. CASE NextDay
  BY <1>1, <1>3 DEF NextDay, tables
<1>4. CASE RulesChange
  BY <1>1, <1>4 DEF RulesChange, tables
<1>5. CASE \E c \in Calls : Find(c) \/ Claim(c) \/ PassOver(c)
  <2>1. PICK c \in Calls : Find(c) \/ Claim(c) \/ PassOver(c)
    BY <1>5
  <2>2. ~Good(plan[c]) /\ challenge.by # c
    <3>1. ~Good(plan[c])
      BY <1>t, <2>1, Finds, Claims, PassesOver
    <3>q. QED
      BY <1>t, <3>1 DEF Types, Holders, Held
  <2>3. \A d \in Calls \ {c} : plan'[d] = plan[d]
    <3>1. \E p : plan' = [plan EXCEPT ![c] = p]
      BY <2>1 DEF Find, Claim, PassOver, Done, Instead
    <3>q. QED
      BY <1>t, <3>1 DEF Types, Plans
  <2>4. CASE challenge' = challenge
    BY <2>2, <2>3, <2>4 DEF MachineInv, MovesByMachine
  <2>5. CASE challenge' = Put(challenge, c, challenge.now)
    <3>1. challenge'.new = challenge.now /\ challenge'.now = challenge.now
      BY <1>t, <2>5, RowPut DEF Types, Tables, Rows
    <3>q. QED
      BY <3>1 DEF MovesByMachine
  <2>6. challenge' = challenge \/ challenge' = Put(challenge, c, challenge.now)
    BY <2>1 DEF Find, Claim, PassOver, tables
  <2>7. challenge'.now = challenge.now
    BY <1>t, <2>6, RowPut DEF Types, Tables, Rows
  <2>q. QED
    BY <2>4, <2>5, <2>6, <2>7
<1>6. CASE \E c \in Calls : Quietly(c)
  <2>1. PICK c \in Calls : Quiet(c)
    BY <1>t, <1>6, QuietStatement
  <2>q. QED
    BY <2>1, MachineSteps DEF Quiet
<1>7. CASE \E c \in Calls : Join(c) \/ Retire(c) \/ ReadMembers(c) \/ Look(c) \/ Insert(c)
  <2>1. PICK c \in Calls : Join(c) \/ Retire(c) \/ ReadMembers(c) \/ Look(c) \/ Insert(c)
    BY <1>7
  <2>2. challenge' = challenge /\ \E s \in Seq(Inner) : Stepped(c, s)
    <3>1. CASE Join(c)
      BY <1>t, <3>1, Joined, EmptyIsInner
    <3>2. CASE Retire(c)
      BY <1>t, <3>2, Retired, EmptyIsInner
    <3>3. CASE ReadMembers(c)
      BY <1>t, <3>3, MembersRead DEF tables
    <3>4. CASE Look(c)
      BY <1>t, <3>4, Looked, EmptyIsInner DEF tables
    <3>5. CASE Insert(c)
      BY <1>t, <3>5, Inserted, EmptyIsInner
    <3>q. QED
      BY <2>1, <3>1, <3>2, <3>3, <3>4, <3>5
  <2>q. QED
    BY <2>2, MachineSteps
<1>8. CASE \E c \in Calls : Move(c)
  BY <1>8, MachineMoves
<1>9. CASE \E c \in Calls : Commit(c) \/ Rollback(c)
  <2>1. PICK c \in Calls, keep \in BOOLEAN : Good(plan[c]) /\ End(c, keep)
    BY <1>t, <1>9, Commits, RollsBack
  <2>2. \A d \in Calls \ {c} : plan'[d] = plan[d]
    BY <1>t, <2>1, Ends
  <2>3. challenge' = Settled(challenge, c, keep) /\ challenge \in Rows(States)
    BY <1>t, <2>1 DEF End, Types, Tables
  <2>4. CASE challenge.by = c
    <3>1. /\ challenge'.by = None
          /\ challenge'.now = IF keep THEN challenge.new ELSE challenge.now
      BY <2>3, <2>4, RowSettled
    <3>2. MovesByMachine'
      BY <1>t, <3>1 DEF MovesByMachine
    <3>q. QED
      BY <2>4, <3>1, <3>2 DEF MachineInv, MovesByMachine
  <2>5. CASE challenge.by # c
    <3>1. challenge' = challenge
      BY <2>3, <2>5, RowSettled
    <3>q. QED
      BY <2>2, <2>5, <3>1 DEF MachineInv, MovesByMachine
  <2>q. QED
    BY <2>4, <2>5
<1>10. CASE \E g \in Goals : EvaluateAlone(g) \/ CancelAlone(g)
  BY <1>1, <1>10 DEF EvaluateAlone, CancelAlone
<1>q. QED
  BY <1>2, <1>3, <1>4, <1>5, <1>6, <1>7, <1>8, <1>9, <1>10, StepCases

(* start, close, reset and the daily check move a committed challenge only  *)
(* as the declared machine does, however many of them overlap.              *)
THEOREM ChallengesFollowTheMachine == Spec => FollowsTheMachine
<1>1. Init => MachineInv
  <2>1. Init => MovesByMachine
    BY DEF Init, Stored, MovesByMachine
  <2>q. QED
    BY <2>1, TypesInit DEF MachineInv
<1>2. MachineInv /\ [Next]_vars => MachineInv'
  BY TypesNext, MachineNext DEF MachineInv
<1>3. Init => Machine!MachineInit
  BY DEF Init, Stored, Machine!MachineInit
<1>4. MachineInv /\ [Next]_vars => [Machine!Transition]_(challenge.now)
  <2> SUFFICES ASSUME <<challenge.now, challenge'.now>> \in Moves
               PROVE  Machine!Transition
    BY MachineNext
  <2>q. QED
    BY DEF Moves, Declared, Machine!Transition, Machine!target_state
<1>q. QED
  BY <1>1, <1>2, <1>3, <1>4, PTL DEF Spec, FollowsTheMachine, Machine!MachineSpec

-----------------------------------------------------------------------------
(* Members and their goals.                                                 *)

(* A call that made u a member has yet to read the members, or holds the    *)
(* statement that looks for u's goal on l or inserts it, or sees one.       *)
Pending(c, l, u) ==
  \/ \E i \in 1..Len(plan[c]) : plan[c][i].op = "members"
  \/ \E i \in 1..Len(plan[c]) : plan[c][i].op \in {"look", "insert"} /\ plan[c][i].on = <<l, u>>
  \/ \E d \in Calls : Sees(goal[<<d, l, u>>], c) # None

Joiners ==
  \A u \in Users, l \in Lines, c \in Calls :
    member[u].by = c /\ member[u].new => Pending(c, l, u)

MembersInv == Types /\ Joiners /\ MembersHaveGoals

(* A statement of c leaves pending what its first statement is not about.   *)
LEMMA PendingStays ==
  ASSUME Types, NEW c \in Calls, NEW s \in Seq(Inner), Stepped(c, s), GoalWrites(c),
         NEW d \in Calls, NEW l \in Lines, NEW u \in Users, Pending(d, l, u),
         d # c \/ (/\ plan[c][1].op # "members"
                   /\ plan[c][1].op \in {"look", "insert"} => plan[c][1].on # <<l, u>>)
  PROVE  Pending(d, l, u)'
<1>1. CASE \E e \in Calls : Sees(goal[<<e, l, u>>], d) # None
  <2>1. PICK e \in Calls : Sees(goal[<<e, l, u>>], d) # None
    BY <1>1
  <2>2. <<e, l, u>> \in Goals
    BY DEF Goals
  <2>3. Sees(goal'[<<e, l, u>>], d) # None
    BY <2>1, <2>2, SeenStaysSeen DEF Types
  <2>q. QED
    BY <2>3 DEF Pending
<1>2. CASE d # c
  <2>1. plan'[d] = plan[d]
    BY <1>2 DEF Stepped
  <2>q. QED
    BY <1>1, <2>1 DEF Pending
<1>3. ASSUME d = c, NEW i \in 1..Len(plan[c]),
             \/ plan[c][i].op = "members"
             \/ plan[c][i].op \in {"look", "insert"} /\ plan[c][i].on = <<l, u>>
      PROVE  Pending(d, l, u)'
  <2>1. plan[c] \in Seq(Steps)
    BY DEF Types, Plans
  <2>2. i # 1
    BY <1>3
  <2>3. i \in 2..Len(plan[c])
    BY <2>1, <2>2, LenProperties
  <2>4. PICK k \in 1..Len(plan'[c]) : plan'[c][k] = plan[c][i]
    BY <2>3 DEF Stepped
  <2>q. QED
    BY <1>3, <2>4 DEF Pending
<1>q. QED
  BY <1>1, <1>2, <1>3 DEF Pending

(* Statements that make nobody a member.                                    *)
LEMMA MembersKept ==
  ASSUME MembersInv, NEW c \in Calls, NEW s \in Seq(Inner), Stepped(c, s), GoalWrites(c),
         plan[c][1].op \notin {"members", "look", "insert"},
         \A u \in Users : \/ member'[u] = member[u]
                          \/ /\ member'[u].by = c /\ member'[u].now = member[u].now
                             /\ \/ ~member'[u].new
                                \/ \A l \in Lines : Pending(c, l, u)'
  PROVE  Joiners' /\ MembersHaveGoals'
<1>1. ASSUME NEW u \in Users, NEW l \in Lines, NEW d \in Calls, member'[u].by = d, member'[u].new
      PROVE  Pending(d, l, u)'
  <2>1. CASE member'[u] = member[u]
    <3>1. Pending(d, l, u)
      BY <1>1, <2>1 DEF MembersInv, Joiners
    <3>q. QED
      BY <3>1, PendingStays DEF MembersInv
  <2>2. CASE member'[u] # member[u]
    BY <1>1, <2>2
  <2>q. QED
    BY <2>1, <2>2
<1>2. Joiners'
  BY <1>1 DEF Joiners
<1>3. ASSUME NEW u \in Users, member'[u].now, NEW l \in Lines
      PROVE  \E d \in Calls : goal'[<<d, l, u>>].now # None
  <2>1. member[u].now
    BY <1>3
  <2>2. PICK d \in Calls : goal[<<d, l, u>>].now # None
    BY <2>1 DEF MembersInv, MembersHaveGoals
  <2>3. <<d, l, u>> \in Goals
    BY DEF Goals
  <2>4. goal'[<<d, l, u>>].now = goal[<<d, l, u>>].now
    BY <2>3 DEF GoalWrites
  <2>q. QED
    BY <2>2, <2>4
<1>4. MembersHaveGoals'
  BY <1>3 DEF MembersHaveGoals
<1>q. QED
  BY <1>2, <1>4

(* Whoever joins is read as a member later on.                              *)
LEMMA JoinKeepsMembers ==
  ASSUME MembersInv, NEW c \in Calls, Join(c)
  PROVE  Joiners' /\ MembersHaveGoals'
<1>1. /\ Types /\ Stepped(c, <<>>) /\ plan[c][1].op = "join" /\ goal' = goal
      /\ \A u \in Users : \/ member'[u] = member[u]
                          \/ member'[u].by = c /\ member'[u].now = member[u].now
  BY Joined DEF MembersInv
<1>2. \E i \in 1..Len(plan'[c]) : plan'[c][i].op = "members"
  <2>1. Good(plan[c])
    BY <1>1 DEF Stepped
  <2>2. plan[c] \in Seq(Steps) /\ 1 \in 1..Len(plan[c])
    BY <2>1, EmptySeq DEF Good
  <2>3. PICK j \in (1 + 1)..Len(plan[c]) : plan[c][j].op = "members"
    BY <1>1, <2>1, <2>2 DEF Good, Joining
  <2>4. j \in 2..Len(plan[c])
    BY <2>2, <2>3
  <2>5. Stepped(c, <<>>)
    BY <1>1
  <2>6. PICK i \in 1..Len(plan'[c]) : plan'[c][i] = plan[c][j]
    BY <2>4, <2>5 DEF Stepped
  <2>q. QED
    BY <2>3, <2>6
<1>3. \A u \in Users, l \in Lines : Pending(c, l, u)'
  BY <1>2 DEF Pending
<1>4. GoalWrites(c)
  BY <1>1 DEF GoalWrites
<1>q. QED
  BY <1>1, <1>3, <1>4, EmptyIsInner, MembersKept

(* Every member the call sees gets a statement that looks for a goal.       *)
LEMMA ReadKeepsMembers ==
  ASSUME MembersInv, NEW c \in Calls, ReadMembers(c)
  PROVE  Joiners' /\ MembersHaveGoals'
<1>1. /\ Types /\ challenge' = challenge /\ member' = member /\ goal' = goal
  BY MembersRead DEF MembersInv, tables
<1>2. PICK s \in Seq(Inner) :
        /\ Stepped(c, s)
        /\ \A u \in Users, l \in Lines : Sees(member[u], c) =>
             \E i \in 1..Len(s) : s[i] = On("look", <<l, u>>)
  BY MembersRead DEF MembersInv
<1>3. GoalWrites(c)
  BY <1>1 DEF GoalWrites
<1>4. ASSUME NEW u \in Users, NEW l \in Lines, NEW d \in Calls, member[u].by = d, member[u].new
      PROVE  Pending(d, l, u)'
  <2>1. Pending(d, l, u)
    BY <1>4 DEF MembersInv, Joiners
  <2>2. CASE d # c
    BY <1>1, <1>2, <1>3, <2>1, <2>2, PendingStays
  <2>3. CASE d = c
    <3>1. Sees(member[u], c)
      BY <1>4, <2>3 DEF Sees
    <3>2. PICK i \in 1..Len(s) : s[i] = On("look", <<l, u>>)
      BY <1>2, <3>1
    <3>3. i \in 1..Len(plan'[c]) /\ plan'[c][i] = On("look", <<l, u>>)
      BY <1>2, <3>2 DEF Stepped
    <3>4. plan'[c][i].op = "look" /\ plan'[c][i].on = <<l, u>>
      BY <3>3 DEF On
    <3>q. QED
      BY <2>3, <3>3, <3>4 DEF Pending
  <2>q. QED
    BY <2>2, <2>3
<1>5. Joiners'
  BY <1>1, <1>4 DEF Joiners
<1>q. QED
  BY <1>1, <1>5 DEF MembersInv, MembersHaveGoals

(* A look ends in a goal that the call sees or in the insert of one.        *)
LEMMA LookKeepsMembers ==
  ASSUME MembersInv, NEW c \in Calls, Look(c)
  PROVE  Joiners' /\ MembersHaveGoals'
<1>1. /\ Types /\ member' = member /\ goal' = goal
      /\ plan[c][1].op = "look" /\ Arg(c) = plan[c][1].on
      /\ \/ /\ Stepped(c, <<>>)
            /\ \E g \in Goals : <<g[2], g[3]>> = Arg(c) /\ Sees(goal[g], c) # None
         \/ Stepped(c, <<On("insert", Arg(c))>>) /\ <<On("insert", Arg(c))>> \in Seq(Inner)
  BY Looked DEF MembersInv, tables
<1>2. PICK s \in Seq(Inner) : Stepped(c, s)
  BY <1>1, EmptyIsInner
<1>3. GoalWrites(c)
  BY <1>1 DEF GoalWrites
<1>4. ASSUME NEW u \in Users, NEW l \in Lines, NEW d \in Calls, member[u].by = d, member[u].new
      PROVE  Pending(d, l, u)'
  <2>1. Pending(d, l, u)
    BY <1>4 DEF MembersInv, Joiners
  <2>2. CASE d # c \/ plan[c][1].on # <<l, u>>
    BY <1>1, <1>2, <1>3, <2>1, <2>2, PendingStays
  <2>3. CASE d = c /\ plan[c][1].on = <<l, u>>
    <3>1. CASE \E g \in Goals : <<g[2], g[3]>> = Arg(c) /\ Sees(goal[g], c) # None
      <4>1. PICK g \in Goals : <<g[2], g[3]>> = Arg(c) /\ Sees(goal[g], c) # None
        BY <3>1
      <4>2. PICK e \in Calls, m \in Lines, v \in Users : g = <<e, m, v>>
        BY DEF Goals
      <4>3. <<m, v>> = <<l, u>>
        BY <1>1, <2>3, <4>1, <4>2
      <4>4. m = l /\ v = u
        BY <4>3
      <4>5. Sees(goal'[<<e, l, u>>], d) # None
        BY <1>1, <2>3, <4>1, <4>2, <4>4
      <4>q. QED
        BY <4>5 DEF Pending
    <3>2. CASE Stepped(c, <<On("insert", Arg(c))>>)
      <4> DEFINE t == <<On("insert", Arg(c))>>
      <4>1. Len(t) = 1 /\ t[1].op = "insert" /\ t[1].on = Arg(c)
        BY DEF On
      <4> HIDE DEF t
      <4>2. 1 \in 1..Len(t) /\ Stepped(c, t)
        BY <3>2, <4>1 DEF t
      <4>3. 1 \in 1..Len(plan'[c]) /\ plan'[c][1] = t[1]
        BY <4>2 DEF Stepped
      <4>4. plan'[c][1].op = "insert" /\ plan'[c][1].on = <<l, u>>
        BY <1>1, <2>3, <4>1, <4>3
      <4>q. QED
        BY <2>3, <4>3, <4>4 DEF Pending
    <3>q. QED
      BY <1>1, <3>1, <3>2
  <2>q. QED
    BY <2>2, <2>3
<1>5. Joiners'
  BY <1>1, <1>4 DEF Joiners
<1>q. QED
  BY <1>1, <1>5 DEF MembersInv, MembersHaveGoals

LEMMA InsertKeepsMembers ==
  ASSUME MembersInv, NEW c \in Calls, Insert(c)
  PROVE  Joiners' /\ MembersHaveGoals'
<1>1. /\ Types /\ Stepped(c, <<>>) /\ GoalWrites(c) /\ member' = member
      /\ plan[c][1].op = "insert"
      /\ \A u \in Users, l \in Lines : plan[c][1].on = <<l, u>> =>
           Sees(goal'[<<c, l, u>>], c) # None
  BY Inserted DEF MembersInv
<1>2. ASSUME NEW u \in Users, NEW l \in Lines, NEW d \in Calls, member[u].by = d, member[u].new
      PROVE  Pending(d, l, u)'
  <2>1. Pending(d, l, u)
    BY <1>2 DEF MembersInv, Joiners
  <2>2. CASE d # c \/ plan[c][1].on # <<l, u>>
    BY <1>1, <2>1, <2>2, EmptyIsInner, PendingStays
  <2>3. CASE d = c /\ plan[c][1].on = <<l, u>>
    BY <1>1, <2>3 DEF Pending
  <2>q. QED
    BY <2>2, <2>3
<1>3. Joiners'
  BY <1>1, <1>2 DEF Joiners
<1>4. ASSUME NEW u \in Users, member[u].now, NEW l \in Lines
      PROVE  \E d \in Calls : goal'[<<d, l, u>>].now # None
  <2>1. PICK d \in Calls : goal[<<d, l, u>>].now # None
    BY <1>4 DEF MembersInv, MembersHaveGoals
  <2>2. <<d, l, u>> \in Goals
    BY DEF Goals
  <2>3. goal'[<<d, l, u>>].now = goal[<<d, l, u>>].now
    BY <1>1, <2>2 DEF GoalWrites
  <2>q. QED
    BY <2>1, <2>3
<1>5. MembersHaveGoals'
  BY <1>1, <1>4 DEF MembersHaveGoals
<1>q. QED
  BY <1>3, <1>5

(* A commit has nothing pending any more but the goals that it sees.        *)
LEMMA EndKeepsMembers ==
  ASSUME MembersInv, NEW c \in Calls, NEW keep \in BOOLEAN, Good(plan[c]), End(c, keep),
         keep => plan[c][1].op = "commit"
  PROVE  Joiners' /\ MembersHaveGoals'
<1>1. /\ Types /\ plan'[c] = <<>> /\ \A d \in Calls \ {c} : plan'[d] = plan[d]
      /\ None \notin Calls
  BY Ends, ChallengeAssumption DEF MembersInv
<1>2. \A u \in Users : /\ member[u] \in Rows(BOOLEAN)
                       /\ member'[u] = Settled(member[u], c, keep)
  BY <1>1 DEF End, Types, Tables
<1>3. \A u \in Users :
        \/ member'[u] = member[u] /\ member[u].by # c
        \/ /\ member[u].by = c /\ member'[u].by = None
           /\ member'[u].now = IF keep THEN member[u].new ELSE member[u].now
  <2> SUFFICES ASSUME NEW u \in Users
               PROVE  \/ member'[u] = member[u] /\ member[u].by # c
                      \/ /\ member[u].by = c /\ member'[u].by = None
                         /\ member'[u].now = IF keep THEN member[u].new ELSE member[u].now
    OBVIOUS
  <2>1. member[u] \in [now : BOOLEAN, new : BOOLEAN, by : Calls \cup {None}]
    BY <1>2 DEF Rows
  <2>2. member'[u] = IF keep THEN (IF member[u].by = c THEN [now |-> member[u].new, new |-> member[u].new, by |-> None]
                                   ELSE member[u])
                     ELSE (IF member[u].by = c THEN [now |-> member[u].now, new |-> member[u].now, by |-> None]
                           ELSE member[u])
    BY <1>2 DEF Settled, Kept, Undone, Stored
  <2>q. QED
    BY <2>2
<1>4. \A g \in Goals :
        \/ goal'[g] = goal[g] /\ goal[g].by # c
        \/ /\ goal[g].by = c /\ goal'[g].by = None
           /\ goal'[g].now = IF keep THEN goal[g].new ELSE goal[g].now
  <2> SUFFICES ASSUME NEW g \in Goals
               PROVE  \/ goal'[g] = goal[g] /\ goal[g].by # c
                      \/ /\ goal[g].by = c /\ goal'[g].by = None
                         /\ goal'[g].now = IF keep THEN goal[g].new ELSE goal[g].now
    OBVIOUS
  <2>1. goal[g] \in Rows(GoalRow \cup {None}) /\ goal'[g] = Settled(goal[g], c, keep)
    BY <1>1 DEF End, Types, Tables
  <2>q. QED
    BY <2>1, RowSettled
<1>5. \A g \in Goals : goal[g].now # None => goal'[g].now # None
  BY <1>1, <1>4 DEF Types, Tables
<1>6. ASSUME NEW u \in Users, NEW l \in Lines, NEW d \in Calls, member'[u].by = d, member'[u].new
      PROVE  Pending(d, l, u)'
  <2>1. d # c /\ member'[u] = member[u]
    BY <1>1, <1>3, <1>6
  <2>2. Pending(d, l, u)
    BY <1>6, <2>1 DEF MembersInv, Joiners
  <2>3. plan'[d] = plan[d]
    BY <1>1, <2>1
  <2>4. ASSUME NEW e \in Calls, Sees(goal[<<e, l, u>>], d) # None
        PROVE  Sees(goal'[<<e, l, u>>], d) # None
    <3>1. <<e, l, u>> \in Goals
      BY DEF Goals
    <3>2. CASE goal'[<<e, l, u>>] = goal[<<e, l, u>>]
      BY <2>4, <3>2
    <3>3. CASE goal[<<e, l, u>>].by = c /\ goal'[<<e, l, u>>].by = None
      <4>1. goal[<<e, l, u>>].now # None
        BY <2>1, <2>4, <3>3 DEF Sees
      <4>2. goal'[<<e, l, u>>].now # None
        BY <1>5, <3>1, <4>1
      <4>q. QED
        BY <1>1, <3>3, <4>2 DEF Sees
    <3>q. QED
      BY <1>4, <3>1, <3>2, <3>3
  <2>q. QED
    BY <2>2, <2>3, <2>4 DEF Pending
<1>7. ASSUME NEW u \in Users, member'[u].now, NEW l \in Lines
      PROVE  \E d \in Calls : goal'[<<d, l, u>>].now # None
  <2>1. CASE member[u].now
    <3>1. PICK d \in Calls : goal[<<d, l, u>>].now # None
      BY <2>1 DEF MembersInv, MembersHaveGoals
    <3>2. <<d, l, u>> \in Goals
      BY DEF Goals
    <3>q. QED
      BY <1>5, <3>1, <3>2
  <2>2. CASE ~member[u].now
    <3>1. member[u].by = c /\ keep /\ member[u].new
      BY <1>3, <1>7, <2>2
    <3>2. Pending(c, l, u)
      BY <3>1 DEF MembersInv, Joiners
    <3>3. \A i \in 1..Len(plan[c]) : plan[c][i].op = "commit"
      <4>1. plan[c] \in Seq(Steps) /\ Len(plan[c]) \in Nat \ {0}
        BY EmptySeq DEF Good
      <4>2. 1 \in 1..Len(plan[c]) /\ plan[c][1].op = "commit"
        BY <3>1, <4>1
      <4>3. 1 = Len(plan[c])
        BY <4>2 DEF Good
      <4>q. QED
        BY <4>2, <4>3
    <3>4. PICK d \in Calls : Sees(goal[<<d, l, u>>], c) # None
      BY <3>2, <3>3 DEF Pending
    <3>5. <<d, l, u>> \in Goals
      BY DEF Goals
    <3>6. goal'[<<d, l, u>>].now # None
      <4>1. CASE goal[<<d, l, u>>].by = c
        BY <1>4, <3>1, <3>4, <3>5, <4>1 DEF Sees
      <4>2. CASE goal[<<d, l, u>>].by # c
        BY <1>4, <3>4, <3>5, <4>2 DEF Sees
      <4>q. QED
        BY <4>1, <4>2
    <3>q. QED
      BY <3>6
  <2>q. QED
    BY <2>1, <2>2
<1>q. QED
  BY <1>6, <1>7 DEF Joiners, MembersHaveGoals

LEMMA MembersNext == MembersInv /\ [Next]_vars => MembersInv'
<1> SUFFICES ASSUME MembersInv, [Next]_vars PROVE Joiners' /\ MembersHaveGoals'
  BY TypesNext DEF MembersInv
<1>t. Types /\ Types'
  BY TypesNext DEF MembersInv
<1>1. ASSUME member' = member, goal' = goal, plan' = plan
      PROVE  Joiners' /\ MembersHaveGoals'
  BY <1>1 DEF MembersInv, Joiners, Pending, MembersHaveGoals
<1>2. CASE UNCHANGED vars
  BY <1>1, <1>2 DEF vars, tables
<1>3. CASE NextDay
  BY <1>1, <1>3 DEF NextDay, tables
<1>4. CASE RulesChange
  BY <1>1, <1>4 DEF RulesChange, tables
<1>5. CASE \E c \in Calls : Find(c) \/ Claim(c) \/ PassOver(c)
  <2>1. PICK c \in Calls : Find(c) \/ Claim(c) \/ PassOver(c)
    BY <1>5
  <2>2. ~Good(plan[c]) /\ member' = member /\ goal' = goal
    BY <1>t, <2>1, Finds, Claims, PassesOver DEF tables
  <2>3. \A d \in Calls \ {c} : plan'[d] = plan[d]
    <3>1. \E p : plan' = [plan EXCEPT ![c] = p]
      BY <2>1 DEF Find, Claim, PassOver, Done, Instead
    <3>q. QED
      BY <1>t, <3>1 DEF Types, Plans
  <2>4. \A u \in Users : member[u].by # c
    <3> SUFFICES ASSUME NEW u \in Users, member[u].by = c PROVE FALSE
      OBVIOUS
    <3>1. Held(member[u]) /\ None \notin Calls
      BY <1>t, ChallengeAssumption DEF Types, Holders
    <3>q. QED
      BY <2>2, <3>1 DEF Held
  <2>5. Joiners'
    <3> SUFFICES ASSUME NEW u \in Users, NEW l \in Lines, NEW d \in Calls,
                        member[u].by = d, member[u].new
                 PROVE  Pending(d, l, u)'
      BY <2>2 DEF Joiners
    <3>1. d # c /\ Pending(d, l, u)
      BY <2>4 DEF MembersInv, Joiners
    <3>2. plan'[d] = plan[d]
      BY <2>3, <3>1
    <3>q. QED
      BY <2>2, <3>1, <3>2 DEF Pending
  <2>q. QED
    BY <2>2, <2>5 DEF MembersInv, MembersHaveGoals
<1>6. CASE \E c \in Calls : Quietly(c)
  <2>1. PICK c \in Calls : Quiet(c)
    BY <1>t, <1>6, QuietStatement
  <2>q. QED
    BY <2>1, MembersKept DEF Quiet
<1>7. CASE \E c \in Calls : Join(c) \/ Retire(c) \/ ReadMembers(c) \/ Look(c) \/ Insert(c)
  <2>1. PICK c \in Calls : Join(c) \/ Retire(c) \/ ReadMembers(c) \/ Look(c) \/ Insert(c)
    BY <1>7
  <2>2. CASE Join(c)
    BY <2>2, JoinKeepsMembers
  <2>3. CASE Retire(c)
    <3>1. /\ Stepped(c, <<>>) /\ plan[c][1].op = "retire" /\ goal' = goal
          /\ \A u \in Users : \/ member'[u] = member[u]
                              \/ /\ member'[u].by = c /\ member'[u].now = member[u].now
                                 /\ member'[u].new = FALSE
      BY <1>t, <2>3, Retired
    <3>2. GoalWrites(c)
      BY <3>1 DEF GoalWrites
    <3>q. QED
      BY <3>1, <3>2, EmptyIsInner, MembersKept
  <2>4. CASE ReadMembers(c)
    BY <2>4, ReadKeepsMembers
  <2>5. CASE Look(c)
    BY <2>5, LookKeepsMembers
  <2>6. CASE Insert(c)
    BY <2>6, InsertKeepsMembers
  <2>q. QED
    BY <2>1, <2>2, <2>3, <2>4, <2>5, <2>6
<1>8. CASE \E c \in Calls : Move(c)
  <2>1. PICK c \in Calls : Move(c)
    BY <1>8
  <2>2. Stepped(c, <<>>) /\ member' = member /\ goal' = goal /\ plan[c][1].op = "move"
    BY <1>t, <2>1, Moved
  <2>3. GoalWrites(c)
    BY <2>2 DEF GoalWrites
  <2>q. QED
    BY <2>2, <2>3, EmptyIsInner, MembersKept
<1>9. CASE \E c \in Calls : Commit(c) \/ Rollback(c)
  <2>1. PICK c \in Calls : Commit(c) \/ Rollback(c)
    BY <1>9
  <2>2. CASE Commit(c)
    BY <1>t, <2>2, Commits, EndKeepsMembers
  <2>3. CASE Rollback(c)
    BY <1>t, <2>3, RollsBack, EndKeepsMembers
  <2>q. QED
    BY <2>1, <2>2, <2>3
<1>10. CASE \E g \in Goals : EvaluateAlone(g) \/ CancelAlone(g)
  <2>1. PICK g \in Goals : EvaluateAlone(g) \/ CancelAlone(g)
    BY <1>10
  <2>2. /\ goal[g].by = None /\ goal[g].now # None
        /\ UNCHANGED <<day, rules, challenge, report, member, grant, share, plan, today, target, before, closings>>
    BY <2>1 DEF EvaluateAlone, CancelAlone
  <2>3. \E r \in GoalRow : goal' = [goal EXCEPT ![g] = Stored(r)]
    BY <1>t, <2>1, HostEvaluates, HostCancels
  <2>4. \A h \in Goals : /\ goal[h].now # None => goal'[h].now # None
                         /\ \A c \in Calls : Sees(goal[h], c) # None => Sees(goal'[h], c) # None
    BY <1>t, <2>2, <2>3, HostWrites
  <2>5. \A c \in Calls, l \in Lines, u \in Users : <<c, l, u>> \in Goals
    BY DEF Goals
  <2>6. \A c \in Calls, l \in Lines, u \in Users : Pending(c, l, u) => Pending(c, l, u)'
    BY <2>2, <2>4, <2>5 DEF Pending
  <2>7. Joiners'
    BY <2>2, <2>6 DEF MembersInv, Joiners
  <2>8. MembersHaveGoals'
    BY <2>2, <2>4, <2>5 DEF MembersInv, MembersHaveGoals
  <2>q. QED
    BY <2>7, <2>8
<1>q. QED
  BY <1>2, <1>3, <1>4, <1>5, <1>6, <1>7, <1>8, <1>9, <1>10, StepCases

(* A live member has a goal on each line, whichever verb let him in and     *)
(* whatever ran beside it.                                                  *)
THEOREM MembersAlwaysHaveGoals == Spec => []MembersHaveGoals
<1>1. Init => MembersInv
  <2>1. Init => Joiners /\ MembersHaveGoals
    <3> SUFFICES ASSUME Init PROVE Joiners /\ MembersHaveGoals
      OBVIOUS
    <3>1. \A u \in Users : member[u].now = FALSE /\ member[u].new = FALSE
      BY DEF Init, Stored
    <3>q. QED
      BY <3>1 DEF Joiners, MembersHaveGoals
  <2>q. QED
    BY <2>1, TypesInit DEF MembersInv
<1>2. MembersInv /\ [Next]_vars => MembersInv'
  BY MembersNext
<1>3. MembersInv => MembersHaveGoals
  BY DEF MembersInv
<1>q. QED
  BY <1>1, <1>2, <1>3, PTL DEF Spec

=============================================================================
