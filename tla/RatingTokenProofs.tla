--------------------------- MODULE RatingTokenProofs ---------------------------
(***************************************************************************)
(* Proofs about RatingToken for any calls, raters, answers, lifetimes and  *)
(* clock: type correctness, one live request per rater, and that the verbs *)
(* implement OneTimeLink.                                                  *)
(***************************************************************************)
EXTENDS RatingToken, TLAPS

(* The calls that mint a nonce, and the steps at which they have a link.     *)
Minters == {c \in Calls : c.verb \in {"issue", "rotate", "reset"}}

(* A call is at a step of its own verb, and has the link the step needs.    *)
InItsVerb(c) ==
  /\ pc[c] \in {"minted", "lost"} => c.verb = "issue" /\ link[c] \in Links
  /\ pc[c] = "verified" => c.verb = "submit" /\ link[c] \in Links
  /\ pc[c] = "found" => c.verb \in {"rotate", "reset"} /\ link[c] \in Links
  /\ pc[c] = "written" => c.verb \in {"submit", "reply"}
  /\ pc[c] = "written" /\ c.verb = "submit" => link[c] \in Links
  /\ pc[c] = "answer" => c \in Minters /\ link[c] \in Links

(* The links of calls that still have something to do with them name rows   *)
(* that are there, and a minted nonce is its call's own.                    *)
LinkStands(c) ==
  /\ pc[c] = "minted" => link[c].row = c /\ link[c].nonce = c
  /\ pc[c] \in {"verified", "found"} => row[link[c].row].now # None
  /\ pc[c] = "found" => link[c].nonce = c

(* A link that may be handed out: its nonce was minted for its row by a     *)
(* call that has committed.                                                 *)
Good(l) ==
  /\ l \in Links
  /\ row[l.row].now # None
  /\ pc[l.nonce] = "done"
  /\ l.nonce \in Minters /\ link[l.nonce] \in Links /\ link[l.nonce].row = l.row

AnswersGood(c) ==
  pc[c] = "answer" =>
    \/ link[c].nonce = c /\ row[link[c].row].by = c
    \/ Good(link[c])

(* An issue that has not inserted its row finds no trace of it.             *)
Unborn(c) ==
  c \in Rows /\ pc[c] \in {"idle", "minted", "lost"} => row[c] = Stored(None)

(* The nonce of a committed version was minted for its row by a call that   *)
(* has committed.                                                           *)
NonceOwned(r) ==
  row[r].now # None =>
    LET n == row[r].now.nonce IN
      pc[n] = "done" /\ n \in Minters /\ link[n] \in Links /\ link[n].row = r

(* What an open transaction has written.                                    *)
Inserted(r, c) ==
  /\ r = c /\ row[r].now = None
  /\ row[r].new.nonce = c /\ ~row[r].new.consumed /\ row[r].new.value = NoValue

Answered(r, c) ==
  /\ row[r].now # None
  /\ ~row[r].now.consumed /\ row[r].now.nonce = link[c].nonce
  /\ row[r].new = [row[r].now EXCEPT !.consumed = TRUE, !.value = c.value]

Held(r) ==
  LET c == row[r].by IN
    c # None =>
      /\ pc[c] \in {"written", "answer"}
      /\ row[r].new # None
      /\ c.verb # "reply" => link[c] \in Links /\ link[c].row = r
      /\ pc[c] = "answer" => link[c].nonce = c
      /\ c.verb = "issue" => Inserted(r, c)
      /\ c.verb = "submit" => Answered(r, c)
      /\ c.verb \in {"rotate", "reset"} =>
           row[r].now # None /\ row[r].new = Rearmed(c, row[r].now)
      /\ c.verb = "reply" =>
           row[r].now # None /\ row[r].new = [row[r].now EXCEPT !.reply = c]

(* Neither a committed nor an uncommitted version of another row of the     *)
(* rater is live beside one of this row.                                    *)
Versions(r) == {row[r].now, row[r].new}

NoRivals(r, s) ==
  r # s /\ r.rater = s.rater =>
    \A x \in Versions(r), y \in Versions(s) : ~(Open(r, x) /\ Open(s, y))

Spent == \A n \in used : pc[n] = "done"

(* A row that can still be answered has a nonce no answer came with.        *)
Fresh(r) ==
  row[r].now # None /\ ~row[r].now.consumed => row[r].now.nonce \notin used

CallInv == \A c \in Calls : InItsVerb(c) /\ LinkStands(c) /\ AnswersGood(c) /\ Unborn(c)

RowInv == \A r \in Rows : NonceOwned(r) /\ Held(r)

LinkInv == \A l \in handed : Good(l)

IInv == TypeOK /\ CallInv /\ RowInv /\ LinkInv

Exclusive == \A r, s \in Rows : NoRivals(r, s)

(* A submit that has answered holds its row until it ends.                  *)
SubmitHolds(c) ==
  pc[c] = "written" /\ c.verb = "submit" => row[link[c].row].by = c

OneTime == Spent /\ (\A r \in Rows : Fresh(r)) /\ \A c \in Calls : SubmitHolds(c)

-----------------------------------------------------------------------------
LEMMA RowsAreCalls == Rows \subseteq Calls /\ \A r \in Rows : r.verb = "issue"
  BY DEF Rows

(* The two versions of a row a call may write over have the same type.      *)
LEMMA CommittedIsLatest ==
  ASSUME TypeOK, NEW r \in Rows, row[r].by = None
  PROVE  row[r] = Stored(row[r].now)
  BY DEF TypeOK, Stored

LEMMA PutType ==
  ASSUME TypeOK, NEW r \in Rows, NEW c \in Calls, NEW x \in Rating,
         pc[c] \notin {"written", "answer"}, row[r].by = None, Put(r, c, x),
         NEW step \in {"written", "answer"}, Goto(c, step)
  PROVE  /\ pc' \in [Calls -> Steps]
         /\ row' \in [Rows -> [now : Version, new : Version, by : Calls \cup {None}]]
         /\ \A s \in Rows :
              IF row'[s].by = None THEN row'[s].new = row'[s].now
              ELSE row'[s].new # None /\ pc'[row'[s].by] \in {"written", "answer"}
<1>1. c # None /\ x # None
  BY RatingAssumption, NoneIsNoRow
<1>2. pc' \in [Calls -> Steps]
  BY DEF TypeOK, Goto, Steps
<1>3. row' \in [Rows -> [now : Version, new : Version, by : Calls \cup {None}]]
  BY DEF TypeOK, Put, Version
<1>4. ASSUME NEW s \in Rows
      PROVE  IF row'[s].by = None THEN row'[s].new = row'[s].now
             ELSE row'[s].new # None /\ pc'[row'[s].by] \in {"written", "answer"}
  <2>1. CASE s = r
    <3>1. row'[s].by = c /\ row'[s].new = x
      BY <2>1 DEF Put, TypeOK
    <3>2. pc'[c] = step
      BY DEF Goto, TypeOK
    <3>3. QED BY <3>1, <3>2, <1>1
  <2>2. CASE s # r
    <3>1. row'[s] = row[s]
      BY <2>2 DEF Put, TypeOK
    <3>2. row[s].by # None => pc'[row[s].by] = pc[row[s].by]
      BY DEF Goto, TypeOK
    <3>3. QED BY <3>1, <3>2 DEF TypeOK
  <2>3. QED BY <2>1, <2>2
<1>5. QED BY <1>2, <1>3, <1>4

(* What a commit, a rollback or a refusal makes of the rows.                *)
LEMMA EndType ==
  ASSUME TypeOK, NEW c \in Calls, NEW step \in Ended, Goto(c, step),
         \/ Publish(c)
         \/ row' = [r \in Rows |-> IF row[r].by = c THEN Stored(row[r].now) ELSE row[r]]
  PROVE  /\ pc' \in [Calls -> Steps]
         /\ row' \in [Rows -> [now : Version, new : Version, by : Calls \cup {None}]]
         /\ \A s \in Rows :
              IF row'[s].by = None THEN row'[s].new = row'[s].now
              ELSE row'[s].new # None /\ pc'[row'[s].by] \in {"written", "answer"}
<1>1. pc' \in [Calls -> Steps]
  BY DEF TypeOK, Goto, Steps
<1>2. ASSUME NEW s \in Rows
      PROVE  /\ row'[s] \in [now : Version, new : Version, by : Calls \cup {None}]
             /\ IF row'[s].by = None THEN row'[s].new = row'[s].now
                ELSE row'[s].new # None /\ pc'[row'[s].by] \in {"written", "answer"}
  <2>1. row[s] \in [now : Version, new : Version, by : Calls \cup {None}]
    BY DEF TypeOK
  <2>2. CASE row[s].by = c
    BY <2>1, <2>2 DEF Publish, Stored
  <2>3. CASE row[s].by # c
    <3>1. row'[s] = row[s]
      BY <2>3 DEF Publish
    <3>2. row[s].by # None => pc'[row[s].by] = pc[row[s].by]
      BY <2>3 DEF Goto, TypeOK
    <3>3. QED BY <2>1, <3>1, <3>2 DEF TypeOK
  <2>4. QED BY <2>2, <2>3
<1>3. row' = [s \in Rows |-> row'[s]]
  BY DEF Publish
<1>4. QED BY <1>1, <1>2, <1>3

(* A call that writes no row and had none keeps the rows' types.            *)
LEMMA GotoType ==
  ASSUME TypeOK, NEW c \in Calls, pc[c] \notin {"written", "answer"}, UNCHANGED row,
         NEW step \in Steps, Goto(c, step)
  PROVE  /\ pc' \in [Calls -> Steps]
         /\ row' \in [Rows -> [now : Version, new : Version, by : Calls \cup {None}]]
         /\ \A s \in Rows :
              IF row'[s].by = None THEN row'[s].new = row'[s].now
              ELSE row'[s].new # None /\ pc'[row'[s].by] \in {"written", "answer"}
  BY DEF TypeOK, Goto

(* What a submit, a rotate and a reset make of a version.                   *)
LEMMA SubmitMakes ==
  ASSUME NEW x \in Rating, NEW v \in Answers
  PROVE  LET y == [x EXCEPT !.consumed = TRUE, !.value = v] IN
           /\ y \in Rating
           /\ y.nonce = x.nonce /\ y.consumed /\ y.value = v
  BY DEF Rating

LEMMA ReplyMakes ==
  ASSUME NEW x \in Rating, NEW c \in Calls
  PROVE  LET y == [x EXCEPT !.reply = c] IN
           /\ y \in Rating
           /\ y.nonce = x.nonce /\ y.consumed = x.consumed /\ y.value = x.value
  BY DEF Rating

LEMMA RearmMakes ==
  ASSUME NEW x \in Rating, NEW c \in Calls, link[c] \in Links
  PROVE  /\ Rearmed(c, x) \in Rating
         /\ Rearmed(c, x).nonce = c
         /\ c.verb = "rotate" => /\ Rearmed(c, x).consumed = x.consumed
                                 /\ Rearmed(c, x).value = x.value
         /\ c.verb = "reset" => ~Rearmed(c, x).consumed /\ Rearmed(c, x).value = NoValue
  BY DEF Rearmed, Rating, Links

LEMMA LinkOfType ==
  ASSUME TypeOK, NEW r \in Rows, row[r].now # None
  PROVE  LinkOf(r) \in Links
  BY DEF TypeOK, LinkOf, Links, Version, Rating

LEMMA LiveIsThere ==
  ASSUME NEW u, NEW r \in Live(u)
  PROVE  r \in Rows /\ row[r].now # None
  BY DEF Live, Open

LEMMA InitInv == Init => IInv /\ Exclusive /\ OneTime
<1> SUFFICES ASSUME Init PROVE IInv /\ Exclusive /\ OneTime
  OBVIOUS
<1>1. TypeOK
  BY DEF Init, TypeOK, Steps, Stored, Version
<1>2. CallInv
  BY DEF Init, CallInv, InItsVerb, LinkStands, AnswersGood, Unborn, Stored
<1>3. RowInv
  BY DEF Init, RowInv, NonceOwned, Held, Stored
<1>4. LinkInv
  BY DEF Init, LinkInv
<1>5. Exclusive
  BY DEF Init, Exclusive, NoRivals, Versions, Stored, Open
<1>6. OneTime
  BY DEF Init, OneTime, Spent, Fresh, SubmitHolds, Stored
<1>7. QED BY <1>1, <1>2, <1>3, <1>4, <1>5, <1>6 DEF IInv

LEMMA TypeStep == IInv /\ [Next]_vars => TypeOK'
<1> SUFFICES ASSUME IInv, [Next]_vars PROVE TypeOK'
  OBVIOUS
<1> USE RowsAreCalls
<1>t. TypeOK
  BY DEF IInv
<1>c. \A c \in Calls : InItsVerb(c) /\ LinkStands(c)
  BY DEF IInv, CallInv
<1>1. CASE Tick
  BY <1>1, <1>t DEF Tick, TypeOK
<1>2. ASSUME NEW c \in Calls, Probe(c) PROVE TypeOK'
  <2>1. \E step \in Steps : Goto(c, step)
    BY <1>2 DEF Probe, Steps
  <2>2. link' \in [Calls -> Links \cup {None}]
    <3>1. CASE Live(c.rater) # {} /\ \E r \in Live(c.rater) : link' = [link EXCEPT ![c] = LinkOf(r)]
      BY <3>1, <1>t, LiveIsThere, LinkOfType DEF TypeOK
    <3>2. CASE link' = [link EXCEPT ![c] = [row |-> c, nonce |-> c, exp |-> clock + c.ttl]]
      <4>1. c \in Rows
        BY <1>2 DEF Probe, Begin, Rows
      <4>2. [row |-> c, nonce |-> c, exp |-> clock + c.ttl] \in Links
        BY <4>1, <1>t, RatingAssumption DEF Links, TypeOK
      <4>3. QED BY <3>2, <4>2, <1>t DEF TypeOK
    <3>3. QED BY <3>1, <3>2, <1>2 DEF Probe
  <2>3. QED BY <2>1, <2>2, <1>2, <1>t, GotoType DEF Probe, Begin, TypeOK
<1>3. ASSUME NEW c \in Calls, Insert(c) PROVE TypeOK'
  <2>1. c \in Rows /\ link[c] \in Links
    BY <1>3, <1>c DEF Insert, InItsVerb, Rows
  <2>2. CASE Goto(c, "lost") /\ UNCHANGED row
    BY <2>2, <1>3, <1>t, GotoType DEF Insert, TypeOK, Steps
  <2>3. CASE Put(c, c, [nonce |-> c, exp |-> link[c].exp, consumed |-> FALSE,
                        value |-> NoValue, reply |-> None]) /\ Goto(c, "answer")
    <3>1. [nonce |-> c, exp |-> link[c].exp, consumed |-> FALSE,
           value |-> NoValue, reply |-> None] \in Rating
      BY <2>1 DEF Rating, Links
    <3>2. row[c].by = None
      <4>1. Unborn(c)
        BY DEF IInv, CallInv
      <4>2. QED BY <4>1, <2>1, <1>3 DEF Unborn, Insert, Stored
    <3>3. QED BY <2>1, <2>3, <3>1, <3>2, <1>3, <1>t, PutType DEF Insert, TypeOK
  <2>4. QED BY <2>2, <2>3, <1>3 DEF Insert
<1>4. ASSUME NEW c \in Calls, Reread(c) PROVE TypeOK'
  <2>1. \E step \in Steps : Goto(c, step)
    BY <1>4 DEF Reread, Steps, Ended
  <2>2. link' \in [Calls -> Links \cup {None}]
    BY <1>4, <1>t, LiveIsThere, LinkOfType DEF Reread, TypeOK
  <2>3. QED BY <2>1, <2>2, <1>4, <1>t, GotoType DEF Reread, TypeOK
<1>5. ASSUME NEW c \in Calls, Load(c) PROVE TypeOK'
  <2>1. \E step \in Steps : Goto(c, step)
    BY <1>5 DEF Load, Steps, Ended
  <2>2. link' \in [Calls -> Links \cup {None}]
    BY <1>5, <1>t DEF Load, TypeOK
  <2>3. QED BY <2>1, <2>2, <1>5, <1>t, GotoType DEF Load, Begin, TypeOK
<1>6. ASSUME NEW c \in Calls, Submit(c) PROVE TypeOK'
  <2> DEFINE r == link[c].row
  <2>1. r \in Rows /\ row[r].now \in Rating
    BY <1>6, <1>c, <1>t DEF Submit, InItsVerb, LinkStands, Links, TypeOK, Version
  <2>2. [row[r].now EXCEPT !.consumed = TRUE, !.value = c.value] \in Rating
    BY <2>1, SubmitMakes DEF Answers
  <2>3. QED BY <2>1, <2>2, <1>6, <1>t, PutType DEF Submit, TypeOK
<1>7. ASSUME NEW c \in Calls, Refuse(c) PROVE TypeOK'
  BY <1>7, <1>t, GotoType DEF Refuse, TypeOK, Steps, Ended
<1>8. ASSUME NEW c \in Calls, Find(c) PROVE TypeOK'
  <2>1. link' \in [Calls -> Links \cup {None}]
    <3>1. PICK r \in Rows : link' = [link EXCEPT ![c] = [row |-> r, nonce |-> c, exp |-> clock + c.ttl]]
      BY <1>8 DEF Find
    <3>2. [row |-> r, nonce |-> c, exp |-> clock + c.ttl] \in Links
      BY <1>t, RatingAssumption DEF Links, TypeOK
    <3>3. QED BY <3>1, <3>2, <1>t DEF TypeOK
  <2>2. QED BY <2>1, <1>8, <1>t, GotoType DEF Find, Begin, TypeOK, Steps
<1>9. ASSUME NEW c \in Calls, Rearm(c) PROVE TypeOK'
  <2> DEFINE r == link[c].row
  <2>1. r \in Rows /\ row[r].now \in Rating /\ link[c] \in Links
    BY <1>9, <1>c, <1>t DEF Rearm, InItsVerb, LinkStands, Links, TypeOK, Version
  <2>2. Rearmed(c, row[r].now) \in Rating
    BY <2>1, RearmMakes
  <2>3. CASE Goto(c, "failed") /\ UNCHANGED row
    BY <2>3, <1>9, <1>t, GotoType DEF Rearm, TypeOK, Steps, Ended
  <2>4. CASE Put(r, c, Rearmed(c, row[r].now)) /\ Goto(c, "answer")
    BY <2>1, <2>2, <2>4, <1>9, <1>t, PutType DEF Rearm, TypeOK
  <2>5. QED BY <2>3, <2>4, <1>9 DEF Rearm
<1>10. ASSUME NEW c \in Calls, Reply(c) PROVE TypeOK'
  <2>1. PICK r \in Rows : /\ row[r].now # None /\ row[r].by = None
                          /\ Put(r, c, [row[r].now EXCEPT !.reply = c])
    BY <1>10 DEF Reply
  <2>2. row[r].now \in Rating
    BY <2>1, <1>t DEF TypeOK, Version
  <2>3. [row[r].now EXCEPT !.reply = c] \in Rating
    BY <2>2, ReplyMakes
  <2>4. QED BY <2>1, <2>3, <1>10, <1>t, PutType DEF Reply, Begin, TypeOK
<1>11. ASSUME NEW c \in Calls, Answer(c) PROVE TypeOK'
  <2>1. link[c] \in Links
    BY <1>11, <1>c DEF Answer, InItsVerb
  <2>2. QED BY <2>1, <1>11, <1>t, EndType DEF Answer, TypeOK, Ended
<1>12. ASSUME NEW c \in Calls, Commit(c) PROVE TypeOK'
  <2>1. c.verb = "submit" => link[c].nonce \in Calls
    BY <1>12, <1>c DEF Commit, InItsVerb, Links
  <2>2. QED BY <2>1, <1>12, <1>t, EndType DEF Commit, TypeOK, Ended
<1>13. ASSUME NEW c \in Calls, Rollback(c) PROVE TypeOK'
  BY <1>13, <1>t, EndType DEF Rollback, TypeOK, Ended
<1>14. CASE UNCHANGED vars
  BY <1>14, <1>t DEF vars, TypeOK, Version
<1>15. QED
  BY <1>1, <1>2, <1>3, <1>4, <1>5, <1>6, <1>7, <1>8, <1>9, <1>10, <1>11, <1>12,
     <1>13, <1>14
  DEF Next, Statement

-----------------------------------------------------------------------------
(* What a statement of one call leaves to the others: it writes rows nobody *)
(* holds, and settles its own rows when it ends.                            *)
Keeps(s, c) == row'[s] = row[s] /\ row[s].by # c

Writes(s, c) ==
  /\ row[s].by = None /\ row'[s].by = c /\ row'[s].now = row[s].now
  /\ s = c \/ row[s].now # None

Drops(s, c) == row[s].by = c /\ row'[s] = Stored(row[s].now)

Commits(s, c) ==
  row[s].by = c /\ row'[s] = Stored(row[s].new) /\ pc'[c] = "done" /\ link' = link

ByCall(c) ==
  /\ pc[c] # "done"
  /\ \A d \in Calls \ {c} : pc'[d] = pc[d] /\ link'[d] = link[d]
  /\ \A s \in Rows : Keeps(s, c) \/ Writes(s, c) \/ Drops(s, c) \/ Commits(s, c)

LEMMA PutWrites ==
  ASSUME TypeOK, NEW c \in Calls, NEW r \in Rows, NEW x, Put(r, c, x),
         row[r].by = None, r = c \/ row[r].now # None,
         pc[c] \notin {"written", "answer"}
  PROVE  \A s \in Rows : Keeps(s, c) \/ Writes(s, c)
<1> SUFFICES ASSUME NEW s \in Rows PROVE Keeps(s, c) \/ Writes(s, c)
  OBVIOUS
<1>1. CASE s = r
  BY <1>1 DEF Put, TypeOK, Writes
<1>2. CASE s # r
  <2>1. row[s].by # c
    BY RatingAssumption DEF TypeOK
  <2>2. QED BY <1>2, <2>1 DEF Put, TypeOK, Keeps
<1>3. QED BY <1>1, <1>2

LEMMA NothingHeld ==
  ASSUME TypeOK, NEW c \in Calls, UNCHANGED row, pc[c] \notin {"written", "answer"}
  PROVE  \A s \in Rows : Keeps(s, c)
  BY RatingAssumption DEF TypeOK, Keeps

LEMMA StepByCall ==
  ASSUME IInv, NEW c \in Calls, Statement(c) \/ Rollback(c)
  PROVE  ByCall(c)
<1> USE RowsAreCalls
<1>t. TypeOK
  BY DEF IInv
<1>c. InItsVerb(c) /\ LinkStands(c) /\ Unborn(c)
  BY DEF IInv, CallInv
<1>1. CASE Probe(c)
  BY <1>1, <1>t, NothingHeld DEF Probe, Begin, Goto, ByCall, TypeOK
<1>2. CASE Insert(c)
  <2>1. c \in Rows /\ row[c].by = None
    BY <1>2, <1>c DEF Insert, InItsVerb, Rows, Unborn, Stored
  <2>2. CASE UNCHANGED row
    BY <1>2, <1>t, <2>2, NothingHeld DEF Insert, Goto, ByCall, TypeOK
  <2>3. CASE Put(c, c, [nonce |-> c, exp |-> link[c].exp, consumed |-> FALSE,
                        value |-> NoValue, reply |-> None])
    <3>1. \A s \in Rows : Keeps(s, c) \/ Writes(s, c)
      BY <1>2, <1>t, <2>1, <2>3, PutWrites DEF Insert
    <3>2. QED BY <3>1, <1>2, <1>t DEF Insert, Goto, ByCall, TypeOK
  <2>4. QED BY <2>2, <2>3, <1>2 DEF Insert
<1>3. CASE Reread(c)
  BY <1>3, <1>t, NothingHeld DEF Reread, Goto, ByCall, TypeOK
<1>4. CASE Load(c)
  BY <1>4, <1>t, NothingHeld DEF Load, Begin, Goto, ByCall, TypeOK
<1>5. CASE Submit(c)
  <2>1. link[c].row \in Rows /\ row[link[c].row].now # None
    BY <1>5, <1>c DEF Submit, InItsVerb, LinkStands, Links
  <2>2. \A s \in Rows : Keeps(s, c) \/ Writes(s, c)
    BY <1>5, <1>t, <2>1, PutWrites DEF Submit
  <2>3. QED BY <2>2, <1>5, <1>t DEF Submit, Goto, ByCall, TypeOK
<1>6. CASE Refuse(c)
  BY <1>6, <1>t, NothingHeld DEF Refuse, Goto, ByCall, TypeOK
<1>7. CASE Find(c)
  BY <1>7, <1>t, NothingHeld DEF Find, Begin, Goto, ByCall, TypeOK
<1>8. CASE Rearm(c)
  <2>1. link[c].row \in Rows /\ row[link[c].row].now # None
    BY <1>8, <1>c DEF Rearm, InItsVerb, LinkStands, Links
  <2>2. \A s \in Rows : Keeps(s, c) \/ Writes(s, c)
    BY <1>8, <1>t, <2>1, PutWrites, NothingHeld DEF Rearm
  <2>3. QED BY <2>2, <1>8, <1>t DEF Rearm, Goto, ByCall, TypeOK
<1>9. CASE Reply(c)
  <2>1. \A s \in Rows : Keeps(s, c) \/ Writes(s, c)
    BY <1>9, <1>t, PutWrites DEF Reply, Begin
  <2>2. QED BY <2>1, <1>9, <1>t DEF Reply, Begin, Goto, ByCall, TypeOK
<1>10. CASE Publish(c) /\ Goto(c, "done") /\ pc[c] # "done" /\ UNCHANGED link
  <2>1. pc'[c] = "done"
    BY <1>10, <1>t DEF Goto, TypeOK
  <2>2. \A s \in Rows : Keeps(s, c) \/ Commits(s, c)
    BY <1>10, <2>1 DEF Publish, Keeps, Commits
  <2>3. QED BY <2>2, <1>10, <1>t DEF Goto, ByCall, TypeOK
<1>11. CASE Rollback(c)
  <2>1. \A s \in Rows : Keeps(s, c) \/ Drops(s, c)
    BY <1>11 DEF Rollback, Keeps, Drops
  <2>2. QED BY <2>1, <1>11, <1>t DEF Rollback, Ended, Goto, ByCall, TypeOK
<1>12. QED
  BY <1>1, <1>2, <1>3, <1>4, <1>5, <1>6, <1>7, <1>8, <1>9, <1>10, <1>11
  DEF Statement, Answer, Commit

(* What was committed stays, a good link stays good, and the other calls    *)
(* keep what they know.                                                     *)
LEMMA NothingVanishes ==
  ASSUME TypeOK, NEW c \in Calls, ByCall(c), NEW s \in Rows, row[s].now # None
  PROVE  row'[s].now # None
<1>1. row[s].by # None => row[s].new # None
  BY DEF TypeOK
<1>2. CASE Keeps(s, c) \/ Writes(s, c)
  BY <1>2 DEF Keeps, Writes
<1>3. CASE Drops(s, c) \/ Commits(s, c)
  <2>1. row[s].by # None
    BY <1>3, RatingAssumption DEF Drops, Commits
  <2>2. row'[s].now \in {row[s].now, row[s].new}
    BY <1>3 DEF Drops, Commits, Stored
  <2>3. QED BY <1>1, <2>1, <2>2
<1>4. QED BY <1>2, <1>3 DEF ByCall

LEMMA GoodStays ==
  ASSUME TypeOK, NEW c \in Calls, ByCall(c), NEW l, Good(l)
  PROVE  Good(l)'
<1>1. l.row \in Rows /\ l.nonce \in Calls /\ l.nonce # c
  BY DEF Good, Links, ByCall
<1>2. pc'[l.nonce] = "done" /\ link'[l.nonce] = link[l.nonce]
  BY <1>1 DEF Good, ByCall
<1>3. row'[l.row].now # None
  BY <1>1, NothingVanishes DEF Good
<1>4. QED BY <1>2, <1>3 DEF Good, Links, Minters, Rows

LEMMA OthersKeep ==
  ASSUME IInv, NEW c \in Calls, ByCall(c), NEW d \in Calls, d # c
  PROVE  (InItsVerb(d) /\ LinkStands(d) /\ AnswersGood(d) /\ Unborn(d))'
<1>t. TypeOK
  BY DEF IInv
<1>d. InItsVerb(d) /\ LinkStands(d) /\ AnswersGood(d) /\ Unborn(d)
  BY DEF IInv, CallInv
<1>f. pc'[d] = pc[d] /\ link'[d] = link[d]
  BY DEF ByCall
<1>1. InItsVerb(d)'
  BY <1>d, <1>f DEF InItsVerb, Minters, Links, Rows
<1>2. LinkStands(d)'
  <2>1. pc[d] \in {"verified", "found"} => row'[link[d].row].now # None
    BY <1>t, <1>d, NothingVanishes DEF LinkStands, InItsVerb, Links
  <2>2. QED BY <2>1, <1>d, <1>f DEF LinkStands
<1>3. AnswersGood(d)'
  <2> SUFFICES ASSUME pc[d] = "answer"
               PROVE  \/ link[d].nonce = d /\ row'[link[d].row].by = d
                      \/ Good(link[d])'
    BY <1>f DEF AnswersGood, Good
  <2>1. CASE link[d].nonce = d /\ row[link[d].row].by = d
    <3>1. link[d].row \in Rows
      BY <1>d DEF InItsVerb, Links
    <3>2. QED BY <2>1, <3>1, RatingAssumption
              DEF ByCall, Keeps, Writes, Drops, Commits
  <2>2. CASE Good(link[d])
    <3>1. PICK l : l = link[d]
      OBVIOUS
    <3>2. Good(l)'
      BY <2>2, <3>1, <1>t, GoodStays
    <3>3. l = link'[d]
      BY <3>1, <1>f
    <3>4. QED BY <3>2, <3>3 DEF Good
  <2>3. QED BY <2>1, <2>2, <1>d DEF AnswersGood
<1>4. Unborn(d)'
  <2> SUFFICES ASSUME d \in Rows, pc[d] \in {"idle", "minted", "lost"}
               PROVE  row'[d] = Stored(None)
    BY <1>f DEF Unborn, Rows, Stored
  <2>1. row[d] = Stored(None) /\ row[d].now = None /\ row[d].by = None
    BY <1>d DEF Unborn, Stored
  <2>2. QED BY <2>1, RatingAssumption DEF ByCall, Keeps, Writes, Drops, Commits
<1>5. QED BY <1>1, <1>2, <1>3, <1>4

(* The call itself: what it knows after each of its statements.             *)
LEMMA OwnStep ==
  ASSUME IInv, NEW c \in Calls, Statement(c) \/ Rollback(c)
  PROVE  (InItsVerb(c) /\ LinkStands(c) /\ AnswersGood(c) /\ Unborn(c))'
<1> DEFINE Goal == (InItsVerb(c) /\ LinkStands(c) /\ AnswersGood(c) /\ Unborn(c))'
<1> USE RowsAreCalls
<1>t. TypeOK
  BY DEF IInv
<1>c. InItsVerb(c) /\ LinkStands(c) /\ AnswersGood(c) /\ Unborn(c)
  BY DEF IInv, CallInv
<1>e. ASSUME pc'[c] \in Ended PROVE Goal
  BY <1>e DEF Ended, InItsVerb, LinkStands, AnswersGood, Unborn
<1>r. ASSUME NEW r \in Rows, row[r].now # None, c \in Minters,
             UNCHANGED row, Goto(c, "answer"), link' = [link EXCEPT ![c] = LinkOf(r)],
             pc[c] # "done"
      PROVE  Goal
  <2>1. pc' = [pc EXCEPT ![c] = "answer"] /\ pc'[c] = "answer" /\ link'[c] = LinkOf(r)
    BY <1>r, <1>t DEF Goto, TypeOK
  <2>2. LinkOf(r) \in Links /\ LinkOf(r).row = r /\ LinkOf(r).nonce = row[r].now.nonce
    BY <1>r, <1>t, LinkOfType DEF LinkOf
  <2>3. NonceOwned(r)
    BY DEF IInv, RowInv
  <2>4. row[r].now.nonce \in Calls /\ row[r].now.nonce # c
    BY <2>3, <1>r DEF NonceOwned, Minters
  <2>5. PICK l : l = LinkOf(r)
    OBVIOUS
  <2>6. Good(l)'
    <3>1. pc'[l.nonce] = "done" /\ link'[l.nonce] = link[l.nonce]
      BY <2>1, <2>2, <2>3, <2>4, <2>5, <1>r, <1>t DEF NonceOwned, TypeOK
    <3>2. QED BY <3>1, <2>2, <2>3, <2>5, <1>r DEF Good, NonceOwned, Minters, Links, Rows
  <2>7. AnswersGood(c)'
    BY <2>1, <2>5, <2>6 DEF AnswersGood, Good
  <2>8. QED BY <2>1, <2>2, <2>7, <1>r DEF InItsVerb, LinkStands, Unborn, Minters, Links, Rows
<1>1. CASE Probe(c)
  <2>1. c \in Rows /\ c \in Minters /\ pc[c] = "idle"
    BY <1>1 DEF Probe, Begin, Rows, Minters
  <2>2. CASE \E r \in Live(c.rater) : link' = [link EXCEPT ![c] = LinkOf(r)] /\ Goto(c, "answer")
    BY <2>1, <2>2, <1>1, <1>r, LiveIsThere DEF Probe
  <2>3. CASE /\ link' = [link EXCEPT ![c] = [row |-> c, nonce |-> c, exp |-> clock + c.ttl]]
             /\ Goto(c, "minted")
    <3>1. pc'[c] = "minted" /\ link'[c] = [row |-> c, nonce |-> c, exp |-> clock + c.ttl]
      BY <2>3, <1>t DEF Goto, TypeOK
    <3>2. link'[c] \in Links
      BY <3>1, <2>1, <1>t, RatingAssumption DEF Links, TypeOK
    <3>3. row'[c] = Stored(None)
      BY <2>1, <1>1, <1>c DEF Unborn, Probe
    <3>4. QED BY <2>1, <3>1, <3>2, <3>3
              DEF InItsVerb, LinkStands, AnswersGood, Unborn, Rows, Links, Stored
  <2>4. QED BY <2>2, <2>3, <1>1 DEF Probe
<1>2. CASE Insert(c)
  <2>1. c \in Minters /\ c \in Rows /\ link[c] \in Links /\ link[c].row = c /\ link[c].nonce = c
    BY <1>2, <1>c DEF Insert, InItsVerb, LinkStands, Minters, Rows
  <2>2. CASE Goto(c, "lost") /\ UNCHANGED row
    BY <2>1, <2>2, <1>2, <1>t, <1>c
    DEF Insert, Goto, TypeOK, InItsVerb, LinkStands, AnswersGood, Unborn, Rows, Links, Stored
  <2>3. CASE Put(c, c, [nonce |-> c, exp |-> link[c].exp, consumed |-> FALSE,
                        value |-> NoValue, reply |-> None]) /\ Goto(c, "answer")
    <3>1. pc'[c] = "answer" /\ link'[c] = link[c] /\ row'[c].by = c
      BY <2>1, <2>3, <1>2, <1>t DEF Insert, Put, Goto, TypeOK
    <3>2. QED BY <2>1, <3>1
              DEF InItsVerb, LinkStands, AnswersGood, Unborn, Minters, Rows, Links
  <2>4. QED BY <2>2, <2>3, <1>2 DEF Insert
<1>3. CASE Reread(c)
  <2>1. c \in Minters /\ pc[c] = "lost"
    BY <1>3, <1>c DEF Reread, InItsVerb, Minters
  <2>2. CASE \E r \in Live(c.rater) : link' = [link EXCEPT ![c] = LinkOf(r)] /\ Goto(c, "answer")
    BY <2>1, <2>2, <1>3, <1>r, LiveIsThere DEF Reread
  <2>3. CASE Goto(c, "failed")
    BY <2>3, <1>e, <1>t DEF Goto, TypeOK, Ended
  <2>4. QED BY <2>2, <2>3, <1>3 DEF Reread
<1>4. CASE Load(c)
  <2>1. PICK l \in handed : /\ link' = [link EXCEPT ![c] = l]
                            /\ Goto(c, IF l = LinkOf(l.row) THEN "verified" ELSE "refused")
    BY <1>4 DEF Load
  <2>2. CASE pc'[c] = "refused"
    BY <2>2, <1>e DEF Ended
  <2>3. CASE pc'[c] = "verified"
    <3>1. l \in Links /\ row[l.row].now # None
      BY DEF IInv, LinkInv, Good
    <3>2. link'[c] = l
      BY <2>1, <1>t DEF TypeOK
    <3>3. QED BY <2>3, <3>1, <3>2, <1>4
              DEF Load, Begin, InItsVerb, LinkStands, AnswersGood, Unborn, Links, Rows
  <2>4. QED BY <2>1, <2>2, <2>3, <1>t DEF Goto, TypeOK
<1>5. CASE Submit(c)
  <2>1. pc'[c] = "written" /\ link'[c] = link[c]
    BY <1>5, <1>t DEF Submit, Goto, TypeOK
  <2>2. QED BY <2>1, <1>5, <1>c
            DEF Submit, InItsVerb, LinkStands, AnswersGood, Unborn, Links, Rows
<1>6. CASE Refuse(c)
  BY <1>6, <1>e, <1>t DEF Refuse, Goto, TypeOK, Ended
<1>7. CASE Find(c)
  <2>1. PICK r \in Rows : /\ row[r].now # None
                          /\ link' = [link EXCEPT ![c] = [row |-> r, nonce |-> c, exp |-> clock + c.ttl]]
    BY <1>7 DEF Find
  <2>2. pc'[c] = "found" /\ link'[c] = [row |-> r, nonce |-> c, exp |-> clock + c.ttl]
    BY <1>7, <2>1, <1>t DEF Find, Goto, TypeOK
  <2>3. link'[c] \in Links
    BY <2>2, <1>t, RatingAssumption DEF Links, TypeOK
  <2>4. row' = row
    BY <1>7 DEF Find
  <2>5. QED BY <2>1, <2>2, <2>3, <2>4, <1>7
            DEF Find, Begin, InItsVerb, LinkStands, AnswersGood, Unborn, Links, Rows
<1>8. CASE Rearm(c)
  <2>1. CASE Goto(c, "failed")
    BY <2>1, <1>e, <1>t DEF Goto, TypeOK, Ended
  <2>2. CASE Put(link[c].row, c, Rearmed(c, row[link[c].row].now)) /\ Goto(c, "answer")
    <3>1. /\ c \in Minters /\ c.verb # "issue"
          /\ link[c] \in Links /\ link[c].row \in Rows /\ link[c].nonce = c
      BY <1>8, <1>c DEF Rearm, InItsVerb, LinkStands, Links, Minters
    <3>2. pc'[c] = "answer" /\ link'[c] = link[c] /\ row'[link[c].row].by = c
      BY <1>8, <2>2, <3>1, <1>t DEF Rearm, Put, Goto, TypeOK
    <3>3. QED BY <3>1, <3>2
              DEF InItsVerb, LinkStands, AnswersGood, Unborn, Minters, Rows, Links
  <2>3. QED BY <2>1, <2>2, <1>8 DEF Rearm
<1>9. CASE Reply(c)
  <2>1. pc'[c] = "written" /\ c.verb = "reply"
    BY <1>9, <1>t DEF Reply, Begin, Goto, TypeOK
  <2>2. QED BY <2>1 DEF InItsVerb, LinkStands, AnswersGood, Unborn, Rows
<1>10. CASE Goto(c, "done") \/ Goto(c, "failed")
  BY <1>10, <1>e, <1>t DEF Goto, TypeOK, Ended
<1>11. QED
  BY <1>1, <1>2, <1>3, <1>4, <1>5, <1>6, <1>7, <1>8, <1>9, <1>10
  DEF Statement, Answer, Commit, Rollback

-----------------------------------------------------------------------------
(* A row a statement has just written is held as its verb says.             *)
LEMMA WriteHeld ==
  ASSUME IInv, NEW c \in Calls, Statement(c) \/ Rollback(c),
         NEW r \in Rows, Writes(r, c)
  PROVE  Held(r)'
<1> USE RowsAreCalls
<1>t. TypeOK
  BY DEF IInv
<1>c. InItsVerb(c) /\ LinkStands(c) /\ Unborn(c)
  BY DEF IInv, CallInv
<1>0. c # None /\ row[r].by = None /\ row'[r].by = c /\ row' # row
  BY RatingAssumption DEF Writes
<1>1. CASE Insert(c)
  <2> DEFINE x == [nonce |-> c, exp |-> link[c].exp, consumed |-> FALSE,
                   value |-> NoValue, reply |-> None]
  <2>1. /\ c \in Rows /\ c.verb = "issue" /\ link[c] \in Links
        /\ link[c].row = c /\ link[c].nonce = c /\ row[c].now = None
    BY <1>1, <1>c DEF Insert, InItsVerb, LinkStands, Unborn, Rows, Stored
  <2>2. Put(c, c, x) /\ Goto(c, "answer") /\ link' = link
    BY <1>0, <1>1 DEF Insert
  <2>3. r = c /\ row'[r] = [now |-> None, new |-> x, by |-> c] /\ pc'[c] = "answer"
    BY <1>0, <2>1, <2>2, <1>t DEF Put, Goto, TypeOK
  <2>4. x # None
    <3>1. x \in Rating
      BY <2>1 DEF Rating, Links
    <3>2. QED BY <3>1, NoneIsNoRow
  <2>5. QED BY <2>1, <2>2, <2>3, <2>4 DEF Held, Inserted, Links
<1>2. CASE Submit(c)
  <2> DEFINE x == [row[r].now EXCEPT !.consumed = TRUE, !.value = c.value]
  <2>1. c.verb = "submit" /\ link[c] \in Links /\ link[c].row \in Rows
    BY <1>2, <1>c DEF Submit, InItsVerb, Links
  <2>2. r = link[c].row
    BY <1>0, <1>2, <2>1, <1>t DEF Submit, Put, TypeOK
  <2>3. row[r].now \in Rating /\ x # None
    <3>1. row[r].now \in Rating
      BY <1>2, <1>c, <1>t, <2>2 DEF Submit, LinkStands, TypeOK, Version
    <3>2. c.value \in Answers
      BY DEF Answers
    <3>3. x \in Rating
      BY <3>1, <3>2, SubmitMakes
    <3>4. QED BY <3>1, <3>3, NoneIsNoRow
  <2>4. row'[r] = [now |-> row[r].now, new |-> x, by |-> c] /\ pc'[c] = "written" /\ link' = link
    BY <1>2, <2>2, <1>t DEF Submit, Put, Goto, TypeOK
  <2>5. ~row[r].now.consumed /\ row[r].now.nonce = link[c].nonce
    BY <1>2, <2>2 DEF Submit, Submittable
  <2>6. Answered(r, c)'
    BY <2>3, <2>4, <2>5, NoneIsNoRow DEF Answered
  <2>7. QED BY <2>1, <2>2, <2>3, <2>4, <2>6 DEF Held, Links
<1>3. CASE Rearm(c)
  <2> DEFINE x == Rearmed(c, row[r].now)
  <2>1. /\ c.verb \in {"rotate", "reset"} /\ link[c] \in Links /\ link[c].row \in Rows
        /\ link[c].nonce = c
    BY <1>3, <1>c DEF Rearm, InItsVerb, LinkStands, Links
  <2>2. Put(link[c].row, c, Rearmed(c, row[link[c].row].now)) /\ Goto(c, "answer") /\ link' = link
    BY <1>0, <1>3 DEF Rearm
  <2>3. r = link[c].row
    BY <1>0, <2>1, <2>2, <1>t DEF Put, TypeOK
  <2>4. row[r].now # None /\ row[r].now \in Rating
    BY <1>3, <1>c, <1>t, <2>3 DEF Rearm, LinkStands, TypeOK, Version
  <2>5. x # None
    BY <2>1, <2>4, RearmMakes, NoneIsNoRow
  <2>6. row'[r] = [now |-> row[r].now, new |-> x, by |-> c] /\ pc'[c] = "answer"
    BY <2>2, <2>3, <1>t DEF Put, Goto, TypeOK
  <2>7. row'[r].new = Rearmed(c, row[r].now)'
    BY <2>2, <2>6 DEF Rearmed
  <2>8. QED BY <2>1, <2>2, <2>3, <2>4, <2>5, <2>6, <2>7 DEF Held, Links
<1>4. CASE Reply(c)
  <2> DEFINE x == [row[r].now EXCEPT !.reply = c]
  <2>1. c.verb = "reply"
    BY <1>4 DEF Reply, Begin
  <2>2. PICK s \in Rows : row[s].now # None /\ Put(s, c, [row[s].now EXCEPT !.reply = c])
    BY <1>4 DEF Reply
  <2>3. s = r
    BY <1>0, <2>2, <1>t DEF Put, TypeOK
  <2>4. row[r].now \in Rating /\ x # None
    BY <2>2, <2>3, <1>t, ReplyMakes, NoneIsNoRow DEF TypeOK, Version
  <2>5. row'[r] = [now |-> row[r].now, new |-> x, by |-> c] /\ pc'[c] = "written"
    BY <1>4, <2>2, <2>3, <1>t DEF Reply, Put, Goto, TypeOK
  <2>6. QED BY <2>1, <2>2, <2>3, <2>4, <2>5 DEF Held
<1>5. CASE UNCHANGED row
  BY <1>0, <1>5
<1>6. CASE Publish(c) \/ Rollback(c)
  BY <1>0, <1>6 DEF Publish, Rollback, Stored
<1>7. QED
  BY <1>1, <1>2, <1>3, <1>4, <1>5, <1>6
  DEF Statement, Probe, Reread, Load, Refuse, Find, Answer, Commit

(* A transaction that another call commits or leaves alone keeps its rows   *)
(* as its verb says.                                                        *)
LEMMA HeldStays ==
  ASSUME IInv, NEW c \in Calls, ByCall(c), NEW r \in Rows, ~Writes(r, c)
  PROVE  Held(r)'
<1>t. TypeOK /\ Held(r)
  BY DEF IInv, RowInv
<1>1. CASE Keeps(r, c)
  <2>1. row'[r] = row[r] /\ row[r].by # c /\ (row[r].by # None => row[r].by \in Calls)
    BY <1>1, <1>t DEF Keeps, TypeOK
  <2>2. row[r].by # None => pc'[row[r].by] = pc[row[r].by] /\ link'[row[r].by] = link[row[r].by]
    BY <2>1 DEF ByCall
  <2>3. QED
    BY <2>1, <2>2, <1>t DEF Held, Inserted, Answered, Rearmed, Links, Rows
<1>2. CASE Drops(r, c) \/ Commits(r, c)
  BY <1>2 DEF Drops, Commits, Stored, Held
<1>3. QED BY <1>1, <1>2 DEF ByCall

LEMMA NonceStays ==
  ASSUME IInv, NEW c \in Calls, ByCall(c), NEW r \in Rows
  PROVE  NonceOwned(r)'
<1>t. TypeOK /\ Held(r) /\ NonceOwned(r) /\ InItsVerb(c)
  BY DEF IInv, RowInv, CallInv
<1>1. ASSUME row'[r].now = row[r].now PROVE NonceOwned(r)'
  <2> SUFFICES ASSUME row[r].now # None PROVE NonceOwned(r)'
    BY <1>1 DEF NonceOwned
  <2> DEFINE n == row[r].now.nonce
  <2>1. n \in Calls /\ n # c
    BY <1>t DEF NonceOwned, Minters, ByCall
  <2>2. pc'[n] = pc[n] /\ link'[n] = link[n]
    BY <2>1 DEF ByCall
  <2>3. QED BY <1>1, <2>2, <1>t DEF NonceOwned, Minters, Links, Rows
<1>2. CASE Keeps(r, c) \/ Writes(r, c) \/ Drops(r, c)
  BY <1>1, <1>2 DEF Keeps, Writes, Drops, Stored
<1>3. CASE Commits(r, c)
  <2>1. /\ row[r].by = c /\ c # None /\ row'[r].now = row[r].new
        /\ pc'[c] = "done" /\ link'[c] = link[c]
    BY <1>3, RatingAssumption DEF Commits, Stored
  <2>2. CASE c \in Minters
    <3>1. link[c] \in Links /\ link[c].row = r
      BY <2>1, <2>2, <1>t DEF Held, Minters
    <3>2. row[r].new.nonce = c
      <4>1. CASE c.verb = "issue"
        BY <4>1, <2>1, <1>t DEF Held, Inserted
      <4>2. CASE c.verb \in {"rotate", "reset"}
        <5>1. row[r].now \in Rating /\ row[r].new = Rearmed(c, row[r].now)
          BY <4>2, <2>1, <1>t DEF Held, TypeOK, Version
        <5>2. QED BY <5>1, <3>1, RearmMakes
      <4>3. QED BY <4>1, <4>2, <2>2 DEF Minters
    <3>3. QED BY <2>1, <2>2, <3>1, <3>2 DEF NonceOwned, Minters, Links, Rows
  <2>3. CASE c \notin Minters
    <3>1. c.verb \in {"submit", "reply"}
      BY <2>3, RatingAssumption DEF Minters, Verbs
    <3>2. row[r].now # None /\ row[r].now \in Rating /\ row[r].new.nonce = row[r].now.nonce
      <4>1. row[r].now # None /\ row[r].now \in Rating
        BY <3>1, <2>1, <1>t DEF Held, Answered, TypeOK, Version
      <4>2. CASE c.verb = "submit"
        <5>1. c.value \in Answers
          BY DEF Answers
        <5>2. Answered(r, c)
          BY <4>2, <2>1, <1>t DEF Held
        <5>3. row[r].new = [row[r].now EXCEPT !.consumed = TRUE, !.value = c.value]
          BY <5>2 DEF Answered
        <5>4. [row[r].now EXCEPT !.consumed = TRUE, !.value = c.value].nonce = row[r].now.nonce
          BY <4>1, <5>1, SubmitMakes
        <5>5. QED BY <4>1, <5>3, <5>4
      <4>3. CASE c.verb = "reply"
        <5>1. row[r].new = [row[r].now EXCEPT !.reply = c]
          BY <4>3, <2>1, <1>t DEF Held
        <5>2. [row[r].now EXCEPT !.reply = c].nonce = row[r].now.nonce
          BY <4>1, ReplyMakes
        <5>3. QED BY <4>1, <5>1, <5>2
      <4>4. QED BY <4>1, <4>2, <4>3, <3>1
    <3>3. row[r].now.nonce \in Calls /\ row[r].now.nonce # c
      BY <3>2, <1>t DEF NonceOwned, Minters, ByCall
    <3>4. pc'[row[r].now.nonce] = pc[row[r].now.nonce]
            /\ link'[row[r].now.nonce] = link[row[r].now.nonce]
      BY <3>3 DEF ByCall
    <3>5. QED BY <2>1, <3>2, <3>4, <1>t DEF NonceOwned, Minters, Links, Rows
  <2>4. QED BY <2>2, <2>3
<1>4. QED BY <1>2, <1>3 DEF ByCall

LEMMA HandedStay ==
  ASSUME IInv, NEW c \in Calls, Statement(c) \/ Rollback(c)
  PROVE  LinkInv'
<1>t. TypeOK /\ ByCall(c) /\ InItsVerb(c) /\ AnswersGood(c)
  BY StepByCall DEF IInv, CallInv
<1>1. \A l \in handed : Good(l)'
  BY <1>t, GoodStays DEF IInv, LinkInv
<1>2. CASE Answer(c)
  <2>1. handed' = handed \cup {link[c]} /\ Publish(c) /\ pc'[c] = "done" /\ link' = link
    BY <1>2, <1>t DEF Answer, Goto, TypeOK
  <2>2. PICK l : l = link[c]
    OBVIOUS
  <2>3. l \in Links /\ l.row \in Rows /\ c \in Minters
    BY <1>2, <2>2, <1>t DEF Answer, InItsVerb, Links
  <2>4. Good(l)'
    <3>1. CASE Good(l)
      BY <3>1, <1>t, GoodStays
    <3>2. CASE l.nonce = c /\ row[l.row].by = c
      <4>1. row'[l.row].now # None
        BY <2>1, <2>3, <3>2, <1>t, RatingAssumption DEF Publish, Stored, TypeOK
      <4>2. QED BY <2>1, <2>2, <2>3, <3>2, <4>1 DEF Good, Links, Minters, Rows
    <3>3. QED BY <1>2, <3>1, <3>2, <2>2, <1>t DEF AnswersGood, Answer
  <2>5. QED BY <1>1, <2>1, <2>2, <2>4 DEF LinkInv
<1>3. CASE UNCHANGED handed
  BY <1>1, <1>3 DEF LinkInv
<1>4. QED
  BY <1>2, <1>3
  DEF Statement, Probe, Insert, Reread, Load, Submit, Refuse, Find, Rearm, Reply,
      Commit, Rollback

LEMMA Unchanged ==
  ASSUME IInv, UNCHANGED <<row, pc, link, handed>>
  PROVE  (CallInv /\ RowInv /\ LinkInv)'
<1>1. CallInv'
  BY DEF IInv, CallInv, InItsVerb, LinkStands, AnswersGood, Good, Unborn, Minters, Links, Rows, Stored
<1>2. RowInv'
  <2>1. RowInv
    BY DEF IInv
  <2>2. ASSUME NEW r \in Rows PROVE NonceOwned(r)'
    BY <2>1, <2>2 DEF RowInv, NonceOwned
  <2>3. ASSUME NEW r \in Rows PROVE Held(r)'
    BY <2>1, <2>3 DEF RowInv, Held, Inserted, Answered, Rearmed
  <2>4. QED BY <2>2, <2>3 DEF RowInv, Rows
<1>3. LinkInv'
  BY DEF IInv, LinkInv, Good, Minters, Links, Rows
<1>4. QED BY <1>1, <1>2, <1>3

LEMMA NextInv == IInv /\ [Next]_vars => IInv'
<1> SUFFICES ASSUME IInv, [Next]_vars PROVE IInv'
  OBVIOUS
<1>1. TypeOK'
  BY TypeStep
<1>2. ASSUME NEW c \in Calls, Statement(c) \/ Rollback(c)
      PROVE  (CallInv /\ RowInv /\ LinkInv)'
  <2>1. ByCall(c)
    BY <1>2, StepByCall
  <2>2. CallInv'
    BY <1>2, <2>1, OthersKeep, OwnStep DEF CallInv
  <2>3. RowInv'
    BY <1>2, <2>1, NonceStays, HeldStays, WriteHeld DEF RowInv, Rows
  <2>4. QED BY <1>2, <2>2, <2>3, HandedStay
<1>3. CASE Tick \/ UNCHANGED vars
  <2>1. UNCHANGED <<row, pc, link, handed>>
    BY <1>3 DEF Tick, vars
  <2>2. QED BY <1>1, <2>1, Unchanged DEF IInv
<1>4. QED BY <1>1, <1>2, <1>3 DEF Next, IInv

(* The variables keep their types, and only a call that is going to commit  *)
(* holds a row.                                                             *)
THEOREM TypeCorrect == Spec => []TypeOK
<1>1. Init => IInv
  BY InitInv
<1>2. IInv /\ [Next]_vars => IInv'
  BY NextInv
<1>3. IInv => TypeOK
  BY DEF IInv
<1>4. QED BY <1>1, <1>2, <1>3, PTL DEF Spec

-----------------------------------------------------------------------------
(* A version a statement writes is live only if the row was, or if nobody   *)
(* else's is.                                                               *)
LEMMA WriteExclusive ==
  ASSUME IInv, Exclusive, NEW c \in Calls, Statement(c) \/ Rollback(c),
         NEW r \in Rows, Writes(r, c)
  PROVE  \/ ~Open(r, row'[r].new)
         \/ Open(r, row[r].now)
         \/ Rivals(r) = {}
<1> USE RowsAreCalls
<1>t. TypeOK
  BY DEF IInv
<1>c. InItsVerb(c) /\ LinkStands(c)
  BY DEF IInv, CallInv
<1>0. c # None /\ row[r].by = None /\ row'[r].by = c /\ row' # row
  BY RatingAssumption DEF Writes
<1>1. CASE Insert(c)
  <2>1. c \in Rows /\ Rivals(c) = {}
    BY <1>0, <1>1, <1>c DEF Insert, InItsVerb, Rows
  <2>2. r = c
    BY <1>0, <1>1, <2>1, <1>t DEF Insert, Put, TypeOK
  <2>3. QED BY <2>1, <2>2
<1>2. CASE Submit(c)
  <2>1. link[c].row \in Rows
    BY <1>2, <1>c DEF Submit, InItsVerb, Links
  <2>2. r = link[c].row
    BY <1>0, <1>2, <2>1, <1>t DEF Submit, Put, TypeOK
  <2>3. row[r].now \in Rating /\ c.value \in Answers
    <3>1. row[r].now # None
      BY <1>2, <1>c, <2>2 DEF Submit, LinkStands
    <3>2. row[r].now \in Version
      BY <1>t DEF TypeOK
    <3>3. QED BY <3>1, <3>2 DEF Version, Answers
  <2>4. row'[r].new = [row[r].now EXCEPT !.consumed = TRUE, !.value = c.value]
    BY <1>2, <2>2, <1>t DEF Submit, Put, TypeOK
  <2>5. row'[r].new.consumed
    BY <2>3, <2>4, SubmitMakes
  <2>6. QED BY <2>5 DEF Open
<1>3. CASE Rearm(c)
  <2>1. link[c].row \in Rows
    BY <1>3, <1>c DEF Rearm, InItsVerb, Links
  <2>2. /\ Put(link[c].row, c, Rearmed(c, row[link[c].row].now))
        /\ Open(link[c].row, Rearmed(c, row[link[c].row].now)) => Rivals(link[c].row) = {}
    BY <1>0, <1>3 DEF Rearm
  <2>3. r = link[c].row
    BY <1>0, <2>1, <2>2, <1>t DEF Put, TypeOK
  <2>4. row'[r].new = Rearmed(c, row[r].now)
    BY <2>2, <2>3, <1>t DEF Put, TypeOK
  <2>5. QED BY <2>2, <2>3, <2>4
<1>4. CASE Reply(c)
  <2>1. PICK s \in Rows : row[s].now # None /\ Put(s, c, [row[s].now EXCEPT !.reply = c])
    BY <1>4 DEF Reply
  <2>2. s = r
    BY <1>0, <2>1, <1>t DEF Put, TypeOK
  <2>3. row[r].now \in Rating /\ row[r].now # None
    BY <2>1, <2>2, <1>t DEF TypeOK, Version
  <2>4. row'[r].new = [row[r].now EXCEPT !.reply = c]
    BY <2>1, <2>2, <1>t DEF Put, TypeOK
  <2>5. QED BY <2>3, <2>4, ReplyMakes DEF Open
<1>5. CASE UNCHANGED row
  BY <1>0, <1>5
<1>6. CASE Publish(c) \/ Rollback(c)
  BY <1>0, <1>6 DEF Publish, Rollback, Stored
<1>7. QED
  BY <1>1, <1>2, <1>3, <1>4, <1>5, <1>6
  DEF Statement, Probe, Reread, Load, Refuse, Find, Answer, Commit

LEMMA NextExclusive == IInv /\ Exclusive /\ [Next]_vars => Exclusive'
<1> SUFFICES ASSUME IInv, Exclusive, [Next]_vars PROVE Exclusive'
  OBVIOUS
<1>t. TypeOK
  BY DEF IInv
<1>1. ASSUME NEW c \in Calls, Statement(c) \/ Rollback(c) PROVE Exclusive'
  <2>1. ByCall(c)
    BY <1>1, StepByCall
  <2>2. ASSUME NEW r \in Rows, ~Writes(r, c)
        PROVE  {row'[r].now, row'[r].new} \subseteq Versions(r)
    <3>1. CASE Keeps(r, c)
      BY <3>1 DEF Keeps, Versions
    <3>2. CASE Drops(r, c)
      BY <3>2 DEF Drops, Stored, Versions
    <3>3. CASE Commits(r, c)
      BY <3>3 DEF Commits, Stored, Versions
    <3>4. QED BY <2>1, <2>2, <3>1, <3>2, <3>3 DEF ByCall
  <2>3. ASSUME NEW r \in Rows, Writes(r, c)
        PROVE  /\ {row'[r].now, row'[r].new} \subseteq Versions(r) \cup {row'[r].new}
               /\ row[r].by # row'[r].by
    BY <2>3, RatingAssumption DEF Writes, Versions
  <2>4. ASSUME NEW r \in Rows, Writes(r, c), NEW s \in Rows, ~Writes(s, c),
               r # s, r.rater = s.rater,
               NEW x \in {row'[r].now, row'[r].new}, NEW y \in {row'[s].now, row'[s].new}
        PROVE  ~(Open(r, x) /\ Open(s, y))
    <3>1. y \in Versions(s)
      BY <2>2, <2>4
    <3>2. CASE x \in Versions(r)
      BY <3>1, <3>2, <2>4 DEF Exclusive, NoRivals
    <3>3. CASE x = row'[r].new
      <4>1. CASE Open(r, row[r].now)
        BY <4>1, <3>1, <2>4 DEF Exclusive, NoRivals, Versions
      <4>2. CASE Rivals(r) = {}
        <5>1. ~Open(s, row[s].now) /\ ~Open(s, row[s].new)
          BY <4>2, <2>4 DEF Rivals
        <5>2. QED BY <5>1, <3>1 DEF Versions
      <4>3. QED BY <4>1, <4>2, <3>3, <2>4, <1>1, WriteExclusive
    <3>4. QED BY <3>2, <3>3, <2>3, <2>4
  <2>5. ASSUME NEW r \in Rows, NEW s \in Rows, Writes(r, c), Writes(s, c) PROVE r = s
    <3>1. row' # row /\ row'[r].by = c /\ row'[s].by = c /\ row[r].by # c /\ row[s].by # c
      BY <2>5, RatingAssumption DEF Writes
    <3>2. ASSUME NEW p \in Rows, NEW x, Put(p, c, x) PROVE r = s
      BY <3>1, <3>2, <1>t DEF Put, TypeOK
    <3>3. CASE UNCHANGED row
      BY <3>1, <3>3
    <3>4. CASE Publish(c) \/ Rollback(c)
      BY <3>1, <3>4, RatingAssumption DEF Publish, Rollback, Stored
    <3>5. pc[c] \in {"verified", "found"} => link[c].row \in Rows
      BY DEF IInv, CallInv, InItsVerb, Links
    <3>6. pc[c] = "minted" => c \in Rows
      BY DEF IInv, CallInv, InItsVerb, Rows
    <3>7. QED
      BY <3>2, <3>3, <3>4, <3>5, <3>6, <1>1
      DEF Statement, Probe, Insert, Reread, Load, Submit, Refuse, Find, Rearm, Reply,
          Answer, Commit
  <2>6. ASSUME NEW r \in Rows, NEW s \in Rows, r # s, r.rater = s.rater,
               NEW x \in {row'[r].now, row'[r].new}, NEW y \in {row'[s].now, row'[s].new}
        PROVE  ~(Open(r, x) /\ Open(s, y))
    <3>1. CASE ~Writes(r, c) /\ ~Writes(s, c)
      BY <3>1, <2>2, <2>6 DEF Exclusive, NoRivals
    <3>2. CASE Writes(r, c) /\ ~Writes(s, c)
      BY <3>2, <2>4, <2>6
    <3>3. CASE ~Writes(r, c) /\ Writes(s, c)
      BY <3>3, <2>4, <2>6
    <3>4. QED BY <3>1, <3>2, <3>3, <2>5, <2>6
  <2>7. QED BY <2>6 DEF Exclusive, NoRivals, Versions, Open, Rows
<1>2. CASE Tick \/ UNCHANGED vars
  BY <1>2 DEF Tick, vars, Exclusive, NoRivals, Versions, Open, Rows
<1>3. QED BY <1>1, <1>2 DEF Next

(* However issues, answers and resets overlap, no rater has two live        *)
(* requests.                                                                *)
THEOREM OneRequestPerRater == Spec => []OneLiveRequest
<1>1. Init => IInv /\ Exclusive
  BY InitInv
<1>2. IInv /\ Exclusive /\ [Next]_vars => (IInv /\ Exclusive)'
  BY NextInv, NextExclusive
<1>3. Exclusive => OneLiveRequest
  BY DEF Exclusive, NoRivals, Versions, OneLiveRequest
<1>4. QED BY <1>1, <1>2, <1>3, PTL DEF Spec

-----------------------------------------------------------------------------
(* A call that is not a reply holds no row but its link's.                  *)
LEMMA OneRowHeld ==
  ASSUME IInv, NEW c \in Calls, c.verb # "reply", NEW r \in Rows, row[r].by = c
  PROVE  link[c] \in Links /\ link[c].row = r
<1>1. c # None /\ Held(r)
  BY RatingAssumption DEF IInv, RowInv
<1>2. QED BY <1>1 DEF Held

(* What a call that is not a reply publishes: a version with its own nonce, *)
(* or the answer it gave through its link.                                  *)
LEMMA MinterPublishes ==
  ASSUME IInv, NEW c \in Minters, NEW r \in Rows, row[r].by = c
  PROVE  row[r].new.nonce = c
<1>1. c \in Calls /\ c # None /\ Held(r) /\ TypeOK
  BY RatingAssumption DEF IInv, RowInv, Minters
<1>2. CASE c.verb = "issue"
  BY <1>1, <1>2 DEF Held, Inserted
<1>3. CASE c.verb \in {"rotate", "reset"}
  <2>1. row[r].now \in Rating /\ row[r].new = Rearmed(c, row[r].now) /\ link[c] \in Links
    BY <1>1, <1>3 DEF Held, TypeOK, Version
  <2>2. QED BY <1>1, <2>1, RearmMakes
<1>4. QED BY <1>2, <1>3 DEF Minters

LEMMA SubmitPublishes ==
  ASSUME IInv, NEW c \in Calls, c.verb = "submit", NEW r \in Rows, row[r].by = c
  PROVE  /\ row[r].now \in Rating /\ ~row[r].now.consumed
         /\ row[r].now.nonce = link[c].nonce
         /\ row[r].new \in Rating
         /\ row[r].new.nonce = link[c].nonce
         /\ row[r].new.consumed /\ row[r].new.value = c.value
<1>1. c # None /\ Held(r) /\ TypeOK /\ c.value \in Answers
  BY RatingAssumption DEF IInv, RowInv, Answers
<1>2. Answered(r, c)
  BY <1>1 DEF Held
<1>3. row[r].now \in Rating
  BY <1>1, <1>2 DEF Answered, TypeOK, Version
<1>4. row[r].new = [row[r].now EXCEPT !.consumed = TRUE, !.value = c.value]
  BY <1>2 DEF Answered
<1>5. /\ row[r].new \in Rating /\ row[r].new.nonce = row[r].now.nonce
      /\ row[r].new.consumed /\ row[r].new.value = c.value
  <2> DEFINE y == [row[r].now EXCEPT !.consumed = TRUE, !.value = c.value]
  <2>1. y \in Rating /\ y.nonce = row[r].now.nonce /\ y.consumed /\ y.value = c.value
    BY <1>1, <1>3, SubmitMakes
  <2>2. row[r].new = y
    BY <1>4
  <2> HIDE DEF y
  <2>3. QED BY <2>1, <2>2
<1>6. QED BY <1>2, <1>3, <1>5 DEF Answered

LEMMA ReplyPublishes ==
  ASSUME IInv, NEW c \in Calls, c.verb = "reply", NEW r \in Rows, row[r].by = c
  PROVE  /\ row[r].now # None /\ row[r].new # None
         /\ row[r].new.nonce = row[r].now.nonce
         /\ row[r].new.consumed = row[r].now.consumed
         /\ row[r].new.value = row[r].now.value
<1>1. c # None /\ Held(r) /\ TypeOK
  BY RatingAssumption DEF IInv, RowInv
<1>2. row[r].now \in Rating /\ row[r].now # None /\ row[r].new = [row[r].now EXCEPT !.reply = c]
  BY <1>1 DEF Held, TypeOK, Version
<1>3. QED BY <1>1, <1>2, ReplyMakes DEF Held

LEMMA NextOneTime == IInv /\ OneTime /\ [Next]_vars => OneTime'
<1> SUFFICES ASSUME IInv, OneTime, [Next]_vars PROVE OneTime'
  OBVIOUS
<1>t. TypeOK
  BY DEF IInv
<1>1. ASSUME NEW c \in Calls, Statement(c) \/ Rollback(c) PROVE OneTime'
  <2>b. ByCall(c)
    BY <1>1, StepByCall
  <2>s. CASE Commit(c) /\ c.verb = "submit"
    <3> DEFINE r == link[c].row
               n == link[c].nonce
    <3>1. r \in Rows /\ n \in Calls
      BY <2>s DEF IInv, CallInv, InItsVerb, Commit, Links
    <3>2. row[r].by = c
      BY <2>s DEF OneTime, SubmitHolds, Commit
    <3>3. row[r].now # None /\ row[r].now.nonce = n
      BY <3>1, <3>2, <2>s, SubmitPublishes, NoneIsNoRow
    <3>4. pc[n] = "done" /\ link[n].row = r
      BY <3>1, <3>3 DEF IInv, RowInv, NonceOwned
    <3>5. used' = used \cup {n}
      BY <2>s DEF Commit
    <3>6. Spent'
      <4>1. \A m \in used \cup {n} : m \in Calls /\ m # c /\ pc[m] = "done"
        BY <3>1, <3>4, <1>t, <2>b DEF OneTime, Spent, ByCall, TypeOK
      <4>2. \A m \in used \cup {n} : pc'[m] = pc[m]
        BY <4>1, <2>b DEF ByCall
      <4>3. QED BY <4>1, <4>2, <3>5 DEF Spent
    <3>7. ASSUME NEW s \in Rows PROVE Fresh(s)'
      <4>1. CASE s = r
        <5>1. row'[s].now = row[s].new
          BY <4>1, <3>1, <3>2, <2>s DEF Commit, Publish, Stored
        <5>2. row[s].new.consumed
          BY <4>1, <3>1, <3>2, <2>s, SubmitPublishes
        <5>3. QED BY <5>1, <5>2 DEF Fresh
      <4>2. CASE s # r
        <5>1. row[s].by # c
          BY <4>2, <2>s, OneRowHeld
        <5>2. row'[s] = row[s]
          BY <5>1, <2>s DEF Commit, Publish
        <5>3. row[s].now # None => row[s].now.nonce # n
          BY <4>2, <3>4 DEF IInv, RowInv, NonceOwned
        <5>4. QED BY <5>2, <5>3, <3>5 DEF OneTime, Fresh
      <4>3. QED BY <4>1, <4>2
    <3>8. ASSUME NEW d \in Calls PROVE SubmitHolds(d)'
      <4>1. CASE d = c
        BY <4>1, <2>s, <1>t DEF Commit, Goto, TypeOK, SubmitHolds
      <4>2. CASE d # c
        <5>1. pc'[d] = pc[d] /\ link'[d] = link[d]
          BY <4>2, <2>b DEF ByCall
        <5>2. pc[d] = "written" /\ d.verb = "submit" => link[d].row \in Rows
          BY DEF IInv, CallInv, InItsVerb, Links
        <5>3. QED BY <4>2, <5>1, <5>2, <2>s DEF OneTime, SubmitHolds, Commit, Publish
      <4>3. QED BY <4>1, <4>2
    <3>9. QED BY <3>6, <3>7, <3>8 DEF OneTime, Rows
  <2>o. CASE ~(Commit(c) /\ c.verb = "submit")
    <3>1. used' = used
      BY <1>1, <2>o
      DEF Statement, Probe, Insert, Reread, Load, Submit, Refuse, Find, Rearm, Reply,
          Answer, Commit, Rollback
    <3>2. Spent'
      BY <3>1, <1>t, <2>b DEF OneTime, Spent, ByCall, TypeOK
    <3>3. ASSUME NEW s \in Rows PROVE Fresh(s)'
      <4>1. CASE row'[s].now = row[s].now
        BY <4>1, <3>1 DEF OneTime, Fresh
      <4>2. CASE Commits(s, c)
        <5>1. row[s].by = c /\ row'[s].now = row[s].new /\ c \in Calls
          BY <4>2 DEF Commits, Stored
        <5>2. CASE c \in Minters
          <6>1. row'[s].now.nonce = c
            BY <5>1, <5>2, MinterPublishes
          <6>2. c \notin used
            BY <2>b DEF OneTime, Spent, ByCall
          <6>3. QED BY <6>1, <6>2, <3>1 DEF Fresh
        <5>3. CASE c.verb = "reply"
          BY <5>1, <5>3, <3>1, ReplyPublishes DEF OneTime, Fresh
        <5>4. CASE c.verb = "submit"
          <6>1. row[s].new.consumed
            BY <5>1, <5>4, SubmitPublishes
          <6>2. QED BY <5>1, <6>1 DEF Fresh
        <5>5. QED BY <5>2, <5>3, <5>4, RatingAssumption DEF Minters, Verbs
      <4>3. Keeps(s, c) \/ Writes(s, c) \/ Drops(s, c) => row'[s].now = row[s].now
        BY DEF Keeps, Writes, Drops, Stored
      <4>4. QED BY <4>1, <4>2, <4>3, <2>b DEF ByCall
    <3>4. ASSUME NEW d \in Calls PROVE SubmitHolds(d)'
      <4>1. CASE d = c
        <5> SUFFICES ASSUME pc'[c] = "written", c.verb = "submit" PROVE row'[link'[c].row].by = c
          BY <4>1 DEF SubmitHolds
        <5>1. CASE Submit(c)
          <6>1. link[c].row \in Rows
            BY <5>1 DEF Submit, IInv, CallInv, InItsVerb, Links
          <6>2. QED BY <5>1, <6>1, <1>t DEF Submit, Put, TypeOK
        <5>2. CASE Reply(c)
          BY <5>2 DEF Reply, Begin
        <5>3. ASSUME NEW step \in Steps \ {"written"}, Goto(c, step)
              PROVE  FALSE
          BY <5>3, <1>t DEF Goto, TypeOK
        <5>4. QED
          BY <5>1, <5>2, <5>3, <1>1
          DEF Statement, Probe, Insert, Reread, Load, Refuse, Find, Rearm,
              Answer, Commit, Rollback, Steps, Ended
      <4>2. CASE d # c
        <5>1. pc'[d] = pc[d] /\ link'[d] = link[d]
          BY <4>2, <2>b DEF ByCall
        <5> SUFFICES ASSUME pc[d] = "written", d.verb = "submit" PROVE row'[link[d].row].by = d
          BY <5>1 DEF SubmitHolds
        <5>2. link[d].row \in Rows /\ row[link[d].row].by = d
          BY DEF IInv, CallInv, InItsVerb, Links, OneTime, SubmitHolds
        <5>3. QED BY <4>2, <5>2, <2>b, RatingAssumption
                  DEF ByCall, Keeps, Writes, Drops, Commits
      <4>3. QED BY <4>1, <4>2
    <3>5. QED BY <3>2, <3>3, <3>4 DEF OneTime, Rows
  <2>q. QED BY <2>s, <2>o
<1>2. CASE Tick \/ UNCHANGED vars
  BY <1>2 DEF Tick, vars, OneTime, Spent, Fresh, SubmitHolds, Rows
<1>3. QED BY <1>1, <1>2 DEF Next

-----------------------------------------------------------------------------
(* What the holders of links see of the rows.                               *)
request == [r \in Rows |-> Shown(row[r].now)]

LEMMA ShownRating ==
  ASSUME NEW x \in Rating
  PROVE  /\ Shown(x) = [nonce |-> x.nonce, consumed |-> x.consumed, value |-> x.value]
         /\ Shown(x) # None
         /\ Shown(x).nonce = x.nonce /\ Shown(x).consumed = x.consumed /\ Shown(x).value = x.value
<1>1. [nonce |-> x.nonce, consumed |-> x.consumed, value |-> x.value] \in Request
  BY DEF Rating, Request
<1>2. x # None /\ None \notin Request
  BY NoneIsNoRow
<1>3. QED BY <1>1, <1>2 DEF Shown

(* A step that publishes nothing is not seen.                               *)
LEMMA Unseen ==
  ASSUME \A r \in Rows : Shown(row'[r].now) = Shown(row[r].now)
  PROVE  request' = request
  BY DEF request, Shown, Rows

(* A call that is not a reply publishes one row, its link's, or none.       *)
LEMMA SeenInOneRow ==
  ASSUME IInv, NEW c \in Calls, c.verb # "reply", Publish(c),
         NEW r \in Rows, row[r].by = c
  PROVE  request' = [request EXCEPT ![r] = Shown(row[r].new)]
<1>1. \A s \in Rows : s # r => row[s].by # c
  BY OneRowHeld
<1>2. \A s \in Rows : Shown(row[s].now)' = IF s = r THEN Shown(row[r].new) ELSE Shown(row[s].now)
  BY <1>1 DEF Publish, Stored, Shown
<1>3. QED BY <1>2 DEF request, Rows

(* A call that handed its own link out is seen to mint, rotate or reset.    *)
LEMMA AnswerSeen ==
  ASSUME IInv, OneTime, NEW c \in Calls, Answer(c)
  PROVE  Promise!LinkNext \/ UNCHANGED <<request, used>>
<1>t. TypeOK /\ InItsVerb(c)
  BY DEF IInv, CallInv
<1>a. c \in Minters /\ c.verb # "reply" /\ Publish(c) /\ used' = used
  BY <1>t DEF Answer, InItsVerb, Minters
<1>u. c \in Calls \ used
  BY <1>t DEF Answer, OneTime, Spent
<1>1. CASE \A r \in Rows : row[r].by # c
  <2>1. \A r \in Rows : Shown(row'[r].now) = Shown(row[r].now)
    BY <1>1, <1>a DEF Publish
  <2>2. QED BY <2>1, <1>a, Unseen
<1>2. ASSUME NEW r \in Rows, row[r].by = c PROVE Promise!LinkNext
  <2> DEFINE old == row[r].now
             new == row[r].new
  <2>1. request' = [request EXCEPT ![r] = Shown(new)] /\ request[r] = Shown(old)
    BY <1>2, <1>a, SeenInOneRow DEF request
  <2>2. Held(r) /\ NonceOwned(r) /\ c # None /\ new # None /\ new.nonce = c
    BY <1>2, <1>a, MinterPublishes, RatingAssumption DEF IInv, RowInv, Held
  <2>3. new \in Rating
    BY <2>2, <1>t DEF TypeOK, Version
  <2>4. Shown(new) = [nonce |-> c, consumed |-> new.consumed, value |-> new.value]
    BY <2>2, <2>3, ShownRating
  <2>5. CASE c.verb = "issue"
    <3>1. old = None /\ ~new.consumed /\ new.value = NoValue
      BY <1>2, <2>2, <2>5 DEF Held, Inserted
    <3>2. new.consumed = FALSE
      BY <3>1, <2>3 DEF Rating
    <3>3. request[r] = None
      BY <2>1, <3>1 DEF Shown
    <3>4. request' = [request EXCEPT ![r] = [nonce |-> c, consumed |-> FALSE, value |-> NoValue]]
      BY <2>1, <2>4, <3>1, <3>2
    <3>5. Promise!Mint(r)
      BY <3>3, <3>4, <1>a, <1>u DEF Promise!Mint, Promise!Open, request
    <3>6. QED BY <3>5 DEF Promise!LinkNext
  <2>6. CASE c.verb \in {"rotate", "reset"}
    <3>1. old # None /\ old \in Rating /\ new = Rearmed(c, old) /\ link[c] \in Links
      BY <1>2, <2>2, <2>6, <1>t DEF Held, TypeOK, Version
    <3>2. c # old.nonce
      BY <2>2, <3>1 DEF NonceOwned, Answer
    <3>3. request[r] # None /\ request[r].nonce # c
      BY <2>1, <3>1, <3>2, ShownRating
    <3>4. CASE c.verb = "rotate"
      <4>1. new.consumed = old.consumed /\ new.value = old.value
        BY <3>1, <3>4, RearmMakes
      <4>2. request[r] = [nonce |-> old.nonce, consumed |-> old.consumed, value |-> old.value]
        BY <2>1, <3>1, ShownRating
      <4>3. Shown(new) = [request[r] EXCEPT !.nonce = c]
        BY <2>4, <4>1, <4>2
      <4>4. request' = [request EXCEPT ![r] = [@ EXCEPT !.nonce = c]]
        BY <2>1, <4>3
      <4>5. Promise!Rotate(r)
        BY <3>3, <4>4, <1>a, <1>u DEF Promise!Rotate, request
      <4>6. QED BY <4>5 DEF Promise!LinkNext
    <3>5. CASE c.verb = "reset"
      <4>1. ~new.consumed /\ new.value = NoValue
        BY <3>1, <3>5, RearmMakes
      <4>2. new.consumed = FALSE
        BY <4>1, <2>3 DEF Rating
      <4>3. request' = [request EXCEPT ![r] = [nonce |-> c, consumed |-> FALSE, value |-> NoValue]]
        BY <2>1, <2>4, <4>1, <4>2
      <4>4. Promise!Reset(r)
        BY <3>3, <4>3, <1>a, <1>u DEF Promise!Reset, Promise!Open, request
      <4>5. QED BY <4>4 DEF Promise!LinkNext
    <3>6. QED BY <3>4, <3>5, <2>6
  <2>7. QED BY <2>5, <2>6, <1>a DEF Minters
<1>3. QED BY <1>1, <1>2

(* A submit is seen to answer, through the nonce its row has had since it   *)
(* took the row; a reply is not seen.                                       *)
LEMMA CommitSeen ==
  ASSUME IInv, OneTime, NEW c \in Calls, Commit(c)
  PROVE  Promise!LinkNext \/ UNCHANGED <<request, used>>
<1>t. TypeOK /\ InItsVerb(c)
  BY DEF IInv, CallInv
<1>1. CASE c.verb = "submit"
  <2> DEFINE r == link[c].row
             old == row[r].now
             new == row[r].new
  <2>1. r \in Rows /\ row[r].by = c
    BY <1>1, <1>t DEF Commit, InItsVerb, Links, OneTime, SubmitHolds
  <2>2. request' = [request EXCEPT ![r] = Shown(new)] /\ request[r] = Shown(old)
    BY <1>1, <2>1, SeenInOneRow DEF request, Commit
  <2>3. /\ old \in Rating /\ ~old.consumed /\ old.nonce = link[c].nonce
        /\ new \in Rating /\ new.nonce = link[c].nonce
        /\ new.consumed /\ new.value = c.value
    BY <1>1, <2>1, SubmitPublishes
  <2>4. old # None /\ old.nonce \notin used
    BY <2>1, <2>3, NoneIsNoRow DEF OneTime, Fresh
  <2>5. request[r] # None /\ ~request[r].consumed /\ request[r].nonce = link[c].nonce
    BY <2>2, <2>3, ShownRating
  <2>6. request[r] = [nonce |-> old.nonce, consumed |-> old.consumed, value |-> old.value]
    BY <2>2, <2>3, ShownRating
  <2>7. Shown(new) = [nonce |-> old.nonce, consumed |-> TRUE, value |-> c.value]
    <3>1. new.consumed = TRUE
      BY <2>3 DEF Rating
    <3>2. Shown(new) = [nonce |-> new.nonce, consumed |-> new.consumed, value |-> new.value]
      BY <2>3, ShownRating
    <3>3. QED BY <2>3, <3>1, <3>2
  <2>8. Shown(new) = Promise!Given(request[r].nonce, c.value)
    BY <2>6, <2>7 DEF Promise!Given
  <2>9. c.value \in Answers
    BY DEF Answers
  <2>10. used' = used \cup {request[r].nonce}
    BY <1>1, <2>5 DEF Commit
  <2>11. request' = [request EXCEPT ![r] = Promise!Given(request[r].nonce, c.value)]
    BY <2>2, <2>8
  <2>12. Promise!Answer(r)
    <3>1. request[r].nonce \notin used
      BY <2>3, <2>4, <2>5
    <3>2. QED BY <2>5, <2>9, <2>10, <2>11, <3>1 DEF Promise!Answer, request
  <2>13. QED BY <2>1, <2>12 DEF Promise!LinkNext
<1>2. CASE c.verb = "reply"
  <2>1. used' = used
    BY <1>2 DEF Commit
  <2>2. ASSUME NEW r \in Rows PROVE Shown(row'[r].now) = Shown(row[r].now)
    <3>1. CASE row[r].by = c
      <4>1. row'[r].now = row[r].new
        BY <3>1 DEF Commit, Publish, Stored
      <4>2. QED BY <1>2, <3>1, <4>1, ReplyPublishes DEF Shown
    <3>2. CASE row[r].by # c
      BY <3>2 DEF Commit, Publish
    <3>3. QED BY <3>1, <3>2
  <2>3. QED BY <2>1, <2>2, Unseen
<1>3. QED BY <1>1, <1>2, <1>t DEF Commit, InItsVerb

LEMMA StepSeen ==
  ASSUME IInv, OneTime, [Next]_vars
  PROVE  Promise!LinkNext \/ UNCHANGED <<request, used>>
<1>t. TypeOK
  BY DEF IInv
<1>1. ASSUME NEW c \in Calls, Statement(c) \/ Rollback(c)
      PROVE  Promise!LinkNext \/ UNCHANGED <<request, used>>
  <2>1. CASE Answer(c)
    BY <2>1, AnswerSeen
  <2>2. CASE Commit(c)
    BY <2>2, CommitSeen
  <2>3. CASE ~Answer(c) /\ ~Commit(c)
    <3>1. used' = used /\ pc'[c] # "done"
      BY <1>1, <2>3, <1>t
      DEF Statement, Probe, Insert, Reread, Load, Submit, Refuse, Find, Rearm, Reply,
          Begin, Goto, Rollback, Ended, TypeOK
    <3>2. ByCall(c)
      BY <1>1, StepByCall
    <3>3. ASSUME NEW r \in Rows PROVE row'[r].now = row[r].now
      <4>1. Keeps(r, c) \/ Writes(r, c) \/ Drops(r, c)
        BY <3>1, <3>2 DEF ByCall, Commits
      <4>2. QED BY <4>1 DEF Keeps, Writes, Drops, Stored
    <3>4. QED BY <3>1, <3>3, Unseen
  <2>4. QED BY <2>1, <2>2, <2>3
<1>2. CASE Tick \/ UNCHANGED vars
  BY <1>2, Unseen DEF Tick, vars
<1>3. QED BY <1>1, <1>2 DEF Next

(* The verbs implement OneTimeLink: every committed answer came with the    *)
(* nonce that was good, no nonce is good for two, and only a reset changes  *)
(* an answer.                                                               *)
THEOREM LinksKeepTheirPromise == Spec => LinksAreOneTime
<1>1. Init => IInv /\ OneTime
  BY InitInv
<1>2. IInv /\ OneTime /\ [Next]_vars => (IInv /\ OneTime)'
  BY NextInv, NextOneTime
<1>3. Init => Promise!LinkInit
  BY DEF Init, Promise!LinkInit, Stored, Shown
<1>4. IInv /\ OneTime /\ [Next]_vars =>
        [Promise!LinkNext]_<<[r \in Rows |-> Shown(row[r].now)], used>>
  BY StepSeen DEF request
<1>5. QED BY <1>1, <1>2, <1>3, <1>4, PTL DEF Spec, LinksAreOneTime, Promise!LinkSpec
=============================================================================
