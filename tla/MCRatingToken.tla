----------------------------- MODULE MCRatingToken -----------------------------
(***************************************************************************)
(* Small instances of RatingToken: one rater, links of two lifetimes, and  *)
(* every verb against every other (of seven calls, at most MaxBegun in one *)
(* behaviour).                                                             *)
(***************************************************************************)
EXTENDS RatingToken, FiniteSets

CONSTANTS ann, i1, i2, i3, i4, i5, i6, i7, MaxBegun

Call(i, verb, rater, value, ttl) ==
  [id |-> i, verb |-> verb, rater |-> rater, value |-> value, ttl |-> ttl]

(* Two requests of one rater, two submits, a rotate, a reset and a reply.   *)
AllVerbs ==
  {Call(i1, "issue", ann, 0, 2), Call(i2, "issue", ann, 0, 1),
   Call(i3, "submit", None, 1, 0), Call(i4, "submit", None, 2, 0),
   Call(i5, "rotate", None, 0, 2), Call(i6, "reset", None, 0, 2),
   Call(i7, "reply", None, 0, 0)}

(* At most MaxBegun of the calls begin.                                     *)
Begun == {c \in Calls : pc[c] # "idle"}

MCNext ==
  \/ Tick
  \/ \E c \in Calls :
       /\ c \in Begun \/ Cardinality(Begun) < MaxBegun
       /\ Statement(c) \/ Rollback(c)

MCSpec == Init /\ [][MCNext]_vars /\ Fairness
=============================================================================
