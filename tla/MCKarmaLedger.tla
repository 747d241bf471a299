---------------------------- MODULE MCKarmaLedger ----------------------------
(***************************************************************************)
(* Small instances of KarmaLedger: two users with different lock keys,     *)
(* three appends, a balance that wraps at 4 (HalfRange = 4).               *)
(***************************************************************************)
EXTENDS KarmaLedger, TLC

CONSTANTS u1, u2

MCUsers == {u1, u2}
MCHashText == (u1 :> 1) @@ (u2 :> 2)

(* 3 overflows a second time; -2 moves the other way.                       *)
MCDeltas == {-2, 3}
=============================================================================
