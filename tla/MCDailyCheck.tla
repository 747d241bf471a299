----------------------------- MODULE MCDailyCheck -----------------------------
(***************************************************************************)
(* Small instances of DailyCheck: three runs that overlap around two       *)
(* midnights, on a challenge of two days that reports daily and that one   *)
(* verb is called on by hand, and one that starts later, never ends and    *)
(* reports monthly.                                                        *)
(***************************************************************************)
EXTENDS DailyCheck, TLC

CONSTANTS w1, w2, w3

MCStart == <<0, 1>>
MCEnd == <<1, Null>>
MCFrequency == <<"daily", "monthly">>

(* Runs are alike: they begin in order.                                     *)
InOrder == (pc[w1] = "idle" => pc[w2] = "idle") /\ (pc[w2] = "idle" => pc[w3] = "idle")

(* A verb called by hand is about the first challenge.                      *)
ByHand == {1}

MCNext == Next /\ InOrder' /\ edited' \subseteq ByHand

MCSpec == Init /\ [][MCNext]_vars /\ Fairness
=============================================================================
