------------------------------ MODULE ClickLedger ------------------------------
(***************************************************************************)
(* What resolve_redirect promises of its click ledger: "one counted click  *)
(* per (tracker, ip, UTC day)", and that a visitor who is sent on was      *)
(* counted, by this visit or by an earlier one of the day, unless the      *)
(* tracker is at its cap.                                                  *)
(***************************************************************************)
EXTENDS Integers, FiniteSets

CONSTANTS Hits, Trackers, Days, MaxClicks, None

VARIABLES
  clicks,   (* the visits that were counted                                  *)
  visit     (* per hit that was sent on, its tracker, address and day        *)

LedgerInit ==
  /\ clicks = {}
  /\ visit = [h \in Hits |-> None]

CountedBefore(v) == \E h \in clicks : visit[h] = v

CountFirst(h, v) == ~CountedBefore(v) /\ clicks' = clicks \cup {h}

CountNot(v) == CountedBefore(v) /\ UNCHANGED clicks

AtCap(v) == Cardinality({h \in clicks : visit[h][1] = v[1]}) >= MaxClicks

Send(h) ==
  /\ visit[h] = None
  /\ \E t \in Trackers, d \in Days :
       LET v == <<t, h.ip, d>> IN
         /\ visit' = [visit EXCEPT ![h] = v]
         /\ \/ CountFirst(h, v)
            \/ CountNot(v)
            \/ AtCap(v) /\ UNCHANGED clicks

LedgerNext == \E h \in Hits : Send(h)

LedgerSpec == LedgerInit /\ [][LedgerNext]_<<clicks, visit>>
=============================================================================
