--------------------------- MODULE MCCertification ---------------------------
(***************************************************************************)
(* Small instances of Certification and of BadgeGrants within it.  A       *)
(* behaviour takes its calls, facts and policies from one scenario:        *)
(*   - caps: three peer grants of one badge by one sender, over a month    *)
(*     boundary, while the cap is edited between 1, 2, none and no number; *)
(*   - ladder: a having badge b2 whose prerequisite b1 arrives by a peer   *)
(*     grant or a keyed grant, beside a self-grant, while policies change; *)
(*   - keyed: one key delivered three times and another once, while the    *)
(*     badge is deleted and restored;                                      *)
(*   - certify: facts of two surveys, one of them redelivered, on two      *)
(*     badges of one name.                                                 *)
(***************************************************************************)
EXTENDS Certification, TLC

CONSTANTS b1, b2, b3, u1, u2, u3, k1, k2, i1, i2, i3, i4, n1, n2, sa, sb,
  MaxUnderway   (* bound on the facts delivered                              *)

VARIABLE scenario

Scenarios == {"caps", "ladder", "keyed", "certify"}

MCNameOf == (b1 :> n1 @@ b2 :> n2 @@ b3 :> n1)

MCPolicy(auth, prereqs, cap) ==
  [active |-> TRUE, auth |-> auth, allow |-> {u3}, prereqs |-> prereqs, cap |-> cap]

Closed == [MCPolicy("everyone", << >>, Uncapped) EXCEPT !.active = FALSE]

Peer(i, b, s, r) == [id |-> i, badge |-> b, sender |-> s, recipient |-> r]
Keyed(i, b, r, k) == [id |-> i, badge |-> b, recipient |-> r, key |-> k]
Fact(i, r, k, s) == [id |-> i, name |-> n1, recipient |-> r, key |-> k, survey |-> s]

CapsCalls == {Peer(i, b1, u1, u2) : i \in {i1, i2, i3}}
LadderPeers == {Peer(i1, b1, u3, u1), Peer(i2, b2, u1, u2), Peer(i3, b2, u1, u1)}
LadderKeyed == {Keyed(i4, b1, u1, k1)}
KeyedCalls == {Keyed(i, b1, u1, k1) : i \in {i1, i2, i3}} \cup {Keyed(i4, b1, u1, k2)}
MCFacts == {Fact(i1, u1, k1, sa), Fact(i2, u2, k2, sb), Fact(i3, u1, k1, sa)}
FactGrants == {GrantOf(f, b) : f \in MCFacts, b \in {b1, b3}}

MCPeerCalls == CapsCalls \cup LadderPeers
MCSystemCalls == LadderKeyed \cup KeyedCalls \cup FactGrants

CapsPolicies == {MCPolicy("everyone", << >>, cap) : cap \in {1, 2, Uncapped, NoNumber}}
LadderPolicies ==
  {MCPolicy("having", <<b1>>, Uncapped), MCPolicy("having", <<b1, b1>>, Uncapped),
   MCPolicy("users", << >>, 1), MCPolicy("nobody", << >>, Uncapped),
   Closed}
MCPolicies == CapsPolicies \cup LadderPolicies

(* The calls of a scenario, how many transactions are open at a time, which *)
(* badges are edited, and how many edits, rollbacks and month ends happen.  *)
Scenario ==
  CASE scenario = "caps" ->
         [calls |-> CapsCalls, open |-> 2, edited |-> {b1}, edits |-> 1, aborts |-> 1, months |-> 1]
    [] scenario = "ladder" ->
         [calls |-> LadderPeers \cup LadderKeyed, open |-> 2, edited |-> {b2}, edits |-> 1,
          aborts |-> 0, months |-> 0]
    [] scenario = "keyed" ->
         [calls |-> KeyedCalls, open |-> 3, edited |-> {b1}, edits |-> 2, aborts |-> 1, months |-> 0]
    [] scenario = "certify" ->
         [calls |-> FactGrants, open |-> 2, edited |-> {b1, b3}, edits |-> 1,
          aborts |-> 0, months |-> 0]

(* The policies a badge may have in the scenario.                           *)
May(b) ==
  CASE scenario = "caps" /\ b = b1 -> CapsPolicies
    [] scenario = "ladder" /\ b = b1 -> {MCPolicy("users", << >>, 1), MCPolicy("having", <<b1>>, Uncapped)}
    [] scenario = "ladder" /\ b = b2 -> {p \in LadderPolicies : p.auth # "users"}
    [] OTHER -> {Closed}

MCInit ==
  /\ scenario \in Scenarios
  /\ CertInit
  /\ \A b \in Badges : badge[b] \in May(b)
  /\ badge[b1].cap \in {1, Uncapped} /\ badge[b2].auth \in {"having", "everyone"}
  /\ survey[b2] = None
  /\ survey[b1] = None
  /\ survey[b3] \in {sa, sb}
  /\ scenario # "certify" => survey[b3] = sa

Underway == {f \in Facts : step[f] # "idle"}

(* Calls that differ by their id only begin in the order of their ids.      *)
InOrder ==
  scenario \in {"caps", "keyed"} =>
    \A c, d \in Scenario.calls :
      <<c.id, d.id>> \in {<<i1, i2>>, <<i2, i3>>} => (pc[c] = "idle" => pc[d] = "idle")

MCNext ==
  /\ CertNext
  /\ UNCHANGED scenario
  /\ month' <= Scenario.months
  /\ edits' + Cardinality(moved') <= Scenario.edits
  /\ \A b \in Badges : badge'[b] = Deleted => scenario \in {"keyed", "certify"}
  /\ \A b \in Badges : badge'[b] \in May(b) \cup {Deleted}
  /\ \A b \in Badges \ Scenario.edited : badge'[b] = badge[b] /\ survey'[b] = survey[b]
  /\ \A c \in Calls \ Scenario.calls : pc'[c] = "idle"
  /\ IF scenario = "certify" THEN Cardinality(Underway') <= MaxUnderway
     ELSE Underway' = {} /\ UNCHANGED survey
  /\ InOrder'
  /\ Cardinality({c \in Calls : pc'[c] \notin {"idle"} \cup Ended}) <= Scenario.open
  /\ Cardinality({c \in Calls : pc'[c] = "aborted"}) <= Scenario.aborts

MCSpec == MCInit /\ [][MCNext]_<<allVars, scenario>> /\ CertFairness
=============================================================================
