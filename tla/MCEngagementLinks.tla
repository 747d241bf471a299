--------------------------- MODULE MCEngagementLinks ---------------------------
(***************************************************************************)
(* Small instances of EngagementLinks.  A behaviour takes its calls from   *)
(* one scenario:                                                           *)
(*   - resolves and authored campaigns whose names differ by spelling and  *)
(*     counter, on three masters;                                          *)
(*   - creates of two tuples, with attribution or without, and three codes *)
(*     of two lengths;                                                     *)
(*   - a tracker and the hits of two visitors around midnight, at a cap of *)
(*     one click, one of them with an address no dedup_key can hold;       *)
(*   - a chain of trackers (RedirectTarget) from every short target.       *)
(***************************************************************************)
EXTENDS EngagementLinks, RedirectTarget

CONSTANTS upper, lower, spring, full, i1, i2, i3, i4, i5, i6, i7, i8,
          shop, blog, mailto, ka, kb, kc, ip1, unknown, long

VARIABLE scenario

NameOf(base, spelling, n) == [base |-> base, spelling |-> spelling, counter |-> n]

MCNames == {NameOf(b, s, n) : b \in {spring, full}, s \in {upper, lower}, n \in 0..MaxCounter}

Values(campaign, source, medium) ==
  [k \in Kinds |-> CASE k = "campaign" -> campaign
                     [] k = "source" -> source
                     [] k = "medium" -> medium]

MCCall(i, verb, value, title, explicit, target, ip) ==
  [id |-> i, verb |-> verb, value |-> value, title |-> title,
   explicit |-> explicit, target |-> target, ip |-> ip]

Resolve(i, campaign, source, medium) ==
  MCCall(i, "resolve", Values(campaign, source, medium), None, None, None, None)

Author(i, title, explicit) ==
  MCCall(i, "author", None, title, explicit, None, None)

Create(i, target) == MCCall(i, "track", None, None, None, target, None)

Hit(i, ip) == MCCall(i, "hit", None, None, None, None, ip)

Spring == NameOf(spring, upper, 0)
SPRING == NameOf(spring, lower, 0)
Spring1 == NameOf(spring, upper, 1)
Full == NameOf(full, upper, 0)

Naming ==
  {Resolve(i1, Spring, Spring, None), Resolve(i2, SPRING, SPRING, None),
   Resolve(i3, Full, None, Full), Author(i5, Spring1, None), Author(i6, Full, None),
   Author(i7, Full, SPRING)}

Minting == {Create(i1, shop), Create(i2, shop), Create(i3, blog), Resolve(i4, Spring, None, None)}

Visiting ==
  {Create(i1, shop), Hit(i5, ip1), Hit(i6, ip1), Hit(i7, unknown), Hit(i8, long)}

MCCalls == Naming \cup Minting \cup Visiting

MCCodes == [n \in MinLength..MaxLength |-> IF n = MinLength THEN {ka} ELSE {kb, kc}]

(* A name with the marks of a query and of a fragment in it.                *)
MCMasterNames == {<<"word", "&", "#">>}

(* Per scenario, how many of its calls begin at most, and how many edits.   *)
Begun == {c \in Calls : pc[c] # "idle"}

MCInit ==
  /\ Init
  /\ \/ /\ scenario \in {"naming", "renaming", "minting", "reusing", "visiting"}
        /\ AtTarget(<<>>)
     \/ /\ scenario = "chaining"
        /\ RedirectInit

Scenario ==
  CASE scenario = "naming" -> [calls |-> Naming, begun |-> 3, edits |-> 0]
    [] scenario = "renaming" -> [calls |-> Naming, begun |-> 2, edits |-> 2]
    [] scenario = "minting" -> [calls |-> Minting, begun |-> 3, edits |-> 0]
    [] scenario = "reusing" -> [calls |-> Minting \cup Visiting, begun |-> 2, edits |-> 2]
    [] scenario = "visiting" -> [calls |-> Visiting, begun |-> 4, edits |-> 0]
    [] scenario = "chaining" -> [calls |-> {}, begun |-> 0, edits |-> 0]

(* Visitors come once the tracker is minted.                                *)
Opens(c) ==
  /\ Cardinality(Begun) < Scenario.begun
  /\ c \in Hits => \A d \in Scenario.calls \cap Creates : pc[d] = "done"
  /\ Begin(c)

(* One call at most is dropped, unless another already failed.              *)
Drops(c) == (\A d \in Calls : pc[d] # "failed") /\ Rollback(c)

Links ==
  \/ scenario = "visiting" /\ Midnight
  \/ edits < Scenario.edits /\ \E i \in Ids : EditMaster(i)
  \/ edits < Scenario.edits /\ \E t \in Creates : EditTracker(t)
  \/ \E c \in Scenario.calls : Opens(c) \/ Statement(c) \/ Drops(c)

MCNext ==
  /\ \/ Links /\ UNCHANGED redirectVars
     \/ scenario = "chaining" /\ Redirect /\ UNCHANGED vars
  /\ UNCHANGED scenario

allVars == <<vars, redirectVars, scenario>>

MCSpec == MCInit /\ [][MCNext]_allVars /\ Fairness
=============================================================================
