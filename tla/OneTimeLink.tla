------------------------------ MODULE OneTimeLink ------------------------------
(***************************************************************************)
(* What a rating request promises the holders of its links: every answer   *)
(* was given through the link that was good at the time, no link is good   *)
(* for two answers, and an answer changes only by the issuer's reset.      *)
(***************************************************************************)

CONSTANTS Requests, Nonces, Values, NoRequest, NoValue

VARIABLES
  request,  (* per request, NoRequest or its nonce and its answer            *)
  used      (* the nonces an answer was given with                           *)

LinkInit ==
  /\ request = [r \in Requests |-> NoRequest]
  /\ used = {}

Open(n) == [nonce |-> n, consumed |-> FALSE, value |-> NoValue]

Given(n, v) == [nonce |-> n, consumed |-> TRUE, value |-> v]

Mint(r) ==
  /\ request[r] = NoRequest
  /\ \E n \in Nonces \ used : request' = [request EXCEPT ![r] = Open(n)]
  /\ UNCHANGED used

Answer(r) ==
  /\ request[r] # NoRequest
  /\ ~request[r].consumed
  /\ request[r].nonce \notin used
  /\ used' = used \cup {request[r].nonce}
  /\ \E v \in Values : request' = [request EXCEPT ![r] = Given(@.nonce, v)]

Rotate(r) ==
  /\ request[r] # NoRequest
  /\ \E n \in Nonces \ (used \cup {request[r].nonce}) :
       request' = [request EXCEPT ![r] = [@ EXCEPT !.nonce = n]]
  /\ UNCHANGED used

Reset(r) ==
  /\ request[r] # NoRequest
  /\ \E n \in Nonces \ (used \cup {request[r].nonce}) :
       request' = [request EXCEPT ![r] = Open(n)]
  /\ UNCHANGED used

LinkNext == \E r \in Requests : Mint(r) \/ Answer(r) \/ Rotate(r) \/ Reset(r)

LinkSpec == LinkInit /\ [][LinkNext]_<<request, used>>
=============================================================================
