-------------------------- MODULE ExactlyOnceGrants --------------------------
(***************************************************************************)
(* What the keyed system grant promises its callers, without the           *)
(* transactions that achieve it: "exactly-once per grant_key under         *)
(* at-least-once delivery".  Each key is minted by one delivery, for ever, *)
(* and every delivery that is answered is told the row of that one.        *)
(***************************************************************************)
CONSTANTS
  Deliveries,  (* calls of grant_system, redeliveries included: [key, ...]   *)
  Keys,        (* the grant keys they carry                                  *)
  None         (* no delivery                                                *)

VARIABLES
  minted,      (* per key, the delivery whose row holds it                   *)
  told         (* per delivery, the row it was answered with                 *)

absVars == <<minted, told>>

AbsInit ==
  /\ minted = [k \in Keys |-> None]
  /\ told = [d \in Deliveries |-> None]

Mint(d) ==
  /\ minted[d.key] = None
  /\ minted' = [minted EXCEPT ![d.key] = d]
  /\ UNCHANGED told

Tell(d) ==
  /\ minted[d.key] # None
  /\ told[d] = None
  /\ told' = [told EXCEPT ![d] = minted[d.key]]
  /\ UNCHANGED minted

AbsNext == \E d \in Deliveries : Mint(d) \/ Tell(d)

AbsSpec == AbsInit /\ [][AbsNext]_absVars
=============================================================================
