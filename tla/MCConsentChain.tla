---------------------------- MODULE MCConsentChain ----------------------------
(***************************************************************************)
(* Two consents of one citizen, a revocation of the first that may come    *)
(* from another citizen, and an evaluation under the first.                *)
(***************************************************************************)
EXTENDS ConsentChain

CONSTANTS z1, z2, g1, g2, v1, a1

OwnedByZ1 == [g \in Grant |-> z1]
UnderG1 == [r \in Revocation \cup Ask |-> g1]
=============================================================================
