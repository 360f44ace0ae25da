-------------------------- MODULE MCInferencePool --------------------------
(***************************************************************************)
(* A small instance of the TAP escrow: roots that disagree about a         *)
(* claimant (one allocates more than the deposits a token's fee leaves),   *)
(* and spends on both sides of the rounding step at 6 and 7.               *)
(***************************************************************************)
EXTENDS MayhemInferencePool

CONSTANTS alice, operator, governor, pool, zero

OwnerChoices == {alice, governor}
MCAddress == {alice, operator, governor, pool, zero}
GovernanceRoots == {{<<alice, 1>>}, {<<alice, 8>>, <<pool, 1>>}}
=============================================================================
