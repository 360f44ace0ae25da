--------------------------- MODULE MCStripeEvents ---------------------------
(***************************************************************************)
(* A payment with two disputes that together take all of it.               *)
(***************************************************************************)
EXTENDS StripeEvents, TLC

CONSTANTS p1, d1, d2, w1

MCOf == (d1 :> p1) @@ (d2 :> p1)
MCMinor == (p1 :> 3) @@ (d1 :> 1) @@ (d2 :> 2)
MCCreated == (p1 :> 1) @@ (d1 :> 2) @@ (d2 :> 3)
=============================================================================
