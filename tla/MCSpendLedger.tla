--------------------------- MODULE MCSpendLedger ---------------------------
(***************************************************************************)
(* Instances of the spend ledger for TLC.                                  *)
(***************************************************************************)
EXTENDS SpendLedger, TLC

CONSTANTS u1, u2, p1, p2, b1, b2, b3, r1, r2, r3, r4, d1, d2

OneDeposit8 == d1 :> [user |-> u1, au |-> 8]
TwoDeposits == (d1 :> [user |-> u1, au |-> 20]) @@ (d2 :> [user |-> u2, au |-> 10])

\* The ids buyers pick are interchangeable, and so are the providers.
IdSymmetry ==
    {f @@ g @@ h : f \in Permutations(Reservation), g \in Permutations(Billing),
                   h \in Permutations(Provider)}
=============================================================================
