-------------------------- MODULE MCReceiptOutbox --------------------------
(* Instances of ReceiptOutbox for TLC.                                     *)
EXTENDS ReceiptOutbox

CONSTANT a1
=============================================================================
