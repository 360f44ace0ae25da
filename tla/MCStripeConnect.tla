--------------------------- MODULE MCStripeConnect ---------------------------
EXTENDS StripeConnect
=============================================================================
