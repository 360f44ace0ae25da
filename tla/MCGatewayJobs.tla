--------------------------- MODULE MCGatewayJobs ---------------------------
(* Instances of GatewayJobs for TLC.                                       *)
EXTENDS GatewayJobs
=============================================================================
