------------------------------ MODULE MCGateway ------------------------------
(* Values for model-checking Gateway.tla: both events are in a channel that  *)
(* the second client may not view, so that the first client's queue fills    *)
(* while the second logs in, asks and leaves.                                *)
EXTENDS Gateway

CONSTANTS c1, c2, e1, e2

MCHidden == Events \X {c2}
=============================================================================
