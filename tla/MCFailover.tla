----------------------------- MODULE MCFailover -----------------------------
(* Instances of Failover.                                                  *)
EXTENDS Failover

CONSTANTS east, west

=============================================================================
