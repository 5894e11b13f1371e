-------------------------- MODULE MCActionRequest --------------------------
(* Instances of ActionRequest: what the requests of each run ask for.      *)
EXTENDS ActionOperations

CONSTANTS r1, r2, t1, west, south

SameTarget == [r \in Requests |-> t1]

(* The second failover names a standby that is not promotion-ready.        *)
Candidates == [r \in Requests |-> IF r = r1 THEN west ELSE south]
WestReady == [t \in Targets |-> {west}]

Backups == [r \in Requests |-> "backup"]
Failovers == [r \in Requests |-> "failover"]
RotateAndRestart ==
  [r \in Requests |-> IF r = r1 THEN "rotate-credentials" ELSE "restart"]

=============================================================================
