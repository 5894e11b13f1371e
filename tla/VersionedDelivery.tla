-------------------------- MODULE VersionedDelivery --------------------------
(***************************************************************************)
(* What delivery promises the users of the platform, with no Git, no pods  *)
(* and no reconciles in it: every package has a version its owner wants,   *)
(* one that is published, one that is acknowledged in its status and one   *)
(* that runs.  Publishing follows the wish, the acknowledgement follows    *)
(* publishing, and none of the three ever goes back; what runs was         *)
(* published at that moment.                                               *)
(***************************************************************************)
EXTENDS Naturals

CONSTANT Packages

VARIABLES
  wanted,     \* the version of each package's spec
  published,  \* the version in the delivery repository, 0 before the first
  acked,      \* the version its status was last written for
  running     \* the version deployed from the repository, 0 for none

deliveryVars == <<wanted, published, acked, running>>

Init ==
  /\ wanted = [k \in Packages |-> 1]
  /\ published = [k \in Packages |-> 0]
  /\ acked = [k \in Packages |-> 0]
  /\ running = [k \in Packages |-> 0]

(* The owner changes the spec.                                             *)
Want(k) ==
  /\ wanted' = [wanted EXCEPT ![k] = @ + 1]
  /\ UNCHANGED <<published, acked, running>>

(* Packages are published, several at once when a push carries several     *)
(* commits, and never at a version nobody asked for.                       *)
Publish ==
  /\ published' \in [Packages -> Nat]
  /\ \A k \in Packages : published[k] <= published'[k] /\ published'[k] <= wanted[k]
  /\ UNCHANGED <<wanted, acked, running>>

(* A published version, no older than the last one, is acknowledged.       *)
Acknowledge(k) ==
  /\ \E v \in acked[k]..published[k] : acked' = [acked EXCEPT ![k] = v]
  /\ UNCHANGED <<wanted, published, running>>

(* What is published is deployed, and what runs is taken away.             *)
Deploy(k) ==
  /\ running' = [running EXCEPT ![k] = published[k]]
  /\ UNCHANGED <<wanted, published, acked>>

Undeploy(k) ==
  /\ running' = [running EXCEPT ![k] = 0]
  /\ UNCHANGED <<wanted, published, acked>>

Next ==
  \/ Publish
  \/ \E k \in Packages : Want(k) \/ Acknowledge(k) \/ Deploy(k) \/ Undeploy(k)

Spec == Init /\ [][Next]_deliveryVars
=============================================================================
