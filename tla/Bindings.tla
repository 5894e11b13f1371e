------------------------------ MODULE Bindings ------------------------------
(***************************************************************************)
(* A ServiceBinding: the controller copies the first credential of an      *)
(* instance into the namespace of a workload, or has the External Secrets  *)
(* operator do so, and wires the copy into the workload's pod template.    *)
(* Everything it depends on comes and goes on its own: the instance        *)
(* publishes its credentials and rotates them, External Secrets relays     *)
(* them, the operator is installed, the workload is deployed and replaced. *)
(* The controller watches none of it: it runs when the binding changes,    *)
(* when its last run failed, and at the informer's resync.                 *)
(***************************************************************************)
EXTENDS Naturals

CONSTANTS
  MaxRotations, \* bound on rotations of the instance's password
  MaxEdits,     \* bound on edits of the binding and removals of the workload
  MaxFaults,    \* bound on failing API calls and manager crashes
  None

ASSUME BindingConstants == MaxRotations \in Nat /\ MaxEdits \in Nat /\ MaxFaults \in Nat

\* How a Secret reaches its namespace: a copy, or the operator and a provider.
Modes == {"direct", "kubernetes", "vault"}

\* None is no password, no provider and no reason to wait.
ASSUME NoneIsApart ==
  None \notin Nat /\ None \notin Modes \cup {"PendingSource", "PendingDependencies"}

VARIABLES
  pw,          \* password in the instance's first Secret, 0 before it exists
  seen,        \* ... as the manager's cache shows it
  published,   \* the instance's status lists its CredentialRefs
  delivery,    \* the instance's own secretPolicy
  projected,   \* the instance's Secret as External Secrets relays it
  mode,        \* the binding's secretPolicy
  operator,    \* the operator's package on the ClusterTarget
  binding,     \* phase of the binding
  b, bQueue,   \* its reconcile in progress, and whether one is queued
  stores, es,  \* the binding's SecretStores; the store its ExternalSecret names
  copy,        \* the Secret in the workload's namespace
  workload,    \* the workload: "absent", "plain" or "wired"
  edits, faults

instanceVars == <<pw, seen, published, delivery, projected>>
objectVars   == <<stores, es, copy, workload>>
vars == <<instanceVars, mode, operator, binding, b, bQueue, objectVars, edits, faults>>

Idle == [pc |-> "idle"]

Init ==
  /\ pw = 0 /\ seen = 0 /\ published = FALSE
  /\ delivery \in {"direct", "kubernetes"} /\ projected = 0
  /\ mode \in Modes /\ operator = "untracked"
  /\ binding = "None" /\ b = Idle /\ bQueue = TRUE
  /\ stores = {} /\ es = None /\ copy = None /\ workload = "absent"
  /\ edits = 0 /\ faults = 0

Fault == faults < MaxFaults /\ faults' = faults + 1

----------------------------------------------------------------------------
(* The ServiceBinding controller *)

\* The Secret CredentialRefs[0] names: the instance's own or its projection.
projectedCredentialRefs == IF delivery = "direct" THEN seen ELSE projected
\* The instance has published a reference and the Secret it names is there.
source == IF published THEN projectedCredentialRefs ELSE 0

\* A package nobody requires and nobody reports on counts as ready.
externalSecretsPackageReady == operator # "pending"
requiresExternalSecretsOperator == mode # "direct"

\* Mutant: the operator is waited for whatever the policy.
gatedAnyway ==
  IF source = 0 THEN "PendingSource"
  ELSE IF ~externalSecretsPackageReady THEN "PendingDependencies"
  ELSE None
\* The checks before anything is written, in their order.
pendingReason ==
  IF source = 0 THEN "PendingSource"
  ELSE IF requiresExternalSecretsOperator /\ ~externalSecretsPackageReady
       THEN "PendingDependencies"
  ELSE None

\* updateStatusIfChanged: a status that changed queues the binding again.
setPhase(ph, queued) == binding' = ph /\ bQueue' = (queued \/ binding # ph)

\* Waiting for something else: no requeue.
Pending ==
  /\ b.pc = "idle" /\ bQueue /\ pendingReason # None
  /\ setPhase(pendingReason, FALSE)
  /\ UNCHANGED <<instanceVars, mode, operator, b, objectVars, edits, faults>>

\* Mutant: the workload is wired before the credentials are delivered.
WireFirst ==
  /\ b.pc = "idle" /\ bQueue /\ pendingReason = None
  /\ bQueue' = FALSE
  /\ b' = [pc |-> "integrate", mode |-> mode, pw |-> source]
  /\ UNCHANGED <<instanceVars, mode, operator, binding, objectVars, edits, faults>>
Begin ==
  /\ b.pc = "idle" /\ bQueue /\ pendingReason = None
  /\ bQueue' = FALSE
  /\ b' = [pc |-> "project", mode |-> mode, pw |-> source]
  /\ UNCHANGED <<instanceVars, mode, operator, binding, objectVars, edits, faults>>

\* Mutant: a Secret that is there is taken to be right.
kept(data) == IF copy = None THEN data ELSE copy
\* The Secret is created with the source's data or overwritten with it.
cloneSecretData(data) == data
CopySecret ==
  /\ b.pc = "project" /\ b.mode = "direct"
  /\ copy' = cloneSecretData(b.pw)
  /\ b' = [b EXCEPT !.pc = "integrate"]
  /\ UNCHANGED <<instanceVars, mode, operator, binding, bQueue, stores, es, workload, edits, faults>>

storesWith(m) == stores \cup {m}
\* The objects the ExternalSecret rests on: the SecretStore, and for the
\* Kubernetes provider the account, role and role binding it reads with.
\* Custom resources are accepted once the operator brought their definitions.
EnsureStore ==
  /\ b.pc = "project" /\ b.mode # "direct" /\ operator = "installed"
  /\ stores' = storesWith(b.mode)
  /\ b' = [b EXCEPT !.pc = "externalSecret"]
  /\ UNCHANGED <<instanceVars, mode, operator, binding, bQueue, es, copy, workload, edits, faults>>

\* createOrUpdateUnstructured: one ExternalSecret per binding, whatever store.
EnsureExternalSecret ==
  /\ b.pc = "externalSecret"
  /\ es' = b.mode
  /\ b' = [b EXCEPT !.pc = "integrate"]
  /\ UNCHANGED <<instanceVars, mode, operator, binding, bQueue, stores, copy, workload, edits,
                 faults>>

\* The workload of the kind and name the binding gives is found and updated.
integrateBindingTarget == workload # "absent"
\* The Secret is added to every container that does not have it yet.
integrateBindingIntoPodObject == "wired"
\* The workload, then the status.
Integrate ==
  /\ b.pc = "integrate"
  /\ \/ ~integrateBindingTarget /\ setPhase("PendingTarget", bQueue) /\ UNCHANGED workload
     \/ /\ integrateBindingTarget /\ setPhase("Ready", bQueue)
        /\ workload' = integrateBindingIntoPodObject
  /\ b' = Idle
  /\ UNCHANGED <<instanceVars, mode, operator, stores, es, copy, edits, faults>>

\* An error is returned and retried with backoff.
Fail ==
  /\ b.pc # "idle"
  /\ \/ b.pc = "project" /\ b.mode # "direct" /\ operator # "installed" /\ UNCHANGED faults
     \/ Fault
  /\ b' = Idle /\ bQueue' = TRUE
  /\ UNCHANGED <<instanceVars, mode, operator, binding, objectVars, edits>>

\* The informer lists every binding again, every ten hours by default.
Resync ==
  /\ ~bQueue /\ bQueue' = TRUE
  /\ UNCHANGED <<instanceVars, mode, operator, binding, b, objectVars, edits, faults>>

\* The manager stops and, once it is back, lists every binding.
Crash ==
  /\ Fault
  /\ b' = Idle /\ bQueue' = TRUE /\ seen' = pw
  /\ UNCHANGED <<pw, published, delivery, projected, mode, operator, binding, objectVars, edits>>

----------------------------------------------------------------------------
(* What the binding depends on *)

\* ensureCredentialSecrets of the ServiceInstance controller ...
EnsureSecret ==
  /\ pw = 0 /\ pw' = 1
  /\ UNCHANGED <<seen, published, delivery, projected, mode, operator, binding, b, bQueue,
                 objectVars, edits, faults>>
\* ... whose reconcile ends with the status.
Publish ==
  /\ pw # 0 /\ ~published /\ published' = TRUE
  /\ UNCHANGED <<pw, seen, delivery, projected, mode, operator, binding, b, bQueue, objectVars,
                 edits, faults>>
\* rotateNATSCredentials of the ActionRequest controller.
Rotate ==
  /\ pw # 0 /\ pw <= MaxRotations /\ pw' = pw + 1
  /\ UNCHANGED <<seen, published, delivery, projected, mode, operator, binding, b, bQueue,
                 objectVars, edits, faults>>
CacheSync ==
  /\ seen # pw /\ seen' = pw
  /\ UNCHANGED <<pw, published, delivery, projected, mode, operator, binding, b, bQueue,
                 objectVars, edits, faults>>

\* The instance's package holds SecretStores and ExternalSecrets ...
renderExternalSecretArtifacts == delivery # "direct" /\ published
\* ... and External Secrets refreshes the projection they describe every hour,
RelayInstance ==
  /\ renderExternalSecretArtifacts /\ operator = "installed"
  /\ projected # pw /\ projected' = pw
  /\ UNCHANGED <<pw, seen, published, delivery, mode, operator, binding, b, bQueue, objectVars,
                 edits, faults>>
\* and the binding's; Vault holds what somebody else put there, which is
\* no password of the instance.
fromVault == 0
provided == IF es = "vault" THEN fromVault ELSE IF delivery = "direct" THEN pw ELSE projected
RelayBinding ==
  /\ es # None /\ es \in stores /\ operator = "installed"
  /\ copy # provided /\ copy' = provided
  /\ UNCHANGED <<instanceVars, mode, operator, binding, b, bQueue, stores, es, workload, edits,
                 faults>>

\* The ClusterTarget controller reports the operator's package.
InstallOperator ==
  /\ \/ operator = "untracked" /\ operator' = "pending"
     \/ operator = "pending" /\ operator' = "installed"
  /\ UNCHANGED <<instanceVars, mode, binding, b, bQueue, objectVars, edits, faults>>

\* validateServiceBindingUpdate: the references are fixed, the policy is not.
EditPolicy ==
  /\ edits < MaxEdits /\ edits' = edits + 1
  /\ \E m \in Modes \ {mode} : mode' = m
  /\ bQueue' = TRUE
  /\ UNCHANGED <<instanceVars, operator, binding, b, objectVars, faults>>

\* The workload's owner deploys it, or removes it and with it the wiring.
Deploy ==
  /\ workload = "absent" /\ workload' = "plain"
  /\ UNCHANGED <<instanceVars, mode, operator, binding, b, bQueue, stores, es, copy, edits, faults>>
Undeploy ==
  /\ workload # "absent" /\ workload' = "absent"
  /\ edits < MaxEdits /\ edits' = edits + 1
  /\ UNCHANGED <<instanceVars, mode, operator, binding, b, bQueue, stores, es, copy, faults>>

----------------------------------------------------------------------------
Reconcile ==
  Pending \/ Begin \/ CopySecret \/ EnsureStore \/ EnsureExternalSecret \/ Integrate \/ Fail
Next ==
  \/ Reconcile \/ Resync \/ Crash
  \/ EnsureSecret \/ Publish \/ Rotate \/ CacheSync
  \/ RelayInstance \/ RelayBinding \/ InstallOperator
  \/ EditPolicy \/ Deploy \/ Undeploy

\* The work queue is served, the resync comes, caches catch up, External
\* Secrets refreshes every hour, the operator and the instance get there; the
\* binding and the workload are touched only if somebody wants to.
Spec ==
  /\ Init /\ [][Next]_vars
  /\ WF_vars(Reconcile) /\ WF_vars(Resync)
  /\ WF_vars(EnsureSecret) /\ WF_vars(Publish) /\ WF_vars(CacheSync)
  /\ WF_vars(RelayInstance) /\ WF_vars(RelayBinding) /\ WF_vars(InstallOperator)

----------------------------------------------------------------------------
Passwords == 0 .. MaxRotations + 1

\* The shape of the state; an ExternalSecret never names a store that the
\* binding has not written before it.
TypeOK ==
  /\ pw \in Passwords /\ seen \in Passwords /\ projected \in Passwords
  /\ published \in BOOLEAN /\ bQueue \in BOOLEAN
  /\ mode \in Modes /\ delivery \in Modes
  /\ operator \in {"untracked", "pending", "installed"}
  /\ binding \in {"None", "PendingSource", "PendingDependencies", "PendingTarget", "Ready"}
  /\ b.pc \in {"idle", "project", "externalSecret", "integrate"}
  /\ stores \subseteq Modes \ {"direct"} /\ es \in stores \cup {None}
  /\ copy \in Passwords \cup {None}
  /\ workload \in {"absent", "plain", "wired"}

\* Pods that were wired to the binding's Secret find it, or the operator is
\* about to write it: the workload is never wired before the credentials are
\* delivered, however often the policy changes or a run is cut short.
WiredHasCredentials ==
  workload = "wired" => copy # None \/ (es # None /\ operator = "installed")

\* A Ready binding is never moved back to waiting for its source or for its
\* workload while both are there: what it once delivered stays delivered.
ReadyHolds ==
  [][binding = "Ready" /\ binding' # "Ready" =>
       \/ binding' = "PendingTarget" /\ workload = "absent"
       \/ binding' = "PendingDependencies" /\ mode # "direct"]_binding

\* A binding whose workload stays deployed ends Ready and wired, with the
\* instance's current password in the workload's namespace, although nothing
\* wakes the controller when what it waits for arrives.  The exception is a
\* binding that left Vault for a direct copy: its ExternalSecret stays behind
\* and goes on writing what Vault holds over the copy.
expected == IF mode = "vault" THEN fromVault ELSE pw
BindingCatchesUp ==
  <>[](workload # "absent") =>
    <>[](/\ binding = "Ready" /\ workload = "wired"
         /\ copy = expected \/ (mode = "direct" /\ es = "vault"))
=============================================================================
