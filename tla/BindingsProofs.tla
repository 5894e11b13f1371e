---------------------------- MODULE BindingsProofs ----------------------------
(* Proofs about Bindings for any number of rotations, edits and faults.    *)
EXTENDS Bindings, TLAPS

USE BindingConstants, NoneIsApart

(* What the controller holds between two steps of a reconcile.             *)
RunType ==
  \/ b = Idle
  \/ b \in [pc : {"project", "externalSecret", "integrate"}, mode : Modes, pw : Passwords]

TypeInv == TypeOK /\ RunType

(* A password that was seen or relayed exists: nothing ever takes the      *)
(* instance's Secret away.                                                 *)
SecretInv ==
  /\ seen # 0 => pw # 0
  /\ projected # 0 => pw # 0

(* Whoever got past the first gate can get past it again.                  *)
SourceInv ==
  b.pc # "idle" \/ binding \in {"Ready", "PendingTarget", "PendingDependencies"}
  => source # 0

(* The binding's Secret is there, or the operator is about to write it.    *)
Provisioned == copy # None \/ (es # None /\ operator = "installed")

(* What the steps of a reconcile have left behind so far.                  *)
DeliveryInv ==
  /\ es # None => operator = "installed"
  /\ b.pc = "externalSecret" => b.mode \in stores /\ operator = "installed"
  /\ b.pc = "integrate" => Provisioned
  /\ WiredHasCredentials

Inv == TypeInv /\ SecretInv /\ SourceInv /\ DeliveryInv

(* The step of ReadyHolds.                                                 *)
ReadyKept ==
  binding = "Ready" /\ binding' # "Ready" =>
    \/ binding' = "PendingTarget" /\ workload = "absent"
    \/ binding' = "PendingDependencies" /\ mode # "direct"

-----------------------------------------------------------------------------
(* The initial state satisfies the invariant.                              *)
LEMMA InitInv == Init => Inv
<1> SUFFICES ASSUME Init PROVE Inv
  OBVIOUS
<1>1. TypeOK
  <2>1. 0 \in Passwords /\ b.pc = "idle"
    BY DEF Init, Passwords, Idle
  <2> QED BY <2>1 DEF Init, TypeOK, Modes
<1>t. TypeInv
  BY <1>1 DEF Init, TypeInv, RunType
<1>2. SecretInv /\ SourceInv /\ DeliveryInv
  BY DEF Init, SecretInv, SourceInv, DeliveryInv, WiredHasCredentials, Provisioned, Idle
<1> QED BY <1>t, <1>2 DEF Inv

(* The shape of a reconcile in progress.                                   *)
LEMMA RunFacts ==
  ASSUME RunType
  PROVE  /\ b.pc \in {"idle", "project", "externalSecret", "integrate"}
         /\ b.pc # "idle" =>
              /\ b \in [pc : {"project", "externalSecret", "integrate"}, mode : Modes,
                        pw : Passwords]
              /\ b.mode \in Modes /\ b.pw \in Passwords
BY DEF RunType, Idle

(* The reasons to wait, and when there is none.                            *)
LEMMA ReasonFacts ==
  /\ source = 0 => pendingReason = "PendingSource"
  /\ source # 0 => \/ pendingReason = None
                   \/ pendingReason = "PendingDependencies" /\ mode # "direct"
BY DEF pendingReason, requiresExternalSecretsOperator

(* Every step keeps the shape of the state.                                *)
LEMMA NextType == Inv /\ [Next]_vars => TypeInv'
<1> SUFFICES ASSUME Inv, [Next]_vars PROVE TypeInv'
  OBVIOUS
<1> USE DEF Inv, TypeInv, TypeOK, Passwords
<1>r. RunType
  OBVIOUS
<1>b. b.pc # "idle" => /\ b.mode \in Modes /\ b.pw \in Passwords
                       /\ b \in [pc : {"project", "externalSecret", "integrate"},
                                 mode : Modes, pw : Passwords]
  BY RunFacts
<1>i. Idle.pc = "idle"
  BY DEF Idle
<1>1. CASE Pending
  BY <1>1, <1>r, ReasonFacts DEF Pending, setPhase, RunType, instanceVars, objectVars
<1>2. CASE Begin
  <2>1. source \in Passwords
    BY DEF source, projectedCredentialRefs
  <2>2. b' \in [pc : {"project", "externalSecret", "integrate"}, mode : Modes, pw : Passwords]
    BY <1>2, <2>1 DEF Begin
  <2> QED BY <1>2, <2>2 DEF Begin, RunType, instanceVars, objectVars
<1>3. CASE CopySecret
  <2>1. b' \in [pc : {"project", "externalSecret", "integrate"}, mode : Modes, pw : Passwords]
    BY <1>3, <1>b DEF CopySecret
  <2> QED BY <1>3, <1>b, <2>1 DEF CopySecret, cloneSecretData, RunType, instanceVars
<1>4. CASE EnsureStore
  <2>1. b' \in [pc : {"project", "externalSecret", "integrate"}, mode : Modes, pw : Passwords]
    BY <1>4, <1>b DEF EnsureStore
  <2> QED BY <1>4, <1>b, <2>1 DEF EnsureStore, storesWith, RunType, instanceVars
<1>5. CASE EnsureExternalSecret
  <2>1. b' \in [pc : {"project", "externalSecret", "integrate"}, mode : Modes, pw : Passwords]
    BY <1>5, <1>b DEF EnsureExternalSecret
  <2> QED BY <1>5, <1>b, <2>1
          DEF EnsureExternalSecret, RunType, instanceVars, DeliveryInv
<1>6. CASE Integrate
  BY <1>6, <1>i DEF Integrate, setPhase, integrateBindingIntoPodObject, RunType, instanceVars
<1>7. CASE Fail
  BY <1>7, <1>i DEF Fail, RunType, instanceVars, objectVars
<1>8. CASE Resync
  BY <1>8 DEF Resync, RunType, instanceVars, objectVars
<1>9. CASE Crash
  BY <1>9, <1>i DEF Crash, RunType, objectVars
<1>10. CASE EnsureSecret \/ Publish \/ Rotate \/ CacheSync
  <2>1. pw' \in Passwords /\ seen' \in Passwords /\ published' \in BOOLEAN
    <3>1. CASE EnsureSecret
      BY <3>1 DEF EnsureSecret
    <3>2. CASE Rotate
      BY <3>2 DEF Rotate
    <3>3. CASE Publish \/ CacheSync
      BY <3>3 DEF Publish, CacheSync
    <3> QED BY <1>10, <3>1, <3>2, <3>3
  <2>2. UNCHANGED <<delivery, projected, mode, operator, binding, b, bQueue, objectVars>>
    BY <1>10 DEF EnsureSecret, Publish, Rotate, CacheSync
  <2> QED BY <2>1, <2>2 DEF RunType, objectVars
<1>11. CASE RelayInstance
  BY <1>11 DEF RelayInstance, RunType, objectVars
<1>12. CASE RelayBinding
  BY <1>12 DEF RelayBinding, provided, fromVault, RunType, instanceVars
<1>13. CASE InstallOperator
  BY <1>13 DEF InstallOperator, RunType, instanceVars, objectVars
<1>14. CASE EditPolicy
  BY <1>14 DEF EditPolicy, RunType, instanceVars, objectVars
<1>15. CASE Deploy \/ Undeploy
  BY <1>15 DEF Deploy, Undeploy, RunType, instanceVars
<1>16. CASE UNCHANGED vars
  BY <1>16 DEF vars, instanceVars, objectVars, RunType
<1> QED BY <1>1, <1>2, <1>3, <1>4, <1>5, <1>6, <1>7, <1>8, <1>9, <1>10, <1>11,
           <1>12, <1>13, <1>14, <1>15, <1>16 DEF Next, Reconcile

(* Every step keeps what the controller relies on: the source it saw, and  *)
(* the credentials it has delivered before it wires a workload.            *)
LEMMA NextDelivery == Inv /\ [Next]_vars => SecretInv' /\ SourceInv' /\ DeliveryInv'
<1> SUFFICES ASSUME Inv, [Next]_vars PROVE SecretInv' /\ SourceInv' /\ DeliveryInv'
  OBVIOUS
<1> USE DEF Inv, SecretInv, SourceInv, DeliveryInv, WiredHasCredentials, Provisioned,
            source, projectedCredentialRefs
<1>t. /\ pw \in Nat /\ seen \in Nat /\ projected \in Nat
      /\ copy \in Nat \cup {None} /\ es \in Modes \cup {None}
      /\ stores \subseteq Modes
  BY DEF TypeInv, TypeOK, Passwords
<1>b. b.pc # "idle" => b.mode \in Modes /\ b.pw \in Nat /\ b.pw # None /\ b.mode # None
  BY RunFacts DEF TypeInv, Passwords
<1>n. \A n \in Nat : n # None
  OBVIOUS
<1>i. Idle.pc = "idle"
  BY DEF Idle
<1>1. CASE Pending
  <2>1. /\ UNCHANGED <<instanceVars, operator, b, objectVars>>
        /\ binding' = pendingReason /\ pendingReason # None
    BY <1>1 DEF Pending, setPhase
  <2>2. source = 0 => binding' = "PendingSource"
    BY <2>1, ReasonFacts
  <2> QED BY <2>1, <2>2 DEF instanceVars, objectVars
<1>2. CASE Begin
  <2>1. source # 0
    BY <1>2, ReasonFacts DEF Begin
  <2> QED BY <1>2, <2>1 DEF Begin, instanceVars, objectVars
<1>3. CASE CopySecret
  <2>1. copy' # None /\ b'.pc = "integrate"
    BY <1>3, <1>b, <1>t, RunFacts DEF CopySecret, cloneSecretData, TypeInv
  <2> QED BY <1>3, <2>1 DEF CopySecret, instanceVars
<1>4. CASE EnsureStore
  <2>1. b'.pc = "externalSecret" /\ b'.mode \in stores' /\ operator = "installed"
    BY <1>4, <1>b, RunFacts DEF EnsureStore, storesWith, TypeInv
  <2> QED BY <1>4, <2>1 DEF EnsureStore, instanceVars
<1>5. CASE EnsureExternalSecret
  <2>1. b'.pc = "integrate" /\ es' # None /\ operator = "installed"
    BY <1>5, <1>b, RunFacts DEF EnsureExternalSecret, TypeInv
  <2> QED BY <1>5, <2>1 DEF EnsureExternalSecret, instanceVars
<1>6. CASE Integrate
  BY <1>6, <1>i DEF Integrate, setPhase, integrateBindingIntoPodObject, instanceVars
<1>7. CASE Fail
  BY <1>7, <1>i DEF Fail, instanceVars, objectVars
<1>8. CASE Resync
  BY <1>8 DEF Resync, instanceVars, objectVars
<1>9. CASE Crash
  BY <1>9, <1>i DEF Crash, objectVars
<1>10. CASE EnsureSecret \/ Publish \/ Rotate \/ CacheSync
  BY <1>10, <1>t DEF EnsureSecret, Publish, Rotate, CacheSync, objectVars
<1>11. CASE RelayInstance
  BY <1>11, <1>t DEF RelayInstance, renderExternalSecretArtifacts, objectVars
<1>12. CASE RelayBinding
  BY <1>12, <1>t, <1>n DEF RelayBinding, provided, fromVault, instanceVars
<1>13. CASE InstallOperator
  BY <1>13 DEF InstallOperator, instanceVars, objectVars
<1>14. CASE EditPolicy
  BY <1>14 DEF EditPolicy, instanceVars, objectVars
<1>15. CASE Deploy \/ Undeploy
  BY <1>15 DEF Deploy, Undeploy, instanceVars
<1>16. CASE UNCHANGED vars
  BY <1>16 DEF vars, instanceVars, objectVars
<1> QED BY <1>1, <1>2, <1>3, <1>4, <1>5, <1>6, <1>7, <1>8, <1>9, <1>10, <1>11,
           <1>12, <1>13, <1>14, <1>15, <1>16 DEF Next, Reconcile

(* A step that takes a binding out of Ready has one of the two reasons.    *)
LEMMA NextReady == Inv /\ [Next]_vars => ReadyKept
<1> SUFFICES ASSUME Inv, [Next]_vars, binding = "Ready", binding' # "Ready" PROVE ReadyKept
  BY DEF ReadyKept
<1>1. source # 0
  BY DEF Inv, SourceInv
<1>2. Pending \/ Integrate
  BY DEF Next, Reconcile, Begin, CopySecret, EnsureStore, EnsureExternalSecret, Fail,
         Resync, Crash, EnsureSecret, Publish, Rotate, CacheSync, RelayInstance,
         RelayBinding, InstallOperator, EditPolicy, Deploy, Undeploy, vars
<1>3. CASE Pending
  BY <1>1, <1>3, ReasonFacts DEF Pending, setPhase, ReadyKept
<1>4. CASE Integrate
  BY <1>4 DEF Integrate, setPhase, integrateBindingTarget, ReadyKept
<1> QED BY <1>2, <1>3, <1>4

(* Every reachable state satisfies the invariant.                          *)
LEMMA Invariance == Spec => []Inv
<1>1. Inv /\ [Next]_vars => Inv'
  BY NextType, NextDelivery DEF Inv
<1> QED BY InitInv, <1>1, PTL DEF Spec

(* Every reachable state is well typed, for any bounds; in particular an   *)
(* ExternalSecret never names a SecretStore that was not written before.   *)
THEOREM TypeCorrect == Spec => []TypeOK
<1>1. Inv => TypeOK
  BY DEF Inv, TypeInv
<1> QED BY Invariance, <1>1, PTL

(* The controller wires no workload to credentials that are not delivered, *)
(* whatever changes or fails between the steps of its reconcile.           *)
THEOREM CredentialsBeforeWiring == Spec => []WiredHasCredentials
<1>1. Inv => WiredHasCredentials
  BY DEF Inv, DeliveryInv
<1> QED BY Invariance, <1>1, PTL

(* A Ready binding leaves Ready only because its workload is gone or its   *)
(* policy needs an operator that is not there.                             *)
THEOREM ReadyIsKept == Spec => ReadyHolds
<1>1. Inv /\ [Next]_vars => [ReadyKept]_binding
  BY NextReady
<1>2. Spec => [][ReadyKept]_binding
  BY Invariance, <1>1, PTL DEF Spec
<1>3. ReadyHolds <=> [][ReadyKept]_binding
  BY DEF ReadyHolds, ReadyKept
<1> QED BY <1>2, <1>3

=============================================================================
