---------------------------- MODULE ClustersProofs ----------------------------
(* Proofs about Clusters for any packages, tokens and number of events.    *)
EXTENDS Clusters, TLAPS

(* What a status says of the packages.                                     *)
Reports == [Packages -> PackagePhases \cup {None}]

(* Whatever is reported Installed was completely there at some time.       *)
Truthful(packages) ==
    \A p \in Packages : packages[p] = "Installed" => p \in everReady

(* The objects of the packages: a package that is completely there counts  *)
(* as one that was.                                                        *)
ObjectsInv ==
    /\ cluster \in [Packages -> [docs : SUBSET Documents, ready : BOOLEAN]]
    /\ \A p \in Packages :
         probePackage(p, cluster[p].docs, cluster[p].ready) => p \in everReady

(* The reports that a reconcile collects and that the target keeps.        *)
ReportInv ==
    /\ run # None =>
         /\ run \in [version : Nat, token : Tokens \cup {"empty", "garbled"},
                     phase : {"PendingCredentials", "Failed", "Ready"},
                     inventory : SUBSET Packages, todo : SUBSET Packages,
                     packages : Reports]
         /\ Truthful(run.packages)
    /\ target # None =>
         /\ target \in [required : SUBSET Packages, version : Nat,
                        status : [phase : {"", "PendingCredentials", "Failed", "Ready"},
                                  observed : Nat, inventory : SUBSET Packages,
                                  packages : Reports]]
         /\ Truthful(target.status.packages)

(* What the ServiceInstance controller read at its gate and wrote after it.*)
GateInv ==
    /\ instance \in [external : BOOLEAN, placed : BOOLEAN,
                     phase : {"", "Failed", "PendingDependencies", "Provisioning"},
                     needs : SUBSET Packages]
    /\ siRun # None => siRun \in [version : Nat, needs : SUBSET (everReady \cap Packages)]
    /\ DeliveredOnInstalledPackages

(* A version of the Secret is used once, so the cached client's version    *)
(* tells its kubeconfig.                                                   *)
ClientInv ==
    /\ events \in Nat
    /\ secret # None =>
         secret \in [token : Tokens \cup {"empty", "garbled"}, version : 0..events]
    /\ clients # None =>
         \E v \in Nat, sv \in 0..events, t \in Tokens :
            /\ clients = [key |-> <<v, sv>>, token |-> t]
            /\ secret # None /\ secret.version = sv => secret.token = t
    /\ ClientIsCurrent

Inv == ObjectsInv /\ ReportInv /\ GateInv /\ ClientInv

-----------------------------------------------------------------------------
(* The initial state satisfies the invariant.                              *)
LEMMA InitInv == Init => Inv
<1> USE ConstantsAssumption
<1> SUFFICES ASSUME Init PROVE Inv
  OBVIOUS
<1>1. ObjectsInv
  BY DEF Init, ObjectsInv, Documents, probePackage
<1>2. ReportInv
  <2>1. noStatus.packages \in Reports /\ \A p \in Packages : noStatus.packages[p] # "Installed"
    BY DEF noStatus, Reports
  <2> QED BY <2>1 DEF Init, ReportInv, noStatus, Truthful
<1>3. GateInv
  BY DEF Init, GateInv, DeliveredOnInstalledPackages
<1>4. ClientInv
  <2>1. ClientIsCurrent
    BY DEF Init, ClientIsCurrent
  <2>2. events = 0 /\ clients = None /\ secret = [token |-> InitialToken, version |-> 0]
    BY DEF Init
  <2> QED BY <2>1, <2>2 DEF ClientInv
<1> QED BY <1>1, <1>2, <1>3, <1>4 DEF Inv

(* Nothing is ever forgotten of what was completely there.                 *)
LEMMA HistoryGrows == [Next]_vars => everReady \subseteq everReady'
<1> SUFFICES ASSUME [Next]_vars PROVE everReady \subseteq everReady'
  OBVIOUS
<1>1. CASE Controllers
  BY <1>1 DEF Controllers, BeginUnconnected, BeginConnected, ReconcilePackage,
     WriteTarget, GateInstance, DeliverInstance, remote, installPackageDirect,
     ensurePackageArgoApp, applied
<1>2. CASE People
  BY <1>2 DEF People, CreateCluster, UpdateCluster, DeleteCluster, RequirePackages,
     WriteSecret, RotateToken, EditOperatorPackages, PublishClass, SetSecretPolicy,
     InstallArgo, remote
<1>3. CASE Environment
  BY <1>3 DEF Environment, WorkloadReady, WorkloadFails, ArgoSync, Restart, applied,
     remote
<1>4. CASE UNCHANGED vars
  BY <1>4 DEF vars
<1> QED BY <1>1, <1>2, <1>3, <1>4 DEF Next

(* Applying some documents of a package keeps the objects' invariant; with *)
(* all of them, a running package is recorded.                             *)
LEMMA AppliedObjects ==
  ASSUME ObjectsInv, NEW p, NEW docs \in SUBSET Documents, applied(p, docs)
  PROVE  /\ ObjectsInv'
         /\ docs = Documents /\ p \in Packages /\ cluster[p].ready => p \in everReady'
<1>1. CASE p \in Packages
  <2>1. cluster' \in [Packages -> [docs : SUBSET Documents, ready : BOOLEAN]]
    BY <1>1 DEF ObjectsInv, applied
  <2>2. /\ cluster'[p].docs = cluster[p].docs \cup docs
        /\ cluster'[p].ready = cluster[p].ready
        /\ \A q \in Packages \ {p} : cluster'[q] = cluster[q]
    BY <1>1 DEF ObjectsInv, applied
  <2>3. everReady \subseteq everReady'
    BY DEF applied
  <2>4. probePackage(p, cluster'[p].docs, cluster'[p].ready) => p \in everReady'
    BY <1>1, <2>2 DEF applied, probePackage
  <2>5. docs = Documents => cluster'[p].docs = Documents
    BY <1>1, <2>1, <2>2
  <2>6. docs = Documents /\ cluster[p].ready => p \in everReady'
    BY <2>5 DEF applied
  <2> QED BY <2>1, <2>2, <2>3, <2>4, <2>6 DEF ObjectsInv, probePackage
<1>2. CASE p \notin Packages
  <2>1. cluster' = cluster /\ everReady \subseteq everReady'
    BY <1>2 DEF ObjectsInv, applied
  <2> QED BY <1>2, <2>1 DEF ObjectsInv, probePackage
<1> QED BY <1>1, <1>2

(* Each step keeps the objects' invariant.                                 *)
LEMMA NextObjects == ObjectsInv /\ [Next]_vars => ObjectsInv'
<1> SUFFICES ASSUME ObjectsInv, [Next]_vars PROVE ObjectsInv'
  OBVIOUS
<1>u. ASSUME cluster' = cluster, everReady \subseteq everReady' PROVE ObjectsInv'
  BY <1>u DEF ObjectsInv, probePackage
<1>1. CASE BeginUnconnected \/ BeginConnected \/ WriteTarget \/ GateInstance \/ DeliverInstance
  <2>1. cluster' = cluster /\ everReady' = everReady
    BY <1>1 DEF BeginUnconnected, BeginConnected, WriteTarget, GateInstance,
       DeliverInstance, remote
  <2> QED BY <1>u, <2>1
<1>2. CASE ReconcilePackage
  <2>1. UNCHANGED <<cluster, everReady>>
        \/ \E p, docs : docs \in SUBSET Documents /\ applied(p, docs)
    BY <1>2 DEF ReconcilePackage, installPackageDirect, ensurePackageArgoApp
  <2> QED BY <1>u, <2>1, AppliedObjects
<1>3. CASE People
  <2>1. cluster' = cluster /\ everReady' = everReady
    BY <1>3 DEF People, CreateCluster, UpdateCluster, DeleteCluster, RequirePackages,
     WriteSecret, RotateToken, EditOperatorPackages, PublishClass, SetSecretPolicy,
     InstallArgo, remote
  <2> QED BY <1>u, <2>1
<1>4. ASSUME NEW p \in Packages, WorkloadReady(p) PROVE ObjectsInv'
  BY <1>4 DEF WorkloadReady, ObjectsInv, probePackage
<1>5. ASSUME NEW p \in Packages, WorkloadFails(p) PROVE ObjectsInv'
  BY <1>5 DEF WorkloadFails, ObjectsInv, probePackage
<1>6. ASSUME NEW p \in Packages, ArgoSync(p) PROVE ObjectsInv'
  BY <1>6, AppliedObjects DEF ArgoSync
<1>7. CASE Restart \/ UNCHANGED vars
  <2>1. cluster' = cluster /\ everReady' = everReady
    BY <1>7 DEF Restart, remote, vars
  <2> QED BY <1>u, <2>1
<1> QED BY <1>1, <1>2, <1>3, <1>4, <1>5, <1>6, <1>7 DEF Next, Controllers, Environment

(* A report of a package that is not known as Installed without having     *)
(* been there stays truthful.                                              *)
LEMMA TruthfulReport ==
  ASSUME ReportInv, run # None, everReady \subseteq everReady', NEW p,
         NEW phase \in PackagePhases, packageDone(p, phase),
         phase = "Installed" /\ p \in Packages => p \in everReady'
  PROVE  run' # None =>
           /\ run' \in [version : Nat, token : Tokens \cup {"empty", "garbled"},
                     phase : {"PendingCredentials", "Failed", "Ready"},
                     inventory : SUBSET Packages, todo : SUBSET Packages,
                     packages : Reports]
           /\ Truthful(run.packages)'
<1>1. /\ run.packages \in Reports /\ Truthful(run.packages)
      /\ run' = [run EXCEPT !.todo = @ \ {p}, !.packages = [run.packages EXCEPT ![p] = phase]]
  BY DEF ReportInv, packageDone
<1> DEFINE new == [run.packages EXCEPT ![p] = phase]
<1>2. new \in Reports
  BY <1>1 DEF Reports
<1>3. \A q \in Packages : new[q] = IF q = p THEN phase ELSE run.packages[q]
  BY <1>1 DEF Reports
<1>4. run' \in [version : Nat, token : Tokens \cup {"empty", "garbled"},
                phase : {"PendingCredentials", "Failed", "Ready"},
                inventory : SUBSET Packages, todo : SUBSET Packages,
                packages : Reports]
      /\ run'.packages = new
  <2> HIDE DEF new
  <2>1. run' = [run EXCEPT !.todo = @ \ {p}, !.packages = new]
    BY <1>1 DEF new
  <2> QED BY <1>2, <2>1 DEF ReportInv
<1>5. Truthful(run.packages)'
  BY <1>1, <1>3, <1>4 DEF Truthful
<1> QED BY <1>4, <1>5

(* Each step keeps the reports truthful: what a reconcile reports as       *)
(* Installed it has just seen or applied, and only the status of the       *)
(* target it read is written.                                              *)
LEMMA NextReport == ObjectsInv /\ ReportInv /\ events \in Nat /\ [Next]_vars => ReportInv'
<1> USE ConstantsAssumption
<1> SUFFICES ASSUME ObjectsInv, ReportInv, events \in Nat, [Next]_vars PROVE ReportInv'
  OBVIOUS
<1>h. everReady \subseteq everReady'
  BY HistoryGrows
<1>t. ASSUME target' = target PROVE
        target' # None =>
         /\ target' \in [required : SUBSET Packages, version : Nat,
                        status : [phase : {"", "PendingCredentials", "Failed", "Ready"},
                                  observed : Nat, inventory : SUBSET Packages,
                                  packages : Reports]]
         /\ Truthful(target.status.packages)'
  BY <1>h, <1>t DEF ReportInv, Truthful
<1>r. ASSUME run' = run \/ run' = None PROVE
        run' # None =>
         /\ run' \in [version : Nat, token : Tokens \cup {"empty", "garbled"},
                     phase : {"PendingCredentials", "Failed", "Ready"},
                     inventory : SUBSET Packages, todo : SUBSET Packages,
                     packages : Reports]
         /\ Truthful(run.packages)'
  BY <1>h, <1>r DEF ReportInv, Truthful
<1>1. CASE BeginUnconnected
  <2>1. target' = target /\ target # None
    BY <1>1 DEF BeginUnconnected
  <2>2. \E phase \in {"PendingCredentials", "Failed"} :
          /\ begun(phase, {}, {}, target.status.packages)
          /\ clusterConnectionData \in {"empty", "garbled"}
    BY <1>1 DEF BeginUnconnected
  <2>3. PICK phase \in {"PendingCredentials", "Failed"} :
          run' = [version |-> target.version, token |-> clusterConnectionData,
                  phase |-> phase, inventory |-> {}, todo |-> {},
                  packages |-> target.status.packages]
    BY <2>2 DEF begun
  <2>4. run'.packages = target.status.packages
        /\ run' \in [version : Nat, token : Tokens \cup {"empty", "garbled"},
                     phase : {"PendingCredentials", "Failed", "Ready"},
                     inventory : SUBSET Packages, todo : SUBSET Packages,
                     packages : Reports]
    BY <2>1, <2>2, <2>3 DEF ReportInv
  <2>5. Truthful(run.packages)'
    BY <1>h, <2>1, <2>4 DEF ReportInv, Truthful
  <2> QED BY <1>t, <2>1, <2>4, <2>5 DEF ReportInv
<1>2. CASE BeginConnected
  <2> DEFINE nothing == [p \in Packages |-> None]
             todo == effectiveRequiredPackagesForClusterTarget
  <2>1. target' = target /\ target # None /\ clusterConnectionData \in Tokens
        /\ begun("Ready", discoveredOperatorInventory, todo, nothing)
    BY <1>2 DEF BeginConnected
  <2>2. nothing \in Reports /\ \A p \in Packages : nothing[p] # "Installed"
    BY DEF Reports
  <2>3. todo \in SUBSET Packages
    BY <2>1 DEF effectiveRequiredPackagesForClusterTarget, ReportInv
  <2>4. discoveredOperatorInventory \in SUBSET Packages
    BY DEF discoveredOperatorInventory
  <2> HIDE DEF nothing, todo
  <2> QED BY <1>t, <2>1, <2>2, <2>3, <2>4 DEF begun, ReportInv, Truthful
<1>3. CASE ReconcilePackage
  <2> DEFINE p == Min(run.todo)
  <2>1. target' = target /\ run # None
    BY <1>3 DEF ReconcilePackage
  <2>2. \E phase \in PackagePhases :
          /\ packageDone(p, phase)
          /\ phase = "Installed" /\ p \in Packages => p \in everReady'
    <3>1. CASE \E phase \in PackagePhases \ {"Installed"} : packageDone(p, phase)
      BY <3>1
    <3>2. CASE packageDone(p, "Installed")
               /\ probePackage(p, cluster[p].docs, cluster[p].ready)
      <4> HIDE DEF p
      <4> QED BY <1>h, <3>2 DEF ObjectsInv, PackagePhases
    <3>3. CASE applied(p, Documents) /\ probePackage(p, Documents, cluster[p].ready)
               /\ packageDone(p, "Installed")
      <4> HIDE DEF p
      <4> QED BY <3>3, AppliedObjects DEF probePackage, PackagePhases
    <3> HIDE DEF p
    <3>4. CASE installPackageDirect(p)
      BY <3>1, <3>3, <3>4 DEF installPackageDirect, PackagePhases
    <3>5. CASE ensurePackageArgoApp(p)
      BY <3>1, <3>5 DEF ensurePackageArgoApp, PackagePhases
    <3>6. CASE packageDone(p, "Error")
      BY <3>1, <3>6 DEF PackagePhases
    <3>7. \/ packageDone(p, "Error")
          \/ packageDone(p, "Installed")
             /\ probePackage(p, cluster[p].docs, cluster[p].ready)
          \/ installPackageDirect(p)
          \/ ensurePackageArgoApp(p)
      BY <1>3 DEF ReconcilePackage, p
    <3> QED BY <3>2, <3>4, <3>5, <3>6, <3>7
  <2> HIDE DEF p
  <2> QED BY <1>h, <1>t, <2>1, <2>2, TruthfulReport DEF ReportInv
<1>4. CASE WriteTarget
  <2>1. run' = None /\ run # None
    BY <1>4 DEF WriteTarget
  <2>2. CASE target' = target
    BY <1>r, <1>t, <2>1, <2>2 DEF ReportInv
  <2>3. CASE target # None /\ target' = [target EXCEPT !.status =
                         [phase |-> run.phase, observed |-> run.version,
                          inventory |-> run.inventory, packages |-> run.packages]]
    BY <1>h, <1>r, <2>1, <2>3 DEF ReportInv, Truthful
  <2> QED BY <1>4, <2>2, <2>3 DEF WriteTarget
<1>5. CASE GateInstance \/ DeliverInstance
  BY <1>r, <1>t, <1>5 DEF GateInstance, DeliverInstance, ReportInv
<1>6. CASE CreateCluster
  <2>1. noStatus.packages \in Reports /\ \A p \in Packages : noStatus.packages[p] # "Installed"
    BY DEF noStatus, Reports
  <2>2. fresh \in Nat
    BY DEF fresh
  <2>3. run' = run /\ target' = [required |-> {}, version |-> fresh, status |-> noStatus]
    BY <1>6 DEF CreateCluster
  <2> QED BY <1>r, <2>1, <2>2, <2>3 DEF ReportInv, noStatus, Truthful
<1>7. CASE UpdateCluster \/ RequirePackages
  <2>0. fresh \in Nat
    BY DEF fresh
  <2>1. run' = run /\ target # None /\ fresh \in Nat
    BY <1>7, <2>0 DEF UpdateCluster, RequirePackages
  <2>2. PICK required \in SUBSET Packages :
          target' = [target EXCEPT !.required = required, !.version = fresh]
    <3>1. CASE UpdateCluster
      <4>1. target' = [target EXCEPT !.version = fresh] /\ target.required \in SUBSET Packages
        BY <2>1, <3>1 DEF UpdateCluster, ReportInv
      <4>2. target' = [target EXCEPT !.required = target.required, !.version = fresh]
        BY <2>1, <4>1 DEF ReportInv
      <4> QED BY <4>1, <4>2
    <3>2. CASE RequirePackages
      BY <3>2 DEF RequirePackages
    <3> QED BY <1>7, <3>1, <3>2
  <2>3. target'.status = target.status
        /\ target' \in [required : SUBSET Packages, version : Nat,
                        status : [phase : {"", "PendingCredentials", "Failed", "Ready"},
                                  observed : Nat, inventory : SUBSET Packages,
                                  packages : Reports]]
    BY <2>1, <2>2 DEF ReportInv
  <2>4. Truthful(target.status.packages)'
    BY <1>h, <2>1, <2>3 DEF ReportInv, Truthful
  <2> QED BY <1>r, <2>1, <2>3, <2>4 DEF ReportInv
<1>8. CASE DeleteCluster
  BY <1>r, <1>8 DEF DeleteCluster, ReportInv
<1>9. CASE WriteSecret \/ RotateToken \/ EditOperatorPackages \/ PublishClass
           \/ SetSecretPolicy \/ InstallArgo
  BY <1>r, <1>t, <1>9 DEF WriteSecret, RotateToken, EditOperatorPackages, PublishClass,
     SetSecretPolicy, InstallArgo, ReportInv
<1>10. CASE Environment \/ UNCHANGED vars
  BY <1>r, <1>t, <1>10 DEF Environment, WorkloadReady, WorkloadFails, ArgoSync, Restart,
     vars, ReportInv
<1> QED BY <1>1, <1>2, <1>3, <1>4, <1>5, <1>6, <1>7, <1>8, <1>9, <1>10
        DEF Next, Controllers, People

(* The gate opens only on packages that were there, and they stay recorded.*)
LEMMA NextGate == ReportInv /\ GateInv /\ events \in Nat /\ [Next]_vars => GateInv'
<1> USE ConstantsAssumption
<1> SUFFICES ASSUME ReportInv, GateInv, events \in Nat, [Next]_vars PROVE GateInv'
  OBVIOUS
<1>h. everReady \subseteq everReady'
  BY HistoryGrows
<1>k. ASSUME siRun' = siRun \/ siRun' = None, instance' = instance PROVE GateInv'
  BY <1>h, <1>k DEF GateInv, DeliveredOnInstalledPackages
<1>1. CASE GateInstance
  <2>1. CASE siRun' = siRun /\ \E phase \in {"Failed", "PendingDependencies"} :
               instance' = [instance EXCEPT !.phase = phase, !.placed = TRUE]
    BY <1>h, <2>1 DEF GateInv, DeliveredOnInstalledPackages
  <2>2. CASE /\ target # None /\ packagesReady(requiredPackagesForServiceInstance)
             /\ siRun' = [version |-> target.version,
                         needs |-> {p \in requiredPackagesForServiceInstance : ~unlisted(p)}]
             /\ instance' = instance
    <3>1. requiredPackagesForServiceInstance \subseteq Packages
      BY DEF requiredPackagesForServiceInstance
    <3>2. {p \in requiredPackagesForServiceInstance : ~unlisted(p)} \subseteq everReady
      BY <2>2, <3>1 DEF packagesReady, ReportInv, Truthful
    <3>3. siRun' \in [version : Nat, needs : SUBSET (everReady' \cap Packages)]
      BY <1>h, <2>2, <3>1, <3>2 DEF ReportInv
    <3> QED BY <1>h, <2>2, <3>3 DEF GateInv, DeliveredOnInstalledPackages
  <2> QED BY <1>1, <2>1, <2>2 DEF GateInstance
<1>2. CASE DeliverInstance
  <2>1. CASE instance' = instance
    BY <1>k, <1>2, <2>1 DEF DeliverInstance
  <2>2. CASE instance' = [instance EXCEPT !.phase = "Provisioning", !.placed = TRUE,
                                          !.needs = siRun.needs]
    <3>1. siRun.needs \in SUBSET (everReady \cap Packages) /\ siRun' = None
      BY <1>2 DEF DeliverInstance, GateInv
    <3> QED BY <1>h, <2>2, <3>1 DEF GateInv, DeliveredOnInstalledPackages
  <2> QED BY <1>2, <2>1, <2>2 DEF DeliverInstance
<1>3. CASE SetSecretPolicy
  <2>1. siRun' = siRun /\ instance' = [instance EXCEPT !.external = ~instance.external]
    BY <1>3 DEF SetSecretPolicy
  <2> QED BY <1>h, <2>1 DEF GateInv, DeliveredOnInstalledPackages
<1>4. CASE BeginUnconnected \/ BeginConnected \/ ReconcilePackage \/ WriteTarget
  BY <1>k, <1>4 DEF BeginUnconnected, BeginConnected, ReconcilePackage, WriteTarget, service
<1>5. CASE CreateCluster \/ UpdateCluster \/ DeleteCluster \/ RequirePackages
    \/ WriteSecret \/ RotateToken \/ EditOperatorPackages \/ PublishClass \/ InstallArgo
  BY <1>k, <1>5 DEF CreateCluster, UpdateCluster, DeleteCluster, RequirePackages,
    WriteSecret, RotateToken, EditOperatorPackages, PublishClass, InstallArgo, service
<1>6. CASE Environment \/ UNCHANGED vars
  BY <1>k, <1>6 DEF Environment, WorkloadReady, WorkloadFails, ArgoSync, Restart,
     service, vars
<1> QED BY <1>1, <1>2, <1>3, <1>4, <1>5, <1>6 DEF Next, Controllers, People

(* A hit of the cache has the Secret's version, and so its kubeconfig; a   *)
(* Secret that is written again gets a version no client has.              *)
LEMMA NextClient == ReportInv /\ GateInv /\ ClientInv /\ [Next]_vars => ClientInv'
<1> USE ConstantsAssumption
<1> SUFFICES ASSUME ReportInv, GateInv, ClientInv, [Next]_vars PROVE ClientInv'
  OBVIOUS
<1>e. ASSUME events' = events \/ events' = events + 1,
             secret' = secret \/ secret' = None, clients' = clients \/ clients' = None,
             outdated' = outdated
      PROVE  ClientInv'
  <2>1. events' \in Nat /\ 0..events \subseteq 0..events'
    BY <1>e DEF ClientInv
  <2>2. ClientIsCurrent'
    BY <1>e DEF ClientInv, ClientIsCurrent
  <2>3. secret' # None => secret' = secret /\ secret' \in
           [token : Tokens \cup {"empty", "garbled"}, version : 0..events']
    BY <1>e, <2>1 DEF ClientInv
  <2>4. clients' # None =>
         \E v \in Nat, sv \in 0..events', t \in Tokens :
            /\ clients' = [key |-> <<v, sv>>, token |-> t]
            /\ secret' # None /\ secret'.version = sv => secret'.token = t
    BY <1>e, <2>1, <2>3 DEF ClientInv
  <2> QED BY <2>1, <2>2, <2>3, <2>4 DEF ClientInv
<1>1. CASE DeliverInstance
  <2>0. events' = events /\ secret' = secret /\ siRun # None /\ siRun.version \in Nat
    BY <1>1 DEF DeliverInstance, GateInv
  <2>1. CASE UNCHANGED <<clients, outdated>>
    BY <1>e, <2>0, <2>1
  <2>2. CASE secret # None /\ getTargetClient
    <3> DEFINE key == targetClientCacheKey(siRun.version, secret.version)
    <3>0. secret.token \in Tokens \cup {"empty", "garbled"} /\ secret.version \in 0..events
          /\ key = <<siRun.version, secret.version>>
      BY <2>2 DEF ClientInv, targetClientCacheKey
    <3> HIDE DEF key
    <3>1. CASE clients # None /\ clients.key = key /\ handedOut(clients.token)
               /\ clients' = clients
      <4>1. PICK v \in Nat, sv \in 0..events, t \in Tokens :
            /\ clients = [key |-> <<v, sv>>, token |-> t]
            /\ secret # None /\ secret.version = sv => secret.token = t
        BY <3>1 DEF ClientInv
      <4>2. sv = secret.version
        BY <3>0, <3>1, <4>1
      <4>3. clients.token = secret.token
        BY <2>2, <4>1, <4>2
      <4>4. outdated' = (outdated \/ clients.token # secret.token)
        BY <3>1 DEF handedOut
      <4>5. ~outdated'
        BY <4>3, <4>4 DEF ClientInv, ClientIsCurrent
      <4> QED BY <2>0, <3>1, <4>5 DEF ClientInv, ClientIsCurrent
    <3>2. CASE secret.token = "empty" /\ clients' = None /\ handedOut("empty")
      <4>1. ~outdated'
        BY <3>2 DEF ClientInv, ClientIsCurrent, handedOut
      <4> QED BY <2>0, <3>2, <4>1 DEF ClientInv, ClientIsCurrent
    <3>3. CASE secret.token \in Tokens /\ clients' = [key |-> key, token |-> secret.token]
               /\ handedOut(secret.token)
      <4>1. ~outdated'
        BY <3>3 DEF ClientInv, ClientIsCurrent, handedOut
      <4>2. \E v \in Nat, sv \in 0..events', t \in Tokens :
              /\ clients' = [key |-> <<v, sv>>, token |-> t]
              /\ secret' # None /\ secret'.version = sv => secret'.token = t
        BY <2>0, <3>0, <3>3
      <4> QED BY <2>0, <4>1, <4>2 DEF ClientInv, ClientIsCurrent
    <3> QED BY <2>2, <3>1, <3>2, <3>3 DEF getTargetClient, key
  <2> QED BY <1>1, <2>1, <2>2 DEF DeliverInstance
<1>2. CASE WriteSecret
  <2>1. clients' = clients /\ outdated' = outdated /\ events' = events + 1
    BY <1>2 DEF WriteSecret, service, Event, fresh
  <2>2. CASE secret' = None
    BY <1>e, <2>1, <2>2
  <2>3. CASE \E token \in Tokens \cup {"empty", "garbled"} :
               secret' = [token |-> token, version |-> fresh]
    <3>1. secret' \in [token : Tokens \cup {"empty", "garbled"}, version : 0..events']
          /\ secret'.version = events + 1
      BY <2>1, <2>3 DEF fresh, ClientInv
    <3>2. clients' # None =>
         \E v \in Nat, sv \in 0..events', t \in Tokens :
            /\ clients' = [key |-> <<v, sv>>, token |-> t]
            /\ secret' # None /\ secret'.version = sv => secret'.token = t
      <4> SUFFICES ASSUME clients # None PROVE
           \E v \in Nat, sv \in 0..events', t \in Tokens :
            /\ clients = [key |-> <<v, sv>>, token |-> t]
            /\ secret'.version # sv
        BY <2>1
      <4>1. PICK v \in Nat, sv \in 0..events, t \in Tokens :
              clients = [key |-> <<v, sv>>, token |-> t]
        BY DEF ClientInv
      <4>2. sv \in 0..events' /\ secret'.version # sv
        BY <2>1, <3>1 DEF ClientInv
      <4> QED BY <4>1, <4>2
    <3>3. ClientIsCurrent' /\ events' \in Nat
      BY <2>1 DEF ClientInv, ClientIsCurrent
    <3> QED BY <3>1, <3>2, <3>3 DEF ClientInv
  <2> QED BY <1>2, <2>2, <2>3 DEF WriteSecret
<1>3. CASE BeginUnconnected \/ BeginConnected \/ ReconcilePackage \/ WriteTarget \/ GateInstance
  <2>1. /\ events' = events \/ events' = events + 1
        /\ secret' = secret /\ clients' = clients /\ outdated' = outdated
    BY <1>3 DEF BeginUnconnected, BeginConnected, ReconcilePackage, WriteTarget,
       GateInstance, service, Event, fresh, installPackageDirect, ensurePackageArgoApp
  <2> QED BY <1>e, <2>1
<1>4. CASE CreateCluster \/ UpdateCluster \/ DeleteCluster \/ RequirePackages
    \/ RotateToken \/ EditOperatorPackages \/ PublishClass \/ SetSecretPolicy \/ InstallArgo
  <2>1. /\ events' = events + 1
        /\ secret' = secret /\ clients' = clients /\ outdated' = outdated
    BY <1>4 DEF CreateCluster, UpdateCluster, DeleteCluster, RequirePackages, RotateToken,
       EditOperatorPackages, PublishClass, SetSecretPolicy, InstallArgo, service, Event, fresh
  <2> QED BY <1>e, <2>1
<1>5. CASE Environment \/ UNCHANGED vars
  <2>1. /\ events' = events \/ events' = events + 1
        /\ clients' = clients \/ clients' = None
        /\ secret' = secret /\ outdated' = outdated
    BY <1>5 DEF Environment, WorkloadReady, WorkloadFails, ArgoSync, Restart, service, vars,
       Event, fresh
  <2> QED BY <1>e, <2>1
<1> QED BY <1>1, <1>2, <1>3, <1>4, <1>5 DEF Next, Controllers, People

(* Every reachable state satisfies the invariant.                          *)
LEMMA Invariance == Spec => []Inv
<1>1. Inv /\ [Next]_vars => Inv'
  <2>1. Inv => events \in Nat
    BY DEF Inv, ClientInv
  <2> QED BY <2>1, NextObjects, NextReport, NextGate, NextClient DEF Inv
<1> QED BY InitInv, <1>1, PTL DEF Spec

(* The package gate lets an instance through only when every operator      *)
(* package it needs and its ClusterTarget lists was completely there and   *)
(* running at some time, however reconciles, edits, failing installations  *)
(* and restarts interleave.                                                *)
THEOREM GateIsSound == Spec => []DeliveredOnInstalledPackages
<1>1. Inv => DeliveredOnInstalledPackages
  BY DEF Inv, GateInv
<1> QED BY Invariance, <1>1, PTL

(* A client taken from the cache holds the kubeconfig that the connection  *)
(* Secret holds at that moment, after any number of rotations.             *)
THEOREM CachedClientIsCurrent == Spec => []ClientIsCurrent
<1>1. Inv => ClientIsCurrent
  BY DEF Inv, ClientInv
<1> QED BY Invariance, <1>1, PTL

=============================================================================
