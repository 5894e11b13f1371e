------------------------------ MODULE Clusters ------------------------------
(***************************************************************************)
(* The ClusterTarget controller (clustertarget_controller.go) and the      *)
(* gate it gives the ServiceInstance controller: connection Secrets, the   *)
(* operator packages a cluster needs, their installation by applying a     *)
(* manifest or through an Argo CD Application, the registration of the     *)
(* cluster with Argo CD, and the client the ServiceInstance controller     *)
(* caches for the cluster.                                                 *)
(*                                                                         *)
(* One ClusterTarget for one remote cluster and one ServiceInstance placed *)
(* there.  A kubeconfig is the token it holds, and the remote cluster      *)
(* answers only the token it currently accepts; a Secret may also hold no  *)
(* kubeconfig ("empty") or one that does not parse ("garbled").  The       *)
(* objects of a package are its CRDs and its workloads.  Packages are      *)
(* numbered in the order of their names, which is the order the controller *)
(* takes them in.                                                          *)
(***************************************************************************)
EXTENDS Naturals, FiniteSets, FiniteSetsExt

CONSTANTS
    Packages,         \* OperatorPackage names, as numbers
    Direct,           \* those with a manifestURL or a chartArchiveURL
    ClassPackages,    \* spec.requiredPackages of the instance's ServiceClass
    ExternalSecrets,  \* externalSecretsOperatorPackageName
    Yugabyte,         \* the package that needs topology labels on the nodes
    Tokens,           \* credentials a kubeconfig may hold
    InitialToken,     \* the one the cluster starts with
    None,
    MaxEvents         \* bound on edits by people, failing calls and workloads,
                      \* and restarts, together

ASSUME ConstantsAssumption ==
    /\ Packages \subseteq Nat
    /\ Direct \subseteq Packages
    /\ ClassPackages \subseteq Packages
    /\ {ExternalSecrets, Yugabyte} \subseteq Packages
    /\ InitialToken \in Tokens
    /\ None \notin Tokens \cup Packages
    /\ None \notin {"Installed", "Deploying", "Missing", "Error"}

VARIABLES
    target,      \* the ClusterTarget, or None
    secret,      \* the connection Secret, or None
    accepted,    \* the token the remote cluster accepts
    cluster,     \* the objects of each package in the remote cluster
    labelled,    \* the nodes carry topology labels
    argo,        \* Argo CD: installed, the registered token, Applications
    catalogued,  \* OperatorPackages that exist
    published,   \* the ServiceClass is published
    instance,    \* the ServiceInstance
    run,         \* the ClusterTarget reconcile under way, or None
    siRun,       \* the ServiceInstance reconcile past its gate, or None
    clients,     \* targetClients: the cached client, or None
    outdated,    \* history: a client was handed out for another kubeconfig
    everReady,   \* history: packages that were completely there at some time
    events       \* edits and faults so far; an edit is the version it makes

fresh == events + 1

Event == events < MaxEvents /\ events' = fresh

vars == <<target, secret, accepted, cluster, labelled, argo, catalogued,
          published, instance, run, siRun, clients, outdated, everReady,
          events>>

remote == <<accepted, cluster, labelled, everReady>>
service == <<instance, siRun, clients, outdated>>

Documents == {"crd", "workload"}

PackagePhases == {"Installed", "Deploying", "Missing", "Error"}

noStatus == [phase |-> "", observed |-> 0, inventory |-> {},
             packages |-> [p \in Packages |-> None]]

-----------------------------------------------------------------------------
(* What a cluster has to carry, and what the packages' status tells. *)

\* Mutant: the instances placed on the cluster are forgotten.
withoutInstances ==
    target.required \cup (IF published THEN ClassPackages ELSE {})

effectiveRequiredPackagesForClusterTarget ==
    target.required
    \cup (IF published THEN ClassPackages ELSE {})
    \cup (IF instance.placed /\ instance.external THEN {ExternalSecrets} ELSE {})

requiredPackagesForServiceInstance ==
    ClassPackages \cup (IF instance.external THEN {ExternalSecrets} ELSE {})

\* Mutant: CRDs alone make a package installed.
probeCRDs(p, docs, ready) == "crd" \in docs

\* All CRDs are there, and the namespace has workloads, all of them available.
probePackage(p, docs, ready) == docs = Documents /\ ready

unlisted(p) == target.status.packages[p] = None /\ p \notin target.required

packagesReady(needs) ==
    \A p \in needs : unlisted(p) \/ target.status.packages[p] = "Installed"

clusterHasCRD(p) == "crd" \in cluster[p].docs

clusterConnectionData ==
    IF secret = None THEN "empty" ELSE secret.token

-----------------------------------------------------------------------------
(* The ClusterTarget controller.  A reconcile reads the target and its      *)
(* Secret, takes the packages one after the other and writes the status;    *)
(* others act between these steps.                                          *)

begun(phase, inventory, todo, packages) ==
    run' = [version |-> target.version, token |-> clusterConnectionData,
            phase |-> phase, inventory |-> inventory, todo |-> todo,
            packages |-> packages]

\* The Secret is missing, holds no kubeconfig, or one that does not parse: the
\* packages' status stays as it was.
BeginUnconnected ==
    /\ run = None /\ target # None
    /\ \/ /\ clusterConnectionData = "empty"
          /\ begun("PendingCredentials", {}, {}, target.status.packages)
       \/ /\ clusterConnectionData = "garbled"
          /\ begun("Failed", {}, {}, target.status.packages)
    /\ UNCHANGED <<target, secret, remote, argo, catalogued, published,
                   service, events>>

discoveredOperatorInventory ==
    IF clusterConnectionData = accepted
    THEN {p \in Packages : clusterHasCRD(p)}
    ELSE {}

\* Mutant: an existing registration is kept.
registerOnce(todo) ==
    IF argo.installed /\ todo # {} /\ argo.token = None
    THEN [argo EXCEPT !.token = clusterConnectionData]
    ELSE argo

ensureArgoCDClusterSecret(todo) ==
    IF argo.installed /\ todo # {}
    THEN [argo EXCEPT !.token = clusterConnectionData]
    ELSE argo

\* Every node gets the region and zone labels it does not have; a cluster that
\* does not answer fails the reconcile.
ensureClusterTopologyLabels(todo) ==
    /\ Yugabyte \in todo => clusterConnectionData = accepted
    /\ labelled' = (labelled \/ Yugabyte \in todo)

\* A kubeconfig that parses makes the target Ready.  The labels Yugabyte needs
\* are written first, and the reconcile ends in an error when they cannot be;
\* a failing registration with Argo CD is only logged.
BeginConnected ==
    /\ run = None /\ target # None
    /\ clusterConnectionData \in Tokens
    /\ LET todo == effectiveRequiredPackagesForClusterTarget
       IN  /\ ensureClusterTopologyLabels(todo)
           /\ begun("Ready", discoveredOperatorInventory, todo,
                    [p \in Packages |-> None])
           /\ \/ argo' = ensureArgoCDClusterSecret(todo) /\ UNCHANGED events
              \/ Event /\ UNCHANGED argo
    /\ UNCHANGED <<target, secret, accepted, cluster, everReady, catalogued,
                   published, service>>

packageDone(p, phase) ==
    run' = [run EXCEPT !.todo = @ \ {p}, !.packages[p] = phase]

applied(p, docs) ==
    /\ cluster' = [cluster EXCEPT ![p].docs = @ \cup docs]
    /\ everReady' = IF cluster'[p].docs = Documents /\ cluster[p].ready
                    THEN everReady \cup {p} ELSE everReady

\* Mutant: a package whose CRDs are there is not applied again.
applyOnce(p) ==
    /\ UNCHANGED <<argo, events>>
    /\ IF "crd" \in cluster[p].docs
       THEN packageDone(p, "Deploying") /\ UNCHANGED <<cluster, everReady>>
       ELSE \E docs \in SUBSET Documents :
              /\ applied(p, docs)
              /\ packageDone(p, IF docs = Documents THEN "Deploying" ELSE "Error")

\* Namespace, manifest and chart are applied document by document: a failing
\* document does not stop the following ones, and its error is the result.
installPackageDirect(p) ==
    /\ UNCHANGED argo
    /\ \/ /\ applied(p, Documents)
          /\ packageDone(p, IF probePackage(p, Documents, cluster[p].ready)
                            THEN "Installed" ELSE "Deploying")
          /\ UNCHANGED events
       \/ /\ Event
          /\ \E docs \in SUBSET Documents : applied(p, docs)
          /\ packageDone(p, "Error")

ensurePackageArgoApp(p) ==
    /\ UNCHANGED <<cluster, everReady>>
    /\ \/ /\ argo.installed
          /\ argo' = [argo EXCEPT !.apps = @ \cup {p}]
          /\ packageDone(p, "Deploying") /\ UNCHANGED events
       \/ /\ ~argo.installed
          /\ packageDone(p, "Missing") /\ UNCHANGED <<argo, events>>
       \/ /\ argo.installed /\ Event
          /\ packageDone(p, "Missing") /\ UNCHANGED argo

ReconcilePackage ==
    /\ run # None /\ run.todo # {}
    /\ LET p == Min(run.todo)
           there == probePackage(p, cluster[p].docs, cluster[p].ready)
       IN  \/ /\ p \notin catalogued \/ run.token # accepted
              /\ packageDone(p, "Error")
              /\ UNCHANGED <<cluster, everReady, argo, events>>
           \/ /\ p \in catalogued /\ run.token = accepted /\ there
              /\ packageDone(p, "Installed")
              /\ UNCHANGED <<cluster, everReady, argo, events>>
           \/ /\ p \in catalogued \cap Direct /\ run.token = accepted /\ ~there
              /\ installPackageDirect(p)
           \/ /\ p \in catalogued \ Direct /\ run.token = accepted /\ ~there
              /\ ensurePackageArgoApp(p)
    /\ UNCHANGED <<target, secret, accepted, labelled, catalogued, published,
                   service>>

\* Status().Update fails when the target changed or went since it was read.
WriteTarget ==
    /\ run # None /\ run.todo = {}
    /\ target' = IF target # None /\ target.version = run.version
                 THEN [target EXCEPT !.status =
                         [phase |-> run.phase, observed |-> run.version,
                          inventory |-> run.inventory, packages |-> run.packages]]
                 ELSE target
    /\ run' = None
    /\ UNCHANGED <<secret, remote, argo, catalogued, published, service, events>>

-----------------------------------------------------------------------------
(* The ServiceInstance controller: the package gate, and the cached client. *)

\* The gate reads the target; the client is taken later in the same reconcile.
GateInstance ==
    /\ siRun = None
    /\ \/ /\ target = None
          /\ instance' = [instance EXCEPT !.phase = "Failed", !.placed = TRUE]
          /\ UNCHANGED siRun
       \/ /\ target # None
          /\ IF packagesReady(requiredPackagesForServiceInstance)
             THEN /\ siRun' = [version |-> target.version,
                               needs |-> {p \in requiredPackagesForServiceInstance :
                                            ~unlisted(p)}]
                  /\ UNCHANGED instance
             ELSE /\ instance' = [instance EXCEPT !.phase = "PendingDependencies",
                                                  !.placed = TRUE]
                  /\ UNCHANGED siRun
    /\ UNCHANGED <<target, secret, remote, argo, catalogued, published, run,
                   clients, outdated, events>>

\* Mutant: the key leaves out the Secret's resourceVersion.
keyWithoutSecret(version, secretVersion) == version

\* The target's resourceVersion, which moves with every status write too, is
\* represented by its generation: the cache is hit at least as often.
targetClientCacheKey(version, secretVersion) == <<version, secretVersion>>

handedOut(client) == outdated' = (outdated \/ client # secret.token)

\* A Secret without kubeconfig gives no client, and the instance's objects are
\* then written with the management cluster's own.
getTargetClient ==
    LET key == targetClientCacheKey(siRun.version, secret.version)
        hit == clients # None /\ clients.key = key
    IN  \/ /\ hit
           /\ handedOut(clients.token) /\ UNCHANGED clients
        \/ /\ ~hit /\ secret.token = "empty"
           /\ clients' = None /\ handedOut("empty")
        \/ /\ ~hit /\ secret.token \in Tokens
           /\ clients' = [key |-> key, token |-> secret.token]
           /\ handedOut(secret.token)

DeliverInstance ==
    /\ siRun # None
    /\ siRun' = None
    /\ IF secret = None \/ clusterConnectionData = "garbled"
       THEN UNCHANGED <<instance, clients, outdated>>
       ELSE /\ getTargetClient
            /\ instance' = [instance EXCEPT !.phase = "Provisioning",
                              !.placed = TRUE, !.needs = siRun.needs]
    /\ UNCHANGED <<target, secret, remote, argo, catalogued, published, run,
                   events>>

-----------------------------------------------------------------------------
(* People: the BFF, GitOps and the owners of the remote cluster. *)

CreateCluster ==
    /\ Event /\ target = None
    /\ target' = [required |-> {}, version |-> fresh, status |-> noStatus]
    /\ UNCHANGED <<secret, remote, argo, catalogued, published, service, run>>

UpdateCluster ==
    /\ Event /\ target # None
    /\ target' = [target EXCEPT !.version = fresh]
    /\ UNCHANGED <<secret, remote, argo, catalogued, published, service, run>>

\* Nothing removes the registration with Argo CD, or the Applications.
DeleteCluster ==
    /\ Event /\ target # None
    /\ target' = None
    /\ UNCHANGED <<secret, remote, argo, catalogued, published, service, run>>

\* requiredPackages is not part of the BFF's form: it is edited with the API.
RequirePackages ==
    /\ Event /\ target # None
    /\ \E required \in (SUBSET Packages) \ {target.required} :
         target' = [target EXCEPT !.required = required, !.version = fresh]
    /\ UNCHANGED <<secret, remote, argo, catalogued, published, service, run>>

WriteSecret ==
    /\ Event
    /\ \/ \E token \in Tokens \cup {"empty", "garbled"} :
             secret' = [token |-> token, version |-> fresh]
       \/ secret # None /\ secret' = None
    /\ UNCHANGED <<target, remote, argo, catalogued, published, service, run>>

RotateToken ==
    /\ Event
    /\ \E token \in Tokens \ {accepted} : accepted' = token
    /\ UNCHANGED <<target, secret, cluster, labelled, everReady, argo, catalogued,
                   published, service, run>>

EditOperatorPackages ==
    /\ Event
    /\ \E p \in Packages :
         catalogued' = IF p \in catalogued THEN catalogued \ {p}
                       ELSE catalogued \cup {p}
    /\ UNCHANGED <<target, secret, remote, argo, published, service, run>>

PublishClass ==
    /\ Event /\ published' = ~published
    /\ UNCHANGED <<target, secret, remote, argo, catalogued, service, run>>

SetSecretPolicy ==
    /\ Event /\ instance' = [instance EXCEPT !.external = ~@]
    /\ UNCHANGED <<target, secret, remote, argo, catalogued, published, siRun,
                   clients, outdated, run>>

InstallArgo ==
    /\ Event /\ ~argo.installed
    /\ argo' = [argo EXCEPT !.installed = TRUE]
    /\ UNCHANGED <<target, secret, remote, catalogued, published, service, run>>

-----------------------------------------------------------------------------
(* The remote cluster, Argo CD and the manager process. *)

WorkloadReady(p) ==
    /\ "workload" \in cluster[p].docs /\ ~cluster[p].ready
    /\ cluster' = [cluster EXCEPT ![p].ready = TRUE]
    /\ everReady' = IF cluster[p].docs = Documents THEN everReady \cup {p}
                    ELSE everReady
    /\ UNCHANGED <<target, secret, accepted, labelled, argo, catalogued, published,
                   service, run, events>>

WorkloadFails(p) ==
    /\ cluster[p].ready /\ Event
    /\ cluster' = [cluster EXCEPT ![p].ready = FALSE]
    /\ UNCHANGED <<target, secret, accepted, labelled, everReady, argo, catalogued,
                   published, service, run>>

ArgoSync(p) ==
    /\ argo.installed /\ p \in argo.apps /\ argo.token = accepted
    /\ cluster[p].docs # Documents
    /\ applied(p, Documents)
    /\ UNCHANGED <<target, secret, accepted, labelled, argo, catalogued, published,
                   service, run, events>>

Restart ==
    /\ Event
    /\ run # None \/ siRun # None \/ clients # None
    /\ run' = None /\ siRun' = None /\ clients' = None
    /\ UNCHANGED <<target, secret, remote, argo, catalogued, published, instance,
                   outdated>>

-----------------------------------------------------------------------------
Init ==
    /\ target = [required |-> {}, version |-> 0, status |-> noStatus]
    /\ accepted = InitialToken
    /\ secret = [token |-> InitialToken, version |-> 0]
    /\ cluster = [p \in Packages |-> [docs |-> {}, ready |-> FALSE]]
    /\ labelled = FALSE
    /\ \E there \in BOOLEAN : argo = [installed |-> there, token |-> None, apps |-> {}]
    /\ catalogued = Packages
    /\ published = TRUE
    /\ instance = [external |-> FALSE, placed |-> FALSE, phase |-> "", needs |-> {}]
    /\ run = None /\ siRun = None /\ clients = None /\ outdated = FALSE
    /\ everReady = {}
    /\ events = 0

Controllers ==
    \/ BeginUnconnected \/ BeginConnected \/ ReconcilePackage \/ WriteTarget
    \/ GateInstance \/ DeliverInstance

People ==
    \/ CreateCluster \/ UpdateCluster \/ DeleteCluster \/ RequirePackages
    \/ WriteSecret \/ RotateToken \/ EditOperatorPackages \/ PublishClass
    \/ SetSecretPolicy \/ InstallArgo

Environment ==
    \/ \E p \in Packages : WorkloadReady(p) \/ WorkloadFails(p) \/ ArgoSync(p)
    \/ Restart

Next == Controllers \/ People \/ Environment

\* Every reconcile asks to be repeated after 30 s, whatever its outcome, so the
\* controllers' steps are fair; so are those of Argo CD and of the workloads of
\* an operator that was applied.  Edits and faults need not happen.
Fairness ==
    /\ WF_vars(BeginUnconnected) /\ WF_vars(BeginConnected)
    /\ WF_vars(ReconcilePackage) /\ WF_vars(WriteTarget)
    /\ WF_vars(GateInstance) /\ WF_vars(DeliverInstance)
    /\ \A p \in Packages : WF_vars(WorkloadReady(p)) /\ WF_vars(ArgoSync(p))

Spec == Init /\ [][Next]_vars /\ Fairness

-----------------------------------------------------------------------------
\* Types; the status of a package is one of the API's phases, a reconcile and
\* the ServiceInstance gate hold versions that existed.
TypeOK ==
    /\ target = None \/
         /\ target.required \subseteq Packages
         /\ target.version \in 0..MaxEvents
         /\ target.status.observed <= target.version
         /\ \A p \in Packages : target.status.packages[p] \in PackagePhases \cup {None}
    /\ secret = None \/ secret.token \in Tokens \cup {"empty", "garbled"}
    /\ accepted \in Tokens
    /\ \A p \in Packages : cluster[p].docs \subseteq Documents
                           /\ cluster[p].ready \in BOOLEAN
    /\ labelled \in BOOLEAN /\ published \in BOOLEAN
    /\ argo.token \in Tokens \cup {None} /\ argo.apps \subseteq Packages
    /\ catalogued \subseteq Packages /\ everReady \subseteq Packages
    /\ instance.phase \in {"", "Failed", "PendingDependencies", "Provisioning"}
    /\ run = None \/ (run.version \in 0..MaxEvents /\ run.todo \subseteq Packages)
    /\ siRun = None \/ siRun.version \in 0..MaxEvents
    /\ events \in 0..MaxEvents

\* An instance is delivered only after each operator package it needs, and that
\* its ClusterTarget lists, was completely there and running at some time: a
\* partly applied manifest, a CRD without its operator, an interrupted reconcile
\* or a status written late never opens the gate.
DeliveredOnInstalledPackages ==
    instance.phase = "Provisioning" => instance.needs \subseteq everReady

\* getTargetClient hands out a client built from the kubeconfig the Secret holds
\* at that moment, whatever rotations, deletions and re-creations of the Secret
\* and of the ClusterTarget came before.
ClientIsCurrent ==
    ~outdated

connected == target # None /\ secret # None /\ secret.token = accepted

\* Once people and faults leave the system alone, a connected cluster ends with
\* every package that its spec, a published class or an instance placed on it
\* asks for reported Installed -- those with a way to be installed -- with the
\* nodes labelled where Yugabyte runs.
PackagesConverge ==
    <>[](connected =>
           /\ target.status.phase = "Ready"
           /\ target.status.observed = target.version
           /\ \A p \in catalogued :
                (/\ \/ p \in target.required
                    \/ published /\ p \in ClassPackages
                    \/ instance.external /\ p = ExternalSecrets
                 /\ (p \in Direct \/ argo.installed))
                => /\ target.status.packages[p] = "Installed"
                   /\ p \in target.status.inventory
                   /\ p = Yugabyte => labelled)

\* After a rotation of the cluster's credentials the registration that Argo CD
\* deploys with ends up holding the kubeconfig of the connection Secret, as long
\* as some package is required there.
ArgoRegistrationCatchesUp ==
    <>[](connected /\ argo.installed
           /\ effectiveRequiredPackagesForClusterTarget # {}
         => argo.token = secret.token)

\* An instance whose cluster is connected and whose packages can all be installed
\* ends up delivered: no gate keeps waiting for a status that has changed.
InstanceEventuallyDelivered ==
    <>[](connected /\ requiredPackagesForServiceInstance \subseteq catalogued
           /\ argo.installed
         => instance.phase = "Provisioning")
=============================================================================
