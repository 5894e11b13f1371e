---------------------------- MODULE CatalogProofs ----------------------------
(***************************************************************************)
(* Proofs about Catalog for any instances, plans, policies, limits and     *)
(* number of edits: the ServiceInstance controller relies on statuses that *)
(* other controllers wrote, and on a count it took before it writes.       *)
(***************************************************************************)
EXTENDS Catalog, FiniteSetTheorems, TLAPS

(* ------------------------------- the invariant ------------------------- *)

Generation == Nat \cup {None}
Class == [gen : Nat, published : BOOLEAN, driver : BOOLEAN, obs : Generation,
          accepted : BOOLEAN, offered : BOOLEAN]
Project == [gen : Nat, cluster : BOOLEAN, max : {None, 1, 2}, obs : Generation,
            ready : BOOLEAN, placed : BOOLEAN, quota : Quotas]
Product == [spec : Specs, deleting : BOOLEAN, phase : Phases \cup {None}]

TypeInv ==
  /\ class \in Class
  /\ project \in Project \cup {None}
  /\ instance \in [Names -> Product \cup {None}]

(* A status of the current generation says what the spec says; one of an   *)
(* older generation is of an earlier spec.                                 *)
ClassInv ==
  /\ class.obs # None => class.obs <= class.gen
  /\ isStatusCurrent(class) => /\ class.accepted = class.driver
                               /\ class.offered = (class.driver /\ class.published)
ProjectInv ==
  project # None =>
    /\ project.obs # None => project.obs <= project.gen
    /\ isStatusCurrent(project) /\ project.ready => project.cluster

(* The instances that are admitted once the write under way is done.       *)
Taken == {m \in Names : m = ri.name \/ (m \in live /\ instance[m].phase = "Admitted")}

(* What the reconcile of an instance found still counts when it writes: in *)
(* between, others may come but none but this one is admitted.             *)
RunInv ==
  /\ ri.pc \in {"idle", "write"}
  /\ ri.pc = "write" =>
       /\ ri.name \in Names /\ ri.phase \in Phases
       /\ ri.phase = "Admitted" => /\ ri.found.offered
                                   /\ ri.found.quota \in Quotas
                                   /\ withinQuota(ri.found.quota, Cardinality(Taken))

Inv == TypeInv /\ ClassInv /\ ProjectInv /\ RunInv

(* ------------------------------- operators ------------------------------ *)

(* Of fewer instances, none is over the quota.                             *)
LEMMA FewerFit ==
  ASSUME NEW q \in Quotas, NEW S \in SUBSET Names, NEW T \in SUBSET S, withinQuota(q, Cardinality(S))
  PROVE  withinQuota(q, Cardinality(T))
<1>1. IsFiniteSet(S)
  BY CatalogConstants, FS_Subset
<1>2. Cardinality(T) <= Cardinality(S) /\ Cardinality(S) \in Nat /\ Cardinality(T) \in Nat
  BY <1>1, FS_Subset, FS_CardinalityType
<1>3. q.services \in Nat /\ q.namespaces \in Nat
  BY DEF Quotas, Unset
<1> QED BY <1>2, <1>3 DEF withinQuota

(* The quota of a project is one of those the model knows.                 *)
LEMMA QuotaType ==
  ASSUME NEW p \in Project, NEW t
  PROVE  effectiveProjectQuota(p, t) \in Quotas
<1>1. quotaProfile(t.profile) \in Quotas
  BY DEF quotaProfile, Quotas, Unset
<1>2. p.max \in {None, 1, 2}
  BY DEF Project
<1> QED BY <1>1, <1>2 DEF effectiveProjectQuota, Quotas

(* What an open gate says: the class is offered by its spec, the project   *)
(* names a cluster, and all the instances there are fit in the quota.      *)
LEMMA OpenGate ==
  ASSUME Inv, NEW spec, gate(spec) = "Admitted"
  PROVE  offeredNow /\ instanceQuota \in Quotas /\ withinQuota(instanceQuota, Cardinality(live))
<1>1. /\ project # None /\ tenant # None /\ tenant.allowed /\ projectReady
      /\ isStatusCurrent(class) /\ class.accepted /\ class.offered
      /\ withinQuota(instanceQuota, serviceCount)
  BY DEF gate
<1>2. class.driver /\ class.published
  BY <1>1 DEF Inv, ClassInv, TypeInv, Class
<1>3. project.cluster
  BY <1>1 DEF Inv, ProjectInv, projectReady
<1>4. project \in Project
  BY <1>1 DEF Inv, TypeInv
<1>5. instanceQuota \in Quotas
  <2>1. project.quota \in Quotas
    BY <1>4 DEF Project
  <2> QED BY <1>4, <2>1, QuotaType DEF instanceQuota
<1> QED BY <1>1, <1>2, <1>3, <1>5 DEF offeredNow, serviceCount

(* ------------------------------- the steps ------------------------------ *)

(* A start has no status, no instance and no reconcile.                    *)
LEMMA Initially == Init => Inv
<1> SUFFICES ASSUME Init PROVE Inv
  OBVIOUS
<1>1. PICK s \in Starts :
    /\ project = newProject(TRUE)
    /\ class = [gen |-> 0, published |-> s.published, driver |-> s.driver,
                obs |-> None, accepted |-> FALSE, offered |-> FALSE]
    /\ instance = [n \in Names |-> None] /\ ri = Idle
  BY DEF Init
<1>2. class \in Class /\ class.obs = None /\ class.gen = 0
  BY <1>1, CatalogConstants DEF Class, Generation
<1>3. project \in Project /\ project.obs = None /\ project.gen = 0
  BY <1>1 DEF newProject, Project, Generation, Quotas, Unset
<1>4. TypeInv
  BY <1>1, <1>2, <1>3 DEF TypeInv
<1>5. ClassInv /\ ProjectInv
  BY <1>2, <1>3, CatalogConstants DEF ClassInv, ProjectInv, isStatusCurrent
<1>6. RunInv
  BY <1>1 DEF RunInv, Idle
<1> QED BY <1>4, <1>5, <1>6 DEF Inv

(* A new project, or a new generation of one, has no current status.       *)
LEMMA ProjectStep ==
  ASSUME Inv, UNCHANGED <<class, instance, ri>>, project' \in Project \cup {None}, ProjectInv'
  PROVE  Inv'
<1>1. TypeInv' /\ ClassInv'
  BY DEF Inv, TypeInv, ClassInv, isStatusCurrent
<1>2. RunInv'
  BY DEF Inv, RunInv, Taken, live
<1> QED BY <1>1, <1>2 DEF Inv

(* A step of the class leaves the rest alone.                              *)
LEMMA ClassStep ==
  ASSUME Inv, UNCHANGED <<project, instance, ri>>, class' \in Class, ClassInv'
  PROVE  Inv'
<1>1. TypeInv' /\ ProjectInv'
  BY DEF Inv, TypeInv, ProjectInv, isStatusCurrent
<1>2. RunInv'
  BY DEF Inv, RunInv, Taken, live
<1> QED BY <1>1, <1>2 DEF Inv

(* Users change instances, and admit none.                                 *)
LEMMA ProductStep ==
  ASSUME Inv, UNCHANGED <<project, class, ri>>,
         instance' \in [Names -> Product \cup {None}],
         \A m \in live' : instance'[m].phase = "Admitted" =>
           m \in live /\ instance[m].phase = "Admitted"
  PROVE  Inv'
<1>1. TypeInv' /\ ClassInv' /\ ProjectInv'
  BY DEF Inv, TypeInv, ClassInv, ProjectInv, isStatusCurrent
<1>2. Taken' \in SUBSET Taken /\ Taken \in SUBSET Names
  BY DEF Taken
<1>3. RunInv'
  <2>1. CASE ri.pc = "write" /\ ri.phase = "Admitted"
    <3>1. ri.found.quota \in Quotas /\ withinQuota(ri.found.quota, Cardinality(Taken))
      BY <2>1 DEF Inv, RunInv
    <3>2. PICK q \in Quotas : q = ri.found.quota
      BY <3>1
    <3>3. withinQuota(q, Cardinality(Taken'))
      BY <1>2, <3>1, <3>2, FewerFit
    <3> QED BY <2>1, <3>1, <3>2, <3>3 DEF Inv, RunInv, withinQuota
  <2>2. CASE ~(ri.pc = "write" /\ ri.phase = "Admitted")
    BY <2>2 DEF Inv, RunInv
  <2> QED BY <2>1, <2>2
<1> QED BY <1>1, <1>3 DEF Inv

(* The administrators.                                                     *)
LEMMA AdminStep ==
  ASSUME Inv, Administer
  PROVE  Inv'
<1>1. CASE UNCHANGED <<project, class, instance, ri>>
  BY <1>1, ProjectStep DEF Inv, TypeInv, ProjectInv, isStatusCurrent
<1>2. CASE CreateTenant \/ UpdateTenant \/ DeleteTenant \/ EditServicePlan \/ EditPolicy
           \/ ClusterChanges
  <2>1. UNCHANGED <<project, class, instance, ri>>
    BY <1>2 DEF CreateTenant, UpdateTenant, DeleteTenant, EditServicePlan, EditPolicy,
                ClusterChanges, admin, running
  <2> QED BY <1>1, <2>1
<1>3. CASE CreateProject
  <2>1. PICK c \in BOOLEAN : project' = newProject(c)
    BY <1>3 DEF CreateProject
  <2>2. UNCHANGED <<class, instance, ri>>
    BY <1>3 DEF CreateProject, running
  <2>3. project' \in Project /\ project'.obs = None /\ project'.gen = 0
    BY <2>1 DEF newProject, Project, Generation, Quotas, Unset
  <2>4. ProjectInv'
    BY <2>3, CatalogConstants DEF ProjectInv, isStatusCurrent
  <2> QED BY <2>2, <2>3, <2>4, ProjectStep
<1>4. CASE DeleteProject
  <2>1. project' = None /\ UNCHANGED <<class, instance, ri>>
    BY <1>4 DEF DeleteProject, running
  <2> QED BY <2>1, ProjectStep DEF ProjectInv
<1>5. CASE UpdateProject
  <2>1. PICK c \in BOOLEAN, m \in Limits :
          project' = [project EXCEPT !.gen = @ + 1, !.cluster = c, !.max = m]
    BY <1>5 DEF UpdateProject
  <2>2. project \in Project /\ UNCHANGED <<class, instance, ri>>
    BY <1>5 DEF UpdateProject, running, Inv, TypeInv
  <2>3. m \in {None, 1, 2}
    BY CatalogConstants
  <2>4. /\ project' \in Project /\ project'.obs = project.obs /\ project'.gen = project.gen + 1
        /\ project.gen \in Nat /\ project.obs \in Generation
    <3>1. project.gen \in Nat /\ project.obs \in Generation
      BY <2>2 DEF Project
    <3>2. PICK g \in Nat : g = project.gen + 1
      BY <3>1
    <3>3. project' = [project EXCEPT !.gen = g, !.cluster = c, !.max = m]
      BY <2>1, <2>2, <3>2 DEF Project
    <3>4. project' \in Project
      BY <2>2, <2>3, <3>3 DEF Project
    <3>5. project'.obs = project.obs /\ project'.gen = g
      BY <2>2, <3>3 DEF Project
    <3> QED BY <3>1, <3>2, <3>4, <3>5
  <2>5. project.obs # None => project.obs <= project.gen
    BY <1>5 DEF Inv, ProjectInv, UpdateProject
  <2>6. ProjectInv'
    BY <2>4, <2>5, CatalogConstants DEF ProjectInv, isStatusCurrent, Generation
  <2> QED BY <2>2, <2>4, <2>6, ProjectStep
<1>6. CASE UpdateServiceClass
  <2>1. /\ class' = [class EXCEPT !.gen = @ + 1, !.published = ~@]
        /\ UNCHANGED <<project, instance, ri>>
    BY <1>6 DEF UpdateServiceClass, running
  <2>2. /\ class' \in Class /\ class'.obs = class.obs /\ class'.gen = class.gen + 1
        /\ class.gen \in Nat /\ class.obs \in Generation
    <3>1. class \in Class /\ class.gen \in Nat /\ class.obs \in Generation
      BY DEF Inv, TypeInv, Class
    <3>2. PICK g \in Nat : g = class.gen + 1
      BY <3>1
    <3> DEFINE p == ~class.published
    <3>p. p \in BOOLEAN
      OBVIOUS
    <3>3. class' = [class EXCEPT !.gen = g, !.published = p]
      BY <2>1, <3>1, <3>2 DEF Class
    <3> HIDE DEF p
    <3>4. class' \in Class
      BY <3>1, <3>p, <3>3 DEF Class
    <3>5. class'.obs = class.obs /\ class'.gen = g
      BY <3>1, <3>3 DEF Class
    <3> QED BY <3>1, <3>2, <3>4, <3>5
  <2>3. class.obs # None => class.obs <= class.gen
    BY DEF Inv, ClassInv
  <2>4. ClassInv'
    BY <2>2, <2>3, CatalogConstants DEF ClassInv, isStatusCurrent, Generation
  <2> QED BY <2>1, <2>2, <2>4, ClassStep
<1> QED BY <1>2, <1>3, <1>4, <1>5, <1>6 DEF Administer

(* A user's new instance has no phase, and a change keeps the one it has.  *)
LEMMA UseStep ==
  ASSUME Inv, Use
  PROVE  Inv'
<1>1. ASSUME NEW n \in Names, NEW s \in Specs, CreateProduct(n, s) PROVE Inv'
  <2>1. instance' = [instance EXCEPT ![n] = new(s)] /\ UNCHANGED <<project, class, ri>>
    BY <1>1 DEF CreateProduct, running
  <2>2. new(s) \in Product /\ new(s).phase # "Admitted"
    BY CatalogConstants DEF new, Product
  <2>3. instance' \in [Names -> Product \cup {None}]
    BY <2>1, <2>2 DEF Inv, TypeInv
  <2>4. \A m \in live' : instance'[m].phase = "Admitted" => m \in live /\ instance[m].phase = "Admitted"
    BY <2>1, <2>2 DEF Inv, TypeInv, live
  <2> QED BY <2>1, <2>3, <2>4, ProductStep
<1>2. ASSUME NEW n \in Names, NEW s \in Specs, UpdateProduct(n, s) PROVE Inv'
  <2>1. /\ instance' = [instance EXCEPT ![n].spec = s] /\ UNCHANGED <<project, class, ri>>
        /\ instance[n] # None
    BY <1>2 DEF UpdateProduct, running
  <2>2. PICK o : o = [instance[n] EXCEPT !.spec = s]
    OBVIOUS
  <2>3. o \in Product /\ o.phase = instance[n].phase /\ o.deleting = instance[n].deleting
    BY <2>1, <2>2 DEF Inv, TypeInv, Product
  <2>4. instance' = [instance EXCEPT ![n] = o] /\ instance' \in [Names -> Product \cup {None}]
    BY <2>1, <2>2, <2>3 DEF Inv, TypeInv
  <2>5. \A m \in live' : instance'[m].phase = "Admitted" => m \in live /\ instance[m].phase = "Admitted"
    BY <2>1, <2>3, <2>4 DEF Inv, TypeInv, live
  <2> QED BY <2>1, <2>4, <2>5, ProductStep
<1>3. ASSUME NEW n \in Names, DeleteProduct(n) PROVE Inv'
  <2>1. /\ instance' = [instance EXCEPT ![n].deleting = TRUE] /\ UNCHANGED <<project, class, ri>>
        /\ instance[n] # None
    BY <1>3 DEF DeleteProduct, running, live
  <2>2. PICK o : o = [instance[n] EXCEPT !.deleting = TRUE]
    OBVIOUS
  <2>3. o \in Product /\ o.deleting
    BY <2>1, <2>2 DEF Inv, TypeInv, Product
  <2>4. instance' = [instance EXCEPT ![n] = o] /\ instance' \in [Names -> Product \cup {None}]
    BY <2>1, <2>2, <2>3 DEF Inv, TypeInv
  <2>5. \A m \in live' : instance'[m].phase = "Admitted" => m \in live /\ instance[m].phase = "Admitted"
    BY <2>3, <2>4 DEF Inv, TypeInv, live
  <2> QED BY <2>1, <2>4, <2>5, ProductStep
<1>4. \A q \in Requests : q[1] \in Names /\ q[2] \in Specs
  BY CatalogConstants
<1> QED BY <1>1, <1>2, <1>3, <1>4 DEF Use

(* The gates are found open or closed; an instance whose deletion is done  *)
(* is gone.                                                                *)
LEMMA ReadStep ==
  ASSUME Inv, NEW n \in Names, ReadInstance(n)
  PROVE  Inv'
<1>1. UNCHANGED <<project, class>> /\ ri.pc = "idle"
  BY DEF ReadInstance
<1>2. CASE n \in live
  <2>1. PICK phase, found :
          /\ phase = gate(instance[n].spec)
          /\ phase = "Admitted" => found = [offered |-> offeredNow, quota |-> instanceQuota]
          /\ ri' = [pc |-> "write", name |-> n, phase |-> phase, found |-> found]
          /\ UNCHANGED instance
    BY <1>2 DEF ReadInstance
  <2>2. ri'.pc = "write" /\ ri'.name = n /\ ri'.phase = phase /\ ri'.found = found
    BY <2>1
  <2>3. phase \in Phases
    BY <2>1 DEF gate, placement, Phases
  <2>4. ASSUME phase = "Admitted"
        PROVE  /\ found.offered /\ found.quota \in Quotas
               /\ withinQuota(found.quota, Cardinality(Taken'))
    <3>1. offeredNow /\ instanceQuota \in Quotas /\ withinQuota(instanceQuota, Cardinality(live))
      BY <2>1, <2>4, OpenGate
    <3>2. found.offered /\ found.quota = instanceQuota
      BY <2>1, <2>4, <3>1
    <3>3. Taken' \in SUBSET live /\ live \in SUBSET Names
      BY <1>2, <2>1, <2>2 DEF Taken, live
    <3>4. PICK q \in Quotas : q = instanceQuota
      BY <3>1
    <3>5. withinQuota(q, Cardinality(Taken'))
      BY <3>1, <3>3, <3>4, FewerFit
    <3> QED BY <3>1, <3>2, <3>4, <3>5
  <2>5. RunInv'
    BY <2>2, <2>3, <2>4 DEF RunInv, withinQuota
  <2>6. TypeInv' /\ ClassInv' /\ ProjectInv'
    BY <1>1, <2>1 DEF Inv, TypeInv, ClassInv, ProjectInv, isStatusCurrent
  <2> QED BY <2>5, <2>6 DEF Inv
<1>3. CASE n \notin live
  <2>1. instance' = [instance EXCEPT ![n] = None] /\ UNCHANGED ri
    BY <1>3 DEF ReadInstance
  <2>2. instance' \in [Names -> Product \cup {None}]
    BY <2>1 DEF Inv, TypeInv
  <2>3. \A m \in live' : instance'[m].phase = "Admitted" => m \in live /\ instance[m].phase = "Admitted"
    BY <2>1 DEF Inv, TypeInv, live
  <2> QED BY <1>1, <2>1, <2>2, <2>3, ProductStep
<1> QED BY <1>2, <1>3

(* The phase goes to whatever has the name.                                *)
LEMMA WriteStep ==
  ASSUME Inv, WriteInstance
  PROVE  Inv'
<1>1. UNCHANGED <<project, class>> /\ ri' = Idle /\ ri.pc = "write"
  BY DEF WriteInstance
<1>2. ri.name \in Names /\ ri.phase \in Phases
  BY <1>1 DEF Inv, RunInv
<1>3. instance' \in [Names -> Product \cup {None}]
  <2>1. CASE instance[ri.name] # None
    <3>1. instance' = [instance EXCEPT ![ri.name].phase = ri.phase]
      BY <2>1 DEF WriteInstance
    <3>2. [instance[ri.name] EXCEPT !.phase = ri.phase] \in Product
      BY <1>2, <2>1 DEF Inv, TypeInv, Product
    <3> QED BY <1>2, <3>1, <3>2 DEF Inv, TypeInv
  <2>2. CASE instance[ri.name] = None
    BY <2>2 DEF WriteInstance, Inv, TypeInv
  <2> QED BY <2>1, <2>2
<1>4. RunInv'
  BY <1>1 DEF RunInv, Idle
<1>5. TypeInv' /\ ClassInv' /\ ProjectInv'
  BY <1>1, <1>3 DEF Inv, TypeInv, ClassInv, ProjectInv, isStatusCurrent
<1> QED BY <1>4, <1>5 DEF Inv

(* The class turns its own spec into its status.                           *)
LEMMA ClassReconciled ==
  ASSUME Inv, ReconcileServiceClass
  PROVE  Inv'
<1>1. /\ class' = [class EXCEPT !.obs = class.gen, !.accepted = class.driver,
                                !.offered = class.driver /\ class.published]
      /\ UNCHANGED <<project, instance, ri>>
  BY DEF ReconcileServiceClass, classStatus, running
<1>2. /\ class \in Class /\ class.gen \in Nat /\ class.gen \in Generation
      /\ class.driver \in BOOLEAN /\ class.published \in BOOLEAN
  BY DEF Inv, TypeInv, Class, Generation
<1>3. PICK o \in BOOLEAN : o = (class.driver /\ class.published)
  BY <1>2
<1>4. class' = [class EXCEPT !.obs = class.gen, !.accepted = class.driver, !.offered = o]
  BY <1>1, <1>3
<1>5. class' \in Class
  BY <1>2, <1>4 DEF Class
<1>6. /\ class'.obs = class.gen /\ class'.gen = class.gen /\ class'.accepted = class.driver
      /\ class'.driver = class.driver /\ class'.published = class.published
      /\ class'.offered = o
  BY <1>2, <1>4 DEF Class
<1>7. ClassInv'
  BY <1>2, <1>3, <1>6 DEF ClassInv, isStatusCurrent
<1> QED BY <1>1, <1>5, <1>7, ClassStep

(* The plan's controller touches the plan only.                            *)
LEMMA PlanReconciled ==
  ASSUME Inv, ReadServicePlan \/ WriteServicePlan
  PROVE  Inv'
<1>1. UNCHANGED <<project, class, instance, ri>>
  BY DEF ReadServicePlan, WriteServicePlan
<1>2. project' \in Project \cup {None} /\ ProjectInv'
  BY <1>1 DEF Inv, TypeInv, ProjectInv, isStatusCurrent
<1> QED BY <1>1, <1>2, ProjectStep

(* A project that reports ready names a cluster, and its quota is one of   *)
(* those the model knows.                                                  *)
LEMMA ProjectReconciled ==
  ASSUME Inv, ReconcileProject
  PROVE  Inv'
<1>1. project \in Project /\ UNCHANGED <<class, instance, ri>>
  BY DEF ReconcileProject, running, Inv, TypeInv
<1>2. /\ project.gen \in Nat /\ project.gen \in Generation /\ project.quota \in Quotas
      /\ project.cluster \in BOOLEAN /\ project.placed \in BOOLEAN
  BY <1>1 DEF Project, Generation
<1>3. PICK r \in BOOLEAN : r = (tenant # None /\ tenant.active /\ project.cluster /\ clusterPlaceable)
  OBVIOUS
<1>4. PICK pl \in BOOLEAN :
        pl = (IF tenant # None /\ tenant.active /\ (project.cluster => cluster # "absent")
              THEN project.cluster ELSE project.placed)
  BY <1>2
<1>5. PICK q \in Quotas :
        q = (IF tenant = None THEN project.quota ELSE effectiveProjectQuota(project, tenant))
  BY <1>1, <1>2, QuotaType
<1>6. project' = [project EXCEPT !.obs = project.gen, !.ready = r, !.placed = pl, !.quota = q]
  BY <1>1, <1>3, <1>4, <1>5 DEF ReconcileProject, Project
<1>7. project' \in Project
  BY <1>1, <1>2, <1>6 DEF Project
<1>8. /\ project'.obs = project.gen /\ project'.gen = project.gen /\ project'.ready = r
      /\ project'.cluster = project.cluster
  BY <1>1, <1>6 DEF Project
<1>9. ProjectInv'
  BY <1>2, <1>3, <1>8 DEF ProjectInv
<1> QED BY <1>1, <1>7, <1>9, ProjectStep

(* Every step keeps the invariant.                                         *)
LEMMA Inductive == Inv /\ [Next]_vars => Inv'
<1> SUFFICES ASSUME Inv, [Next]_vars PROVE Inv'
  OBVIOUS
<1>1. CASE Administer
  BY <1>1, AdminStep
<1>2. CASE Use
  BY <1>2, UseStep
<1>3. CASE Reconcile
  BY <1>3, ClassReconciled, PlanReconciled, ProjectReconciled, ReadStep, WriteStep DEF Reconcile
<1>4. CASE UNCHANGED vars
  <2>1. UNCHANGED <<project, class, instance, ri>>
    BY <1>4 DEF vars, running
  <2>2. project' \in Project \cup {None} /\ ProjectInv'
    BY <2>1 DEF Inv, TypeInv, ProjectInv, isStatusCurrent
  <2> QED BY <2>1, <2>2, ProjectStep
<1> QED BY <1>1, <1>2, <1>3, <1>4 DEF Next

(* The invariant holds in every reachable state.                           *)
LEMMA Invariant == Spec => []Inv
BY Initially, Inductive, PTL DEF Spec

(* -------------------------------- theorems ------------------------------ *)

(* An instance is admitted only if the specs offered it when its reconcile *)
(* looked: the gates of the ServiceInstance controller rely on statuses of *)
(* the current generation, and those say what the specs say.               *)
THEOREM AdmittedIsOffered == Spec => []AdmittedWasOffered
<1>1. Inv => AdmittedWasOffered
  BY DEF Inv, RunInv, AdmittedWasOffered
<1> QED BY <1>1, Invariant, PTL

(* Only the write of a reconcile admits, and it admits the instance it     *)
(* looked at; every other one that is admitted by then was counted.        *)
LEMMA OnlyWritesAdmit ==
  ASSUME Inv, [Next]_vars, NEW n \in Names,
         instance'[n] # None, instance'[n].phase = "Admitted",
         instance[n] = None \/ instance[n].phase # "Admitted"
  PROVE  WriteInstance
<1>1. instance \in [Names -> Product \cup {None}]
  BY DEF Inv, TypeInv
<1>2. ~Administer /\ ~(UNCHANGED vars)
  BY DEF Administer, CreateTenant, UpdateTenant, DeleteTenant, CreateProject, UpdateProject,
         DeleteProject, UpdateServiceClass, EditServicePlan, EditPolicy, ClusterChanges, vars
<1>3. ASSUME NEW m \in Names, NEW s \in Specs, CreateProduct(m, s) PROVE FALSE
  <2>1. instance' = [instance EXCEPT ![m] = new(s)]
    BY <1>3 DEF CreateProduct
  <2>2. new(s).phase = None
    BY DEF new
  <2> QED BY <1>1, <2>1, <2>2, CatalogConstants
<1>4. ASSUME NEW m \in Names, NEW s \in Specs, UpdateProduct(m, s) PROVE FALSE
  <2>1. instance' = [instance EXCEPT ![m].spec = s] /\ instance[m] # None
    BY <1>4 DEF UpdateProduct
  <2>2. PICK o : o = [instance[m] EXCEPT !.spec = s]
    OBVIOUS
  <2>3. instance[m] \in Product /\ instance' = [instance EXCEPT ![m] = o]
    BY <1>1, <2>1, <2>2
  <2>4. o.phase = instance[m].phase
    BY <2>2, <2>3 DEF Product
  <2> QED BY <1>1, <2>1, <2>3, <2>4
<1>5. ASSUME NEW m \in Names, DeleteProduct(m) PROVE FALSE
  <2>1. instance' = [instance EXCEPT ![m].deleting = TRUE] /\ instance[m] # None
    BY <1>5 DEF DeleteProduct, live
  <2>2. PICK o : o = [instance[m] EXCEPT !.deleting = TRUE]
    OBVIOUS
  <2>3. instance[m] \in Product /\ instance' = [instance EXCEPT ![m] = o]
    BY <1>1, <2>1, <2>2
  <2>4. o.phase = instance[m].phase
    BY <2>2, <2>3 DEF Product
  <2> QED BY <1>1, <2>1, <2>3, <2>4
<1>6. ASSUME NEW m \in Names, ReadInstance(m) PROVE FALSE
  <2>1. UNCHANGED instance \/ instance' = [instance EXCEPT ![m] = None]
    BY <1>6 DEF ReadInstance
  <2> QED BY <1>1, <2>1
<1>7. ~ReconcileServiceClass /\ ~ReadServicePlan /\ ~WriteServicePlan /\ ~ReconcileProject
  BY DEF ReconcileServiceClass, ReadServicePlan, WriteServicePlan, ReconcileProject
<1>8. \A q \in Requests : q[1] \in Names /\ q[2] \in Specs
  BY CatalogConstants
<1>9. ~Use
  BY <1>3, <1>4, <1>5, <1>8 DEF Use
<1> QED BY <1>2, <1>6, <1>7, <1>9 DEF Next, Reconcile

(* Whenever an instance becomes admitted, the admitted ones are within the *)
(* quota its reconcile used, although others were created, deleted and     *)
(* edited between its count and its write.                                 *)
THEOREM QuotaIsKept == Spec => AdmittedWithinQuota
<1>1. ASSUME Inv, [Next]_vars, NEW n \in Names,
             instance'[n] # None, instance'[n].phase = "Admitted",
             instance[n] = None \/ instance[n].phase # "Admitted"
      PROVE  withinQuota(ri.found.quota, Cardinality({m \in live' : instance'[m].phase = "Admitted"}))
  <2> DEFINE A == {m \in live' : instance'[m].phase = "Admitted"}
  <2>1. WriteInstance
    BY <1>1, OnlyWritesAdmit
  <2>2. /\ instance[ri.name] # None /\ ri.pc = "write" /\ ri.name \in Names
        /\ instance' = [instance EXCEPT ![ri.name].phase = ri.phase]
        /\ instance \in [Names -> Product \cup {None}]
    BY <1>1, <2>1 DEF WriteInstance, Inv, TypeInv, RunInv
  <2>3. PICK k, o : k = ri.name /\ o = [instance[k] EXCEPT !.phase = ri.phase]
    BY <2>2
  <2>4. instance' = [instance EXCEPT ![k] = o] /\ instance[k] \in Product
    BY <2>2, <2>3
  <2>5. o.phase = ri.phase /\ o.deleting = instance[k].deleting
    BY <2>3, <2>4 DEF Product
  <2>6. n = k /\ ri.phase = "Admitted"
    BY <1>1, <2>2, <2>4, <2>5
  <2>7. A \in SUBSET Taken /\ Taken \in SUBSET Names
    BY <2>2, <2>3, <2>4, <2>5 DEF Taken, live
  <2>8. ri.found.quota \in Quotas /\ withinQuota(ri.found.quota, Cardinality(Taken))
    BY <1>1, <2>2, <2>6 DEF Inv, RunInv
  <2>9. PICK q \in Quotas : q = ri.found.quota
    BY <2>8
  <2>10. withinQuota(q, Cardinality(A))
    BY <2>7, <2>8, <2>9, FewerFit
  <2> QED BY <2>9, <2>10
<1>2. ASSUME Inv, [Next]_vars
      PROVE  [\A n \in Names :
                instance'[n] # None /\ instance'[n].phase = "Admitted"
                  /\ (instance[n] = None \/ instance[n].phase # "Admitted")
                => withinQuota(ri.found.quota,
                               Cardinality({m \in live' : instance'[m].phase = "Admitted"}))
             ]_instance
  BY <1>1, <1>2
<1> QED BY <1>2, Invariant, PTL DEF Spec, AdmittedWithinQuota

=============================================================================
