------------------------------- MODULE Catalog ------------------------------
(***************************************************************************)
(* What has to agree before an instance is provisioned: a tenant, its      *)
(* project, a service class and a plan, policies, a quota and a cluster.   *)
(* Each has its own controller that turns its spec into a status; the      *)
(* ServiceInstance controller looks at specs and statuses of all of them.  *)
(* Administrators edit every object at any time, and nothing but the plans *)
(* is woken when something it depends on changes: a project or an instance *)
(* is looked at again because it is requeued, or when its informer lists   *)
(* everything again; the model lets that happen at any time.               *)
(***************************************************************************)
EXTENDS Naturals, FiniteSets

CONSTANTS
  Names,     \* names of instances
  Specs,     \* what an instance may ask for: [valid, values]
  Requests,  \* pairs of a name and a spec that users ask for
  Limits,    \* maxServices of a project, or None
  Rules,     \* rules of the Policy an administrator may write
  Starts,    \* how the catalog is installed: [published, driver, profile, curated, policy]
  MaxReplicas, \* constraint of the plan
  MaxEdits,  \* bound on edits once the catalog is installed
  None

ASSUME CatalogConstants ==
  /\ MaxEdits \in Nat /\ MaxReplicas \in Nat /\ Limits \subseteq {None, 1, 2}
  /\ Requests \subseteq Names \X Specs
  /\ \A s \in Specs : s.valid \in BOOLEAN
  /\ \A s \in Starts : s.published \in BOOLEAN /\ s.driver \in BOOLEAN
  /\ IsFiniteSet(Names) /\ None \notin Nat /\ None # "Admitted"

VARIABLES
  tenant,    \* None or [active, allowed, profile, policies]
  project,   \* None or [gen, cluster, max], status [obs, ready, placed, quota]
  class,     \* [gen, published, driver] and its status [obs, accepted, offered]
  plan,      \* [gen, version] and its status [obs, accepted, offered]
  policy,    \* None or the rule of the Policy object that plans refer to
  cluster,   \* the ClusterTarget as its controller reports it
  instance,  \* per name, None or [spec, deleting, phase]
  planQueue, \* whether the plan is waiting to be reconciled
  rl, ri,    \* reconciles of the plan and of an instance under way
  edits

admin   == <<tenant, policy, cluster>>
running == <<rl, ri>>
vars == <<admin, project, class, plan, instance, planQueue, running, edits>>

Idle == [pc |-> "idle"]
Unset == 100   \* no limit
Quotas == [services : {1, 2, Unset}, namespaces : {1, Unset}]

\* A project as it is stored before its first reconcile.
newProject(c) ==
  [gen |-> 0, cluster |-> c, max |-> None, obs |-> None, ready |-> FALSE, placed |-> FALSE,
   quota |-> [services |-> Unset, namespaces |-> Unset]]

Init ==
  \E s \in Starts :
    /\ tenant = [active |-> TRUE, allowed |-> TRUE, profile |-> s.profile, policies |-> s.curated]
    /\ project = newProject(TRUE)
    /\ class = [gen |-> 0, published |-> s.published, driver |-> s.driver,
                obs |-> None, accepted |-> FALSE, offered |-> FALSE]
    /\ plan = [gen |-> 0, version |-> TRUE, obs |-> None, accepted |-> FALSE, offered |-> FALSE]
    /\ policy = s.policy /\ cluster = "ready"
    /\ instance = [n \in Names |-> None] /\ planQueue = TRUE
    /\ rl = Idle /\ ri = Idle /\ edits = 0

----------------------------------------------------------------------------
(* Quotas and policies *)

quotaProfile(name) ==
  IF name = "tiny" THEN [services |-> 1, namespaces |-> 1]
  ELSE [services |-> Unset, namespaces |-> Unset]
\* The project's own limit replaces the profile's, that on namespaces stays.
effectiveProjectQuota(p, t) ==
  [quotaProfile(t.profile) EXCEPT !.services = IF p.max = None THEN @ ELSE p.max]

\* A rule describes the violation; 0 is the empty string, which is no number,
\* and what cannot be evaluated counts as violated.
resolvePolicyValue(values, path) ==
  IF path \in DOMAIN values THEN [exists |-> TRUE, value |-> values[path]]
  ELSE [exists |-> FALSE, value |-> 0]
evaluatePolicyRule(rule, values) ==
  LET found == resolvePolicyValue(values, rule.path)
      exists == found.exists
      v == found.value
  IN IF rule.op \in {"Exists", "NotExists", "Empty", "NotEmpty"}
     THEN CASE rule.op = "Exists"    -> exists
            [] rule.op = "NotExists" -> ~exists
            [] rule.op = "Empty"     -> v = 0
            [] rule.op = "NotEmpty"  -> v # 0
     ELSE /\ exists
          /\ CASE rule.op = "Equals"    -> v = rule.value
               [] rule.op = "NotEquals" -> v # rule.value
               [] rule.op = "In"        -> v \in rule.values
               [] rule.op = "NotIn"     -> v \notin rule.values
               [] rule.op = "GT"        -> v = 0 \/ v > rule.value
               [] rule.op = "GTE"       -> v = 0 \/ v >= rule.value
               [] rule.op = "LT"        -> v = 0 \/ v < rule.value
               [] rule.op = "LTE"       -> v = 0 \/ v <= rule.value

\* The curated policy every tenant may refer to by name.
evaluateCuratedPolicy(spec) == spec.values.exposure # 2
\* The curated policies of the tenant, the Policy object of the plan, whose
\* absence is a violation too, and the constraints of the plan.
evaluateDefinedPolicy(pol, spec) == pol # None /\ ~evaluatePolicyRule(pol, spec.values)
withinConstraints(values) == "replicas" \in DOMAIN values => values.replicas <= MaxReplicas
evaluateInstancePolicies(t, pol, spec) ==
  /\ t.policies => evaluateCuratedPolicy(spec)
  /\ evaluateDefinedPolicy(pol, spec)
  /\ withinConstraints(spec.values)

live == {n \in Names : instance[n] # None /\ ~instance[n].deleting}
\* Every instance has a namespace of its own.
withinQuota(q, count) == count <= q.services /\ count <= q.namespaces

----------------------------------------------------------------------------
(* The controllers of the catalog *)

classStatus(c) ==
  [accepted |-> c.driver, offered |-> c.driver /\ c.published]
\* Mutant: plans are not woken by their class.
onlyItself == planQueue
\* servicePlansForServiceClass: every event of a class queues its plans.
servicePlansForServiceClass == TRUE

\* The class reads nothing but itself and writes under its own version, after
\* every edit.
ReconcileServiceClass ==
  /\ class.obs # class.gen
  /\ LET s == classStatus(class)
     IN class' = [class EXCEPT !.obs = class.gen, !.accepted = s.accepted, !.offered = s.offered]
  /\ planQueue' = servicePlansForServiceClass
  /\ UNCHANGED <<admin, project, plan, instance, running, edits>>

isStatusCurrent(obj) == obj.obs = obj.gen

\* Own status from own spec and the class as it is now.
planStatus ==
  LET accepted == plan.version
      offered == accepted /\ isStatusCurrent(class) /\ class.accepted /\ class.offered
      failed == ~accepted \/ (isStatusCurrent(class) /\ ~class.accepted)
  IN [pc |-> "write", gen |-> plan.gen, accepted |-> accepted, offered |-> offered,
      failed |-> failed]
ReadServicePlan ==
  /\ rl.pc = "idle" /\ planQueue
  /\ rl' = planStatus
  /\ planQueue' = FALSE
  /\ UNCHANGED <<admin, project, class, plan, instance, ri, edits>>
\* A failed plan is requeued, and so is one whose update is refused because
\* the plan changed meanwhile.
WriteServicePlan ==
  /\ rl.pc = "write"
  /\ LET p == [plan EXCEPT !.obs = rl.gen, !.accepted = rl.accepted, !.offered = rl.offered]
     IN IF plan.gen = rl.gen
        THEN plan' = p /\ planQueue' = (planQueue \/ p # plan \/ rl.failed)
        ELSE UNCHANGED plan /\ planQueue' = TRUE
  /\ rl' = Idle
  /\ UNCHANGED <<admin, project, class, instance, ri, edits>>

clusterPlaceable == cluster \in {"installing", "ready"}
\* Own status from own spec, the tenant and the cluster, in one step: the
\* update is refused when the project changed meanwhile, and a tenant or a
\* cluster read too early is read again.
ReconcileProject ==
  /\ project # None
  /\ project' =
       [project EXCEPT
          !.obs = project.gen,
          !.ready = tenant # None /\ tenant.active /\ project.cluster /\ clusterPlaceable,
          !.placed = IF tenant # None /\ tenant.active /\ (project.cluster => cluster # "absent")
                     THEN project.cluster ELSE @,
          !.quota = IF tenant = None THEN @ ELSE effectiveProjectQuota(project, tenant)]
  /\ UNCHANGED <<admin, class, plan, instance, planQueue, running, edits>>

----------------------------------------------------------------------------
(* The ServiceInstance controller *)

\* Mutant: a status is taken as it is, whatever generation it is of.
projectReadyAsSeen == project.ready
projectReady == isStatusCurrent(project) /\ project.ready
\* A cluster is named by the project's status or, failing that, its spec.
resolvedClusterName == project.placed \/ project.cluster
\* EffectiveQuota, or computed afresh when the status sets no limit.
instanceQuota ==
  IF project.quota = [services |-> Unset, namespaces |-> Unset]
  THEN effectiveProjectQuota(project, tenant) ELSE project.quota
\* Mutant: one instance too many.
oneTooMany == Cardinality(live) - 1
\* enforceProjectQuota counts what the informer lists, the instance included.
serviceCount == Cardinality(live)

\* The cluster and what has to be installed there, then the adapter's own
\* validation.
placement(spec) ==
  IF ~resolvedClusterName THEN "PendingPlacement"
  ELSE IF cluster = "absent" THEN "Failed"
  ELSE IF cluster # "ready" THEN "PendingDependencies"
  ELSE IF ~spec.valid THEN "Invalid"
  ELSE "Admitted"
\* The gates, in their order, and the phase of the first that is closed.
gate(spec) ==
  IF project = None \/ tenant = None THEN "Failed"
  ELSE IF ~tenant.allowed THEN "Failed"
  ELSE IF ~projectReady THEN "PendingDependencies"
  ELSE IF ~isStatusCurrent(class) \/ ~class.accepted THEN "PendingDependencies"
  ELSE IF ~class.offered THEN "Failed"
  ELSE IF ~isStatusCurrent(plan) THEN "PendingDependencies"
  ELSE IF ~plan.accepted \/ ~plan.offered THEN "Failed"
  ELSE IF ~evaluateInstancePolicies(tenant, policy, spec) THEN "Failed"
  ELSE IF ~withinQuota(instanceQuota, serviceCount) THEN "Failed"
  ELSE placement(spec)

\* What the specs themselves say of this moment, for the properties.
offeredNow ==
  /\ tenant # None /\ tenant.allowed
  /\ class.published /\ class.driver
  /\ project # None /\ project.cluster

\* One worker; an instance being deleted is cleaned up and gone.
ReadInstance(n) ==
  /\ ri.pc = "idle" /\ instance[n] # None
  /\ \/ /\ n \in live
        /\ LET phase == gate(instance[n].spec)
               found == IF phase = "Admitted" THEN [offered |-> offeredNow, quota |-> instanceQuota]
                        ELSE None
           IN ri' = [pc |-> "write", name |-> n, phase |-> phase, found |-> found]
        /\ UNCHANGED instance
     \/ n \notin live /\ instance' = [instance EXCEPT ![n] = None] /\ UNCHANGED ri
  /\ UNCHANGED <<admin, project, class, plan, planQueue, rl, edits>>
\* persistStatusIfChanged patches whatever has the name now.
WriteInstance ==
  /\ ri.pc = "write"
  /\ \/ /\ instance[ri.name] # None
        /\ instance' = [instance EXCEPT ![ri.name].phase = ri.phase]
     \/ instance[ri.name] = None /\ UNCHANGED instance
  /\ ri' = Idle
  /\ UNCHANGED <<admin, project, class, plan, planQueue, rl, edits>>

----------------------------------------------------------------------------
(* Administrators and users, through the BFF or the API server *)

Edit == edits < MaxEdits /\ edits' = edits + 1

\* The webhook keeps the quota profile.
UpdateTenant ==
  /\ Edit /\ tenant # None
  /\ \/ tenant' = [tenant EXCEPT !.active = ~@]
     \/ tenant' = [tenant EXCEPT !.allowed = ~@]
     \/ tenant' = [tenant EXCEPT !.policies = ~@]
  /\ UNCHANGED <<policy, cluster, project, class, plan, instance, planQueue, running>>
CreateTenant ==
  /\ Edit /\ tenant = None
  /\ \E pr \in {"tiny", "default"} :
       tenant' = [active |-> TRUE, allowed |-> TRUE, profile |-> pr, policies |-> FALSE]
  /\ UNCHANGED <<policy, cluster, project, class, plan, instance, planQueue, running>>
\* Nobody asks whether the tenant has projects, or the project instances.
DeleteTenant ==
  /\ Edit /\ tenant # None /\ tenant' = None
  /\ UNCHANGED <<policy, cluster, project, class, plan, instance, planQueue, running>>
DeleteProject ==
  /\ Edit /\ project # None /\ project' = None
  /\ UNCHANGED <<admin, class, plan, instance, planQueue, running>>
\* The tenant it names need not exist.
CreateProject ==
  /\ Edit /\ project = None
  /\ \E c \in BOOLEAN : project' = newProject(c)
  /\ UNCHANGED <<admin, class, plan, instance, planQueue, running>>
\* The request replaces both the cluster and the limit, named or not.
UpdateProject ==
  /\ Edit /\ project # None
  /\ \E c \in BOOLEAN, m \in Limits :
       /\ c # project.cluster \/ m # project.max
       /\ project' = [project EXCEPT !.gen = @ + 1, !.cluster = c, !.max = m]
  /\ UNCHANGED <<admin, class, plan, instance, planQueue, running>>
\* The webhook keeps the driver.
UpdateServiceClass ==
  /\ Edit
  /\ class' = [class EXCEPT !.gen = @ + 1, !.published = ~@]
  /\ planQueue' = servicePlansForServiceClass
  /\ UNCHANGED <<admin, project, plan, instance, running>>
EditServicePlan ==
  /\ Edit
  /\ plan' = [plan EXCEPT !.gen = @ + 1, !.version = ~@]
  /\ planQueue' = TRUE
  /\ UNCHANGED <<admin, project, class, instance, running>>
\* The webhook accepts complete rules only.
EditPolicy ==
  /\ Edit
  /\ \E r \in Rules \cup {None} : r # policy /\ policy' = r
  /\ UNCHANGED <<tenant, cluster, project, class, plan, instance, planQueue, running>>
\* The ClusterTarget controller reports, or the target is deleted or created.
ClusterChanges ==
  /\ Edit
  /\ \E c \in {"absent", "unready", "installing", "ready"} : c # cluster /\ cluster' = c
  /\ UNCHANGED <<tenant, policy, project, class, plan, instance, planQueue, running>>

\* productRequestToInstance; a platform administrator may go past the tenant's
\* list of classes.  A class being published or withdrawn counts as published.
requestable == project # None /\ tenant # None /\ (class.published \/ class.offered)
new(spec) == [spec |-> spec, deleting |-> FALSE, phase |-> None]
CreateProduct(n, s) ==
  /\ requestable /\ instance[n] = None
  /\ instance' = [instance EXCEPT ![n] = new(s)]
  /\ UNCHANGED <<admin, project, class, plan, planQueue, running, edits>>
UpdateProduct(n, s) ==
  /\ Edit /\ requestable /\ instance[n] # None /\ instance[n].spec # s
  /\ instance' = [instance EXCEPT ![n].spec = s]
  /\ UNCHANGED <<admin, project, class, plan, planQueue, running>>
DeleteProduct(n) ==
  /\ Edit /\ n \in live
  /\ instance' = [instance EXCEPT ![n].deleting = TRUE]
  /\ UNCHANGED <<admin, project, class, plan, planQueue, running>>
----------------------------------------------------------------------------
Administer ==
  \/ CreateTenant \/ UpdateTenant \/ DeleteTenant
  \/ CreateProject \/ UpdateProject \/ DeleteProject
  \/ UpdateServiceClass \/ EditServicePlan \/ EditPolicy \/ ClusterChanges
Use ==
  \/ \E q \in Requests : CreateProduct(q[1], q[2]) \/ UpdateProduct(q[1], q[2])
  \/ \E n \in Names : DeleteProduct(n)
Reconcile ==
  \/ ReconcileServiceClass
  \/ ReadServicePlan \/ WriteServicePlan \/ ReconcileProject
  \/ (\E n \in Names : ReadInstance(n)) \/ WriteInstance
Next == Administer \/ Use \/ Reconcile

\* Projects and instances are looked at again and again: nearly every state
\* of theirs that waits is requeued, and their informers list everything every
\* ten hours.  Of classes and plans only their own events are assumed.
Spec ==
  /\ Init /\ [][Next]_vars
  /\ WF_vars(ReconcileServiceClass)
  /\ WF_vars(ReadServicePlan) /\ WF_vars(WriteServicePlan)
  /\ WF_vars(ReconcileProject)
  /\ WF_vars(WriteInstance) /\ \A n \in Names : SF_vars(ReadInstance(n))

----------------------------------------------------------------------------
Phases == {"Failed", "PendingDependencies", "PendingPlacement", "Invalid", "Admitted"}

\* The shape of the state; a status is never of a later generation than the
\* spec it describes, and a plan whose status is current was accepted exactly
\* if its current version is supported.
TypeOK ==
  /\ isStatusCurrent(plan) => plan.accepted = plan.version
  /\ \A o \in {class, plan} \cup ({project} \ {None}) : o.obs = None \/ o.obs <= o.gen
  /\ project # None => project.quota \in Quotas
  /\ \A n \in Names : instance[n] # None =>
       instance[n].spec \in Specs /\ instance[n].phase \in Phases \cup {None}
  /\ planQueue \in BOOLEAN /\ edits \in 0 .. MaxEdits

\* An instance is admitted only if, when its reconcile looked, the specs
\* themselves offered it: the class was published with a driver that fits,
\* the tenant allowed it and the project named a cluster.  The controller
\* relies on statuses other controllers wrote earlier for most of this.
AdmittedWasOffered == ri.pc = "write" /\ ri.phase = "Admitted" => ri.found.offered

\* Whenever an instance becomes admitted, the admitted instances of the
\* project, the new one included, are within the quota its reconcile used.
AdmittedWithinQuota ==
  [][\A n \in Names :
       instance'[n] # None /\ instance'[n].phase = "Admitted"
         /\ (instance[n] = None \/ instance[n].phase # "Admitted")
       => withinQuota(ri.found.quota, Cardinality({m \in live' : instance'[m].phase = "Admitted"}))
    ]_instance

\* What the specs, without any status, say of an instance.
intended(n) ==
  /\ tenant # None /\ tenant.active /\ tenant.allowed
  /\ project # None /\ project.cluster /\ cluster = "ready"
  /\ class.published /\ class.driver /\ plan.version
  /\ evaluateInstancePolicies(tenant, policy, instance[n].spec)
  /\ withinQuota(effectiveProjectQuota(project, tenant), serviceCount)
  /\ instance[n].spec.valid
\* Once the edits end, the instances that are admitted are those the specs
\* call for: neither does a late status keep one out, nor does one outlive
\* the suspension of its tenant, the withdrawal of its class, a new policy or
\* a smaller quota.
CatalogConverges ==
  <>[](\A n \in live : (instance[n].phase = "Admitted") <=> intended(n))
=============================================================================
