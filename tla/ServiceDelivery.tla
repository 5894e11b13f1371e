--------------------------- MODULE ServiceDelivery ---------------------------
(***************************************************************************)
(* The delivery half of the ServiceInstance controller                     *)
(* (internal/controllers/serviceinstance_controller.go): publish the       *)
(* rendered package, create the Argo CD Application, record the outcome in *)
(* the status, and clean up behind the finalizer. It runs in the elected   *)
(* pod only, one reconcile at a time, in production mode; the publisher's  *)
(* steps are DeliveryRepo's.                                               *)
(***************************************************************************)
EXTENDS DeliveryRepo

CONSTANT
  Changes   \* what happens to the instances

(* Spec updates, deletions, and Projects or ClusterTargets that come and go.*)
ChangeKinds == {"update", "delete", "target"}

ASSUME ChangesAssumption == Changes \subseteq ChangeKinds

VARIABLES
  desired,   \* the version of each instance's spec
  life,      \* its finalizer and deletion timestamp
  status,    \* its status: phase, delivered version, is a placement recorded
  target,    \* do its Project and ClusterTarget resolve
  queue,     \* is it in the work queue
  leader,    \* the elected pod
  worker,    \* the reconcile in progress
  app,       \* does its Argo CD Application exist
  runtime    \* what runs in its namespace on the target cluster

instanceVars == <<desired, life, status, target, queue, leader, worker, app,
                  runtime>>
vars == <<repoVars, instanceVars>>

Instances == Packages

Lives == {"new", "live", "deleting", "gone"}
PhasesOf == {"", "Failed", "Degraded", "Provisioning", "Ready"}
Status == [phase : PhasesOf, version : 0..MaxVersion, placed : BOOLEAN]
Worker == [pc : {"idle", "publish", "argo", "persist", "delete", "finalize"},
           inst : Instances, client : {"management", "target"}]

Init ==
  /\ RepoInit
  /\ desired = [i \in Instances |-> 1]
  /\ life = [i \in Instances |-> "new"]
  /\ status = [i \in Instances |-> [phase |-> "", version |-> 0, placed |-> FALSE]]
  /\ target \in [Instances -> IF "target" \in Changes THEN BOOLEAN ELSE {TRUE}]
  /\ queue = [i \in Instances |-> TRUE]
  /\ leader \in Pods
  /\ \E i \in Instances :
       worker = [pc |-> "idle", inst |-> i, client |-> "management"]
  /\ app = [i \in Instances |-> FALSE]
  /\ runtime = [i \in Instances |-> Absent]

-----------------------------------------------------------------------------
(* Users and environment *)

(* A spec update that renders other artifacts.                             *)
Update(i) ==
  /\ "update" \in Changes
  /\ life[i] \in {"new", "live"}
  /\ desired[i] < MaxVersion
  /\ desired' = [desired EXCEPT ![i] = @ + 1]
  /\ queue' = [queue EXCEPT ![i] = TRUE]
  /\ UNCHANGED <<repoVars, life, status, target, leader, worker, app, runtime>>

(* Without the finalizer, the API server deletes the object at once.       *)
Delete(i) ==
  /\ "delete" \in Changes
  /\ life[i] \in {"new", "live"}
  /\ life' = [life EXCEPT ![i] = IF @ = "new" THEN "gone" ELSE "deleting"]
  /\ queue' = [queue EXCEPT ![i] = TRUE]
  /\ UNCHANGED <<repoVars, desired, status, target, leader, worker, app, runtime>>

(* The Project or the ClusterTarget is created or deleted.                 *)
TargetChanges(i) ==
  /\ "target" \in Changes
  /\ target' = [target EXCEPT ![i] = ~@]
  /\ UNCHANGED <<repoVars, desired, life, status, queue, leader, worker, app,
                 runtime>>

Resync(i) ==
  /\ ~queue[i]
  /\ queue' = [queue EXCEPT ![i] = TRUE]
  /\ UNCHANGED <<repoVars, desired, life, status, target, leader, worker, app,
                 runtime>>

(* Automated sync with prune and selfHeal of the Application's path.       *)
ArgoSync(i) ==
  /\ app[i]
  /\ runtime[i] # Tip(remote)[i]
  /\ runtime' = [runtime EXCEPT ![i] = Tip(remote)[i]]
  /\ UNCHANGED <<repoVars, desired, life, status, target, queue, leader, worker,
                 app>>

-----------------------------------------------------------------------------
(* Reconcile *)

Goto(pc) == worker' = [worker EXCEPT !.pc = pc]

(* Mutants: a failure's reason is written where its phase belongs, and a   *)
(* failure is not written at all.                                          *)
PersistReason(i, new, requeue) ==
  /\ status' = [status EXCEPT ![i] = [new EXCEPT !.phase =
                  IF @ = "Failed" THEN "PublishFailed" ELSE @]]
  /\ queue' = [queue EXCEPT ![i] = @ \/ requeue \/ new # status[i]]
  /\ Goto("idle")
PersistSuccessOnly(i, new, requeue) ==
  /\ status' = IF new.phase = "Failed" THEN status ELSE [status EXCEPT ![i] = new]
  /\ queue' = [queue EXCEPT ![i] = @ \/ requeue]
  /\ Goto("idle")

(* persistStatusIfChanged: a changed status is an event of its own, so the *)
(* instance is reconciled once more.                                       *)
PersistStatus(i, new, requeue) ==
  /\ status' = [status EXCEPT ![i] = new]
  /\ queue' = [queue EXCEPT ![i] = @ \/ requeue \/ new # status[i]]
  /\ Goto("idle")

(* One of the dependencies is missing: Failed, and again in 30 seconds.    *)
Begin(i) ==
  /\ worker.pc = "idle"
  /\ queue[i]
  /\ LET taken == [queue EXCEPT ![i] = FALSE]
         to(pc) == worker' = [pc |-> pc, inst |-> i, client |-> "management"]
     IN  \/ /\ life[i] = "gone"
            /\ to("idle") /\ queue' = taken
            /\ UNCHANGED <<life, status, job>>
         \/ /\ life[i] = "new"
            /\ life' = [life EXCEPT ![i] = "live"]
            /\ to("idle")
            /\ UNCHANGED <<queue, status, job>>
         \/ /\ life[i] = "deleting"
            /\ worker' = [pc |-> "delete", inst |-> i,
                          client |-> IF target[i] THEN "target" ELSE "management"]
            /\ queue' = taken
            /\ UNCHANGED <<life, status, job>>
         \/ /\ life[i] = "live" /\ ~target[i]
            /\ status' = [status EXCEPT ![i].phase = "Failed"]
            /\ to("idle")
            /\ UNCHANGED <<life, queue, job>>
         \/ /\ life[i] = "live" /\ target[i]
            /\ Publish(leader, i, desired[i])
            /\ to("publish") /\ queue' = taken
            /\ UNCHANGED <<life, status>>
  /\ UNCHANGED <<remote, repo, faults, desired, target, leader, app, runtime>>

(* Mutant: a failed publish is recorded in a status written afresh.        *)
PublishDoneAfresh ==
  LET i == worker.inst
      s == [phase |-> "", version |-> 0, placed |-> TRUE]
  IN  /\ worker.pc = "publish"
      /\ job.pc \in PublishResults
      /\ job' = [job EXCEPT !.pc = "off"]
      /\ \/ job.pc = "pushed" /\ Goto("argo") /\ UNCHANGED <<status, queue>>
         \/ job.pc = "failed" /\ PersistStatus(i, [s EXCEPT !.phase = "Failed"], FALSE)
         \/ /\ job.pc = "unpushed"
            /\ PersistStatus(i, [s EXCEPT !.phase = "Degraded"], TRUE)
      /\ UNCHANGED <<remote, repo, faults, desired, life, target, leader, app, runtime>>

(* A failed publish is recorded and not requeued; one that was not pushed  *)
(* is requeued after 30 seconds.                                           *)
PublishDone ==
  LET i == worker.inst
      s == [status[i] EXCEPT !.placed = TRUE]
  IN  /\ worker.pc = "publish"
      /\ job.pc \in PublishResults
      /\ job' = [job EXCEPT !.pc = "off"]
      /\ \/ job.pc = "pushed" /\ Goto("argo") /\ UNCHANGED <<status, queue>>
         \/ job.pc = "failed" /\ PersistStatus(i, [s EXCEPT !.phase = "Failed"], FALSE)
         \/ /\ job.pc = "unpushed"
            /\ PersistStatus(i, [s EXCEPT !.phase = "Degraded"], TRUE)
      /\ UNCHANGED <<remote, repo, faults, desired, life, target, leader, app, runtime>>

ensureArgoApplication ==
  /\ worker.pc = "argo"
  /\ app' = [app EXCEPT ![worker.inst] = TRUE]
  /\ Goto("persist")
  /\ UNCHANGED <<repoVars, desired, life, status, target, queue, leader, runtime>>

(* The primary resource and its workload are there, whatever the product.  *)
observeRuntime(i) == runtime[i] \notin {Absent, Torn}

(* What was observed becomes the phase; Blocked, for a missing operator, is *)
(* one with Provisioning, as both are requeued.                            *)
applyObservedStatus(observed) == IF observed THEN "Ready" ELSE "Provisioning"

(* Observe the runtime and record the delivery; requeued until Ready.      *)
RecordDelivery ==
  LET i == worker.inst
      phase == applyObservedStatus(observeRuntime(i))
  IN  /\ worker.pc = "persist"
      /\ PersistStatus(i, [phase |-> phase, version |-> job.version, placed |-> TRUE],
                       phase # "Ready")
      /\ UNCHANGED <<repoVars, desired, life, target, leader, app, runtime>>

(* handleDeletion purges the materializer's own directory, which nothing   *)
(* else reads, and deletes the namespace the status names and the primary  *)
(* resource, through the client it could get.                              *)
DeleteRuntime ==
  LET i == worker.inst
  IN  /\ worker.pc = "delete"
      /\ runtime' = IF status[i].placed /\ worker.client = "target"
                    THEN [runtime EXCEPT ![i] = Absent] ELSE runtime
      /\ Goto("finalize")
      /\ UNCHANGED <<repoVars, desired, life, status, target, queue, leader, app>>

RemoveFinalizer ==
  /\ worker.pc = "finalize"
  /\ life' = [life EXCEPT ![worker.inst] = "gone"]
  /\ Goto("idle")
  /\ UNCHANGED <<repoVars, desired, status, target, queue, leader, app, runtime>>

-----------------------------------------------------------------------------
(* Faults *)

(* A call to an API server fails. ensureArgoApplication's error goes to    *)
(* the status; every other one is returned and retried.                    *)
ApiError ==
  LET i == worker.inst
  IN  /\ Fault
      /\ \/ /\ worker.pc = "argo"
            /\ PersistStatus(i, [status[i] EXCEPT !.phase = "Failed", !.placed = TRUE],
                             FALSE)
         \/ /\ worker.pc \in {"persist", "delete", "finalize"}
            /\ Goto("idle")
            /\ queue' = [queue EXCEPT ![i] = TRUE]
            /\ UNCHANGED status
      /\ UNCHANGED <<remote, repo, job, desired, life, target, leader, app, runtime>>

(* The manager stops and a pod, the same or another, becomes the leader.   *)
LeaderChange(p) ==
  /\ Fault
  /\ MayStop
  /\ leader' = p
  /\ job' = [job EXCEPT !.pc = "off"]
  /\ Goto("idle")
  /\ queue' = [i \in Instances |-> TRUE]
  /\ UNCHANGED <<remote, repo, desired, life, status, target, app, runtime>>

(* A pod is replaced: its successor starts with an empty worktree.         *)
ReplacePod(p) ==
  /\ Fault
  /\ repo[p].cloned
  /\ repo' = [repo EXCEPT ![p] = NoRepo]
  /\ IF p = leader
     THEN /\ job' = [job EXCEPT !.pc = "off"]
          /\ Goto("idle")
          /\ queue' = [i \in Instances |-> TRUE]
     ELSE UNCHANGED <<job, worker, queue>>
  /\ UNCHANGED <<remote, desired, life, status, target, leader, app, runtime>>

-----------------------------------------------------------------------------
(* Specification *)

Reconcile ==
  \/ PublishDone \/ ensureArgoApplication \/ RecordDelivery
  \/ DeleteRuntime \/ RemoveFinalizer

Next ==
  \/ \E i \in Instances : Update(i) \/ Delete(i) \/ TargetChanges(i)
  \/ \E i \in Instances : Resync(i) \/ Begin(i) \/ ArgoSync(i)
  \/ Reconcile
  \/ RepoNext /\ UNCHANGED instanceVars
  \/ ApiError
  \/ \E p \in Pods : LeaderChange(p) \/ ReplacePod(p)

Spec == Init /\ [][Next]_vars

(* The leader works, its queue reaches every instance, resyncs recur and   *)
(* Argo CD syncs.                                                          *)
Fairness ==
  /\ WF_vars(Reconcile)
  /\ WF_vars(PublishStep /\ UNCHANGED instanceVars)
  /\ \A i \in Instances : /\ SF_vars(Begin(i))
                          /\ WF_vars(Resync(i))
                          /\ WF_vars(ArgoSync(i))

FairSpec == Spec /\ Fairness

-----------------------------------------------------------------------------
(* Properties *)

TypeOK ==
  /\ RepoTypeOK
  /\ desired \in [Instances -> 1..MaxVersion]
  /\ life \in [Instances -> Lives]
  /\ status \in [Instances -> Status]
  /\ target \in [Instances -> BOOLEAN]
  /\ queue \in [Instances -> BOOLEAN]
  /\ leader \in Pods
  /\ worker \in Worker
  /\ app \in [Instances -> BOOLEAN]
  /\ runtime \in [Instances -> {Torn, Absent} \cup 1..MaxVersion]

(* A status that shows the instance provisioning or ready at a version was *)
(* written after that version, or a later one, reached the delivery        *)
(* repository, and it is still there.                                      *)
AckedPublished ==
  \A i \in Instances :
    status[i].phase \in {"Provisioning", "Ready"}
    => Tip(remote)[i] >= status[i].version

(* Delivery as its users see it.                                           *)
Promise == INSTANCE VersionedDelivery WITH
  wanted <- desired,
  published <- Tip(remote),
  acked <- [i \in Instances |-> status[i].version],
  running <- runtime

(* The controller and its publisher implement VersionedDelivery: through   *)
(* stale worktrees, rejected and unanswered pushes, leader changes and     *)
(* replaced pods, what is published only follows the specs, what a status  *)
(* shows only follows what is published, and Argo CD runs nothing else.    *)
ImplementsVersionedDelivery == Promise!Spec

Delivered(i) ==
  /\ Tip(remote)[i] = desired[i]
  /\ runtime[i] = desired[i]
  /\ status[i] = [phase |-> "Ready", version |-> desired[i], placed |-> TRUE]

(* The leader's worktree lacks a commit of the remote and can never push.  *)
Divergent == repo[leader].cloned /\ ~IsPrefix(remote, repo[leader].head)

(* An instance that stays placed ends up with its last version published,  *)
(* running and reported, whatever was lost on the way; the one thing that  *)
(* stops it is a divergent worktree, and then its status says Failed.      *)
EventuallyDelivered ==
  \A i \in Instances :
    <>[](life[i] = "live" /\ target[i])
    => <>[](Delivered(i) \/ (Divergent /\ status[i].phase = "Failed"))

(* The finalizer goes only after cleanup on the cluster the instance runs  *)
(* on. The code does not keep this: see section 5 of the README.           *)
FinalizerGuardsCleanup ==
  [][\A i \in Instances :
       life[i] = "deleting" /\ life'[i] = "gone"
       => worker.client = "target" \/ runtime[i] = Absent]_vars

(* Argo CD does not bring back what a finished deletion removed. The code  *)
(* does not keep this: see section 5 of the README.                        *)
DeletedStopsSyncing ==
  [][\A i \in Instances : life[i] = "gone" /\ runtime[i] = Absent
       => runtime'[i] = Absent]_vars

=============================================================================
