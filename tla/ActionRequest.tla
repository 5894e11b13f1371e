---------------------------- MODULE ActionRequest ----------------------------
(***************************************************************************)
(* The day-2 action pipeline: ActionRequests submitted and reviewed through *)
(* the BFF (internal/bff/writes.go), admitted by the webhook                *)
(* (api/v1alpha1/webhook_validation.go) and executed by the ActionRequest   *)
(* controller (internal/controllers/actionrequest_controller.go).           *)
(*                                                                         *)
(* The controller is one worker that reads every typed object through an    *)
(* informer cache and writes through the API server, so a reconcile is      *)
(* split at its API calls: Begin (first Get and the decision), one status   *)
(* patch per branch, the steps of the executor and the final patch.         *)
(* Between two steps the cache may advance, a reviewer or an editor may     *)
(* change the spec, an API call may fail, or the manager may restart.       *)
(***************************************************************************)
EXTENDS Integers, Sequences, FiniteSets

CONSTANTS
  Requests,         \* the ActionRequests
  Targets,          \* the ServiceInstances they act on
  Clusters,         \* the clusters a Valkey instance can be primary on
  TargetOf,         \* spec.targetRef of each request (immutable)
  ActionOf,         \* spec.action of each request (immutable)
  CandidateOf,      \* parameters.candidateCluster of a failover request
  Standbys,         \* the promotion-ready standbys of each target at start
  Edits,            \* which changes happen besides the BFF's, see below
  MaxGeneration,    \* bound on metadata.generation
  MaxLag,           \* bound on the versions the cache may be behind by
  MaxFaults         \* bound on restarts and failed API calls

Actions == {"restart", "rotate-credentials", "failover", "backup"}

(* Updates of a request's spec, of the target and what it refers to, and   *)
(* deletions of a Backup in flight.                                        *)
EditKinds == {"spec", "target", "backupLoss"}

ASSUME ConstantsAssumption ==
  /\ TargetOf \in [Requests -> Targets]
  /\ ActionOf \in [Requests -> Actions]
  /\ CandidateOf \in [Requests -> Clusters]
  /\ Standbys \in [Targets -> SUBSET Clusters]
  /\ Edits \subseteq EditKinds
  /\ MaxGeneration \in Nat \ {0}
  /\ MaxLag \in Nat \ {0}
  /\ MaxFaults \in Nat

VARIABLES
  specs,     \* specs[r][g]: the approval part of r's spec at generation g
  ar,        \* the API server's ActionRequest: its generation and its status
  cache,     \* the version of it in the manager's informer cache
  pend,      \* the versions after that one that the watch has not delivered
  queue,     \* is the request in the controller's work queue
  worker,    \* the reconcile in progress
  applied,   \* the side effects on each runtime object, oldest first
  seen,      \* how many of them the cached copy of the object shows
  backup,    \* the CNPG Backup object of a backup request
  available, \* do the target and what it refers to resolve
  faults     \* restarts and failed calls so far

vars == <<specs, ar, cache, pend, queue, worker, applied, seen, backup,
          available, faults>>

-----------------------------------------------------------------------------
(* Values *)

ApprovalModes == {"Auto", "Required", "Approved", "Rejected"}
Approval == [mode : ApprovalModes, approver : BOOLEAN]

Terminal == {"Succeeded", "Failed"}
Phases == {"", "PendingApproval", "Queued", "Running"} \cup Terminal
OperationStates == {"", "Prepared", "Applied", "Complete"}

(* The generation, and the status fields that steer the reconciler. The    *)
(* operation id "<uid>-<generation>" is its generation, 0 when empty.      *)
Object == [gen : Nat, obs : Nat, phase : Phases, op : Nat,
           state : OperationStates]

(* What an operation leaves on a runtime object: its id (the annotation on *)
(* the pod template or the Secret), the generation whose spec the executor *)
(* was given, and for the ServiceInstance status the standbys still        *)
(* promotion-ready.                                                        *)
Effect == [req : Requests, op : Nat, gen : Nat, ready : SUBSET Clusters]

Workload(t) == <<t, "statefulset">>
Credentials(t) == <<t, "secret">>
Topology(t) == <<t, "instance">>
RuntimeObjects == Targets \X {"statefulset", "secret", "instance"}

BackupPhases == {"absent", "created", "running", "completed", "failed"}

(* The status patches that end a reconcile at once, and the other steps.   *)
Verdicts == {"unresolved", "reset", "pending", "rejected", "noapprover"}
Steps == Verdicts \cup {"idle", "prepare", "execute", "rollout", "finish",
                        "inflight", "record"}
Results == {"", "Queued", "Running", "Succeeded", "Failed"}

(* The reconcile in progress: the operation id and the generation of the   *)
(* prepared action, the cached version of the workload the executor read   *)
(* first, and the execution result on its way to the status.               *)
Worker == [pc : Steps, req : Requests, op : Nat, gen : Nat, read : Nat,
           result : Results]
Idle(r) ==
  [pc |-> "idle", req |-> r, op |-> 0, gen |-> 0, read |-> 0, result |-> ""]

-----------------------------------------------------------------------------
(* Decisions *)

(* The ActionCapability the adapters declare for the request's action.     *)
RequiresApproval(r) == ActionOf[r] = "failover"

approvalPending(r, approval) ==
  \/ approval.mode = "Required"
  \/ RequiresApproval(r) /\ approval.mode # "Approved"

approvalApprovedWithoutApprover(r, approval) ==
  /\ RequiresApproval(r)
  /\ approval.mode = "Approved"
  /\ ~approval.approver

(* The approval under which the reconciler prepares and executes.          *)
Executable(r, approval) ==
  /\ ~approvalPending(r, approval)
  /\ approval.mode # "Rejected"
  /\ ~approvalApprovedWithoutApprover(r, approval)

(* Mutant: a request in progress also counts as submitted.                 *)
SubmittedWhenStarted(c) ==
  c.obs = c.gen /\ c.phase \in Terminal \cup {"Queued", "Running"}

actionAlreadySubmitted(c) == c.obs = c.gen /\ c.phase \in Terminal

(* Mutant: the approver of an approval is not looked at.                   *)
BranchIgnoringApprover(r, c) ==
  IF ~available[TargetOf[r]] THEN "unresolved"
  ELSE IF approvalPending(r, specs[r][c.gen])
       THEN IF c.state = "Applied" THEN "reset" ELSE "pending"
  ELSE IF specs[r][c.gen].mode = "Rejected" THEN "rejected"
  ELSE "prepare"

(* The branch a reconcile takes for the version c it read first.           *)
Branch(r, c) ==
  LET approval == specs[r][c.gen]
  IN  IF ~available[TargetOf[r]] THEN "unresolved"
      ELSE IF approvalPending(r, approval)
           THEN IF c.state = "Applied" THEN "reset" ELSE "pending"
      ELSE IF approval.mode = "Rejected" THEN "rejected"
      ELSE IF approvalApprovedWithoutApprover(r, approval) THEN "noapprover"
      ELSE "prepare"

-----------------------------------------------------------------------------
(* Status patches *)

(* A merge patch carries the fields in which the mutated copy differs from *)
(* the cached one, and no resourceVersion: the other fields stay what they *)
(* are on the server.                                                      *)
Merge(before, after, server) ==
  [gen   |-> server.gen,
   obs   |-> IF after.obs = before.obs THEN server.obs ELSE after.obs,
   phase |-> IF after.phase = before.phase THEN server.phase ELSE after.phase,
   op    |-> IF after.op = before.op THEN server.op ELSE after.op,
   state |-> IF after.state = before.state THEN server.state ELSE after.state]

(* The API server stores a new version and the watch will deliver it.      *)
Store(r, new) ==
  IF new = ar[r]
  THEN UNCHANGED <<ar, pend>>
  ELSE /\ Len(pend[r]) < MaxLag
       /\ ar' = [ar EXCEPT ![r] = new]
       /\ pend' = [pend EXCEPT ![r] = Append(@, new)]

patchActionRequestStatus(r, after) == Store(r, Merge(cache[r], after, ar[r]))

(* What a verdict's mutate function makes of the cached version c.         *)
Verdict(verdict, c) ==
  [c EXCEPT !.obs = c.gen,
            !.phase = IF verdict = "pending" THEN "PendingApproval"
                      ELSE "Failed",
            !.op = IF verdict = "reset" THEN @ ELSE 0,
            !.state = IF verdict = "pending" THEN "" ELSE "Complete"]

(* Mutant: prepare leaves observedGeneration to the final patch.           *)
PreparedUnobserved(c) ==
  LET fresh == c.obs # c.gen
      state == IF fresh \/ c.state = "" THEN "Prepared" ELSE c.state
  IN  [c EXCEPT !.op = IF fresh \/ @ = 0 THEN c.gen ELSE @,
                !.state = state,
                !.phase = IF state = "Prepared" THEN "Running" ELSE @]

(* The prepare mutation: a new generation gets an operation id of its own. *)
Prepared(c) ==
  LET fresh == c.obs # c.gen
      state == IF fresh \/ c.state = "" THEN "Prepared" ELSE c.state
  IN  [c EXCEPT !.obs = c.gen,
                !.op = IF fresh \/ @ = 0 THEN c.gen ELSE @,
                !.state = state,
                !.phase = IF state = "Prepared" THEN "Running" ELSE @]

(* The object the prepare patch returns: the server's answer, or the       *)
(* cached version when there was nothing to patch. On a version past       *)
(* Prepared the conditions differ, so a patch is always sent.              *)
PreparedObject(r) ==
  LET after == Prepared(cache[r])
  IN  IF after = cache[r] /\ after.state = "Prepared"
      THEN cache[r]
      ELSE Merge(cache[r], after, ar[r])

(* Mutants: the phase is copied into the operation state, and the observed *)
(* generation is taken from the operation id.                              *)
ExecutedStateFromPhase(c, result) ==
  [c EXCEPT !.obs = c.gen, !.phase = result, !.state = result]
ExecutedObservingOperation(c, result) ==
  [c EXCEPT !.obs = c.op,
            !.phase = result,
            !.state = IF result \in Terminal THEN "Complete" ELSE "Applied"]

(* applyExecutionStatus and applyFailedStatus after an execution.          *)
Executed(c, result) ==
  [c EXCEPT !.obs = c.gen,
            !.phase = result,
            !.state = IF result \in Terminal THEN "Complete" ELSE "Applied"]

-----------------------------------------------------------------------------
(* Initial state: every request has just been created, in an approval mode *)
(* the BFF gives it: an administrator's sensitive action is Approved        *)
(* without an approver, anybody else's is Required, the rest are Auto. A    *)
(* client of the Kubernetes API may ask for approval of any action.         *)

SubmittedModes(r) ==
  IF RequiresApproval(r) THEN {"Approved", "Required"} ELSE {"Auto", "Required"}

Created == [gen |-> 1, obs |-> 0, phase |-> "", op |-> 0, state |-> ""]

Init ==
  /\ specs \in {f \in [Requests -> {<<[mode |-> m, approver |-> FALSE]>> :
                                      m \in ApprovalModes}] :
                  \A r \in Requests : f[r][1].mode \in SubmittedModes(r)}
  /\ ar = [r \in Requests |-> Created]
  /\ cache = ar
  /\ pend = [r \in Requests |-> <<>>]
  /\ queue = [r \in Requests |-> TRUE]
  /\ \E r \in Requests : worker = Idle(r)
  /\ applied = [o \in RuntimeObjects |-> <<>>]
  /\ seen = [o \in RuntimeObjects |-> 0]
  /\ backup = [r \in Requests |-> "absent"]
  /\ available \in [Targets -> IF "target" \in Edits THEN BOOLEAN ELSE {TRUE}]
  /\ faults = 0

-----------------------------------------------------------------------------
(* Reviewers and editors *)

NewGeneration(r, approval) ==
  /\ Len(specs[r]) < MaxGeneration
  /\ specs' = [specs EXCEPT ![r] = Append(@, approval)]
  /\ Store(r, [ar[r] EXCEPT !.gen = @ + 1])
  /\ UNCHANGED <<cache, queue, worker, applied, seen, backup, available, faults>>

(* The BFF reads past the cache and its Update carries the resourceVersion *)
(* it read, so the check and the update are one step. It needs the target  *)
(* itself, which may be there when something it refers to is not.          *)
handleActionApproval(r) ==
  /\ ar[r].phase = "PendingApproval"
  /\ specs[r][ar[r].gen].mode = "Required"
  /\ \/ NewGeneration(r, [mode |-> "Approved", approver |-> TRUE])
     \/ NewGeneration(r, [mode |-> "Rejected", approver |-> FALSE])

(* Any other update the webhook admits: target, action and idempotency key *)
(* are immutable, the parameters and the approval are not.                 *)
ValidateUpdate(r) ==
  /\ "spec" \in Edits
  /\ \E approval \in Approval : NewGeneration(r, approval)

-----------------------------------------------------------------------------
(* Watches and work queue *)

Deliver(r) ==
  /\ pend[r] # <<>>
  /\ cache' = [cache EXCEPT ![r] = Head(pend[r])]
  /\ pend' = [pend EXCEPT ![r] = Tail(@)]
  /\ queue' = [queue EXCEPT ![r] = TRUE]
  /\ UNCHANGED <<specs, ar, worker, applied, seen, backup, available, faults>>

DeliverObject(o) ==
  /\ seen[o] < Len(applied[o])
  /\ seen' = [seen EXCEPT ![o] = @ + 1]
  /\ UNCHANGED <<specs, ar, cache, pend, queue, worker, applied, backup,
                 available, faults>>

(* The informer's periodic resync, and the events of status changes that   *)
(* touch only conditions and messages.                                     *)
Resync(r) ==
  /\ ~queue[r]
  /\ queue' = [queue EXCEPT ![r] = TRUE]
  /\ UNCHANGED <<specs, ar, cache, pend, worker, applied, seen, backup,
                 available, faults>>

-----------------------------------------------------------------------------
(* Reconcile *)

Done == worker' = Idle(worker.req)

Begin(r) ==
  /\ worker.pc = "idle"
  /\ queue[r]
  /\ queue' = [queue EXCEPT ![r] = FALSE]
  /\ worker' = IF actionAlreadySubmitted(cache[r])
               THEN Idle(r)
               ELSE [Idle(r) EXCEPT !.pc = Branch(r, cache[r])]
  /\ UNCHANGED <<specs, ar, cache, pend, applied, seen, backup, available, faults>>

(* An unresolved dependency also asks for a requeue.                       *)
PatchVerdict ==
  LET r == worker.req
  IN  /\ worker.pc \in Verdicts
      /\ patchActionRequestStatus(r, Verdict(worker.pc, cache[r]))
      /\ queue' = IF worker.pc = "unresolved"
                  THEN [queue EXCEPT ![r] = TRUE] ELSE queue
      /\ Done
      /\ UNCHANGED <<specs, cache, applied, seen, backup, available, faults>>

Prepare ==
  LET r == worker.req
      action == PreparedObject(r)
      next == IF action.state = "Prepared" THEN "execute"
              ELSE IF action.state = "Applied" /\ ActionOf[r] = "backup"
              THEN "inflight" ELSE "idle"
  IN  /\ worker.pc = "prepare"
      /\ patchActionRequestStatus(r, Prepared(cache[r]))
      /\ worker' = IF next = "idle" THEN Idle(r)
                   ELSE [worker EXCEPT !.pc = next, !.op = action.op,
                                       !.gen = action.gen]
      /\ UNCHANGED <<specs, cache, queue, applied, seen, backup, available, faults>>

(* Mutant: all actions share one annotation.                               *)
RecordedUnderOneKey(o, v) ==
  v > 0 /\ applied[o][v].req = worker.req /\ applied[o][v].op = worker.op

(* Version v of object o names the worker's operation as the last of its   *)
(* action (the servicer.io/...-operation-id annotation).                   *)
AlreadyRecorded(o, v) ==
  \E i \in 1..v :
    /\ applied[o][i].req = worker.req
    /\ applied[o][i].op = worker.op
    /\ \A j \in (i + 1)..v :
         ActionOf[applied[o][j].req] # ActionOf[worker.req]

Record(o, ready) ==
  applied' = [applied EXCEPT ![o] =
                Append(@, [req |-> worker.req, op |-> worker.op,
                           gen |-> worker.gen, ready |-> ready])]

Finishing(result) == [worker EXCEPT !.pc = "finish", !.result = result]

(* r.Update of version v of an object: skipped when the annotation is      *)
(* there, a conflict when v is not the latest version.                     *)
AnnotateOperation(o, v, next) ==
  \/ /\ AlreadyRecorded(o, v)
     /\ worker' = next
     /\ UNCHANGED applied
  \/ /\ ~AlreadyRecorded(o, v)
     /\ v = Len(applied[o])
     /\ Record(o, {})
     /\ worker' = next
  \/ /\ ~AlreadyRecorded(o, v)
     /\ v < Len(applied[o])
     /\ worker' = Finishing("Failed")
     /\ UNCHANGED applied

Executing(action) == worker.pc = "execute" /\ ActionOf[worker.req] = action

ExecuteRestart ==
  /\ Executing("restart")
  /\ LET o == Workload(TargetOf[worker.req])
     IN  AnnotateOperation(o, seen[o], Finishing("Succeeded"))
  /\ UNCHANGED <<specs, ar, cache, pend, queue, seen, backup, available, faults>>

(* Mutant: the workload is rolled before the password is replaced.         *)
RotateWorkloadFirst ==
  /\ Executing("rotate-credentials")
  /\ LET o == Workload(TargetOf[worker.req])
     IN  AnnotateOperation(o, seen[o],
                           [worker EXCEPT !.pc = "rollout", !.read = seen[o]])
  /\ UNCHANGED <<specs, ar, cache, pend, queue, seen, backup, available, faults>>

(* Rotation reads the workload, writes the Secret and then the workload.   *)
ExecuteRotateSecret ==
  /\ Executing("rotate-credentials")
  /\ LET t == TargetOf[worker.req]
         o == Credentials(t)
     IN  AnnotateOperation(o, seen[o], [worker EXCEPT !.pc = "rollout",
                                          !.read = seen[Workload(t)]])
  /\ UNCHANGED <<specs, ar, cache, pend, queue, seen, backup, available, faults>>

ExecuteRotateRollout ==
  /\ worker.pc = "rollout"
  /\ AnnotateOperation(Workload(TargetOf[worker.req]), worker.read,
                       Finishing("Succeeded"))
  /\ UNCHANGED <<specs, ar, cache, pend, queue, seen, backup, available, faults>>

(* The cached cache topology of target t: its primary (or none of the      *)
(* candidates) and the standbys that pass the promotion preflight.         *)
PromotedIn(t, cluster) ==
  LET i == seen[Topology(t)]
  IN  i > 0 /\ CandidateOf[applied[Topology(t)][i].req] = cluster
ReadyIn(t) ==
  LET i == seen[Topology(t)]
  IN  IF i = 0 THEN Standbys[t] ELSE applied[Topology(t)][i].ready

(* On the server, cluster is primary and these standbys are ready.         *)
IsTopology(t, cluster, ready) ==
  LET i == Len(applied[Topology(t)])
  IN  /\ i > 0
      /\ CandidateOf[applied[Topology(t)][i].req] = cluster
      /\ applied[Topology(t)][i].ready = ready

(* Mutant: the preflight's error is dropped.                               *)
FailoverIgnoringPreflight ==
  LET t == TargetOf[worker.req]
      candidate == CandidateOf[worker.req]
  IN  /\ Executing("failover")
      /\ worker' = Finishing("Succeeded")
      /\ IF ~PromotedIn(t, candidate) /\ candidate \in ReadyIn(t)
         THEN Record(Topology(t), ReadyIn(t) \ {candidate})
         ELSE UNCHANGED applied
      /\ UNCHANGED <<specs, ar, cache, pend, queue, seen, backup, available, faults>>

(* Failover patches the instance status without a resourceVersion: the     *)
(* topology it computes from the cached copy replaces the server's, and an *)
(* equal one changes nothing.                                              *)
ExecuteFailover ==
  LET t == TargetOf[worker.req]
      candidate == CandidateOf[worker.req]
  IN  /\ Executing("failover")
      /\ \/ /\ PromotedIn(t, candidate)
            /\ worker' = Finishing("Succeeded")
            /\ UNCHANGED applied
         \/ /\ ~PromotedIn(t, candidate)
            /\ candidate \in ReadyIn(t)
            /\ \/ /\ ~IsTopology(t, candidate, ReadyIn(t) \ {candidate})
                  /\ Record(Topology(t), ReadyIn(t) \ {candidate})
               \/ /\ IsTopology(t, candidate, ReadyIn(t) \ {candidate})
                  /\ UNCHANGED applied
            /\ worker' = Finishing("Succeeded")
         \/ /\ ~PromotedIn(t, candidate)
            /\ candidate \notin ReadyIn(t)
            /\ worker' = Finishing("Failed")
            /\ UNCHANGED applied
      /\ UNCHANGED <<specs, ar, cache, pend, queue, seen, backup, available, faults>>

(* Mutant: a Backup that has started counts as done.                       *)
BackupResultWhenStarted(phase) ==
  CASE phase \in {"running", "completed"} -> "Succeeded"
    [] phase = "failed" -> "Failed"
    [] OTHER -> "Queued"

(* cnpgBackupExecutionResult, and Queued for a Backup that is not there.   *)
BackupResult(phase) ==
  CASE phase = "completed" -> "Succeeded"
    [] phase = "failed"    -> "Failed"
    [] phase = "running"   -> "Running"
    [] OTHER               -> "Queued"

(* Creates the Backup named after the request, or adopts the one there.    *)
ExecuteBackup ==
  LET r == worker.req
  IN  /\ Executing("backup")
      /\ backup' = [backup EXCEPT ![r] = IF @ = "absent" THEN "created" ELSE @]
      /\ worker' = Finishing(BackupResult(backup[r]))
      /\ UNCHANGED <<specs, ar, cache, pend, queue, applied, seen, available, faults>>

Finish ==
  /\ worker.pc = "finish"
  /\ patchActionRequestStatus(worker.req,
                              Executed(cache[worker.req], worker.result))
  /\ Done
  /\ UNCHANGED <<specs, cache, queue, applied, seen, backup, available, faults>>

(* reconcileInFlightAction: look at the Backup, then record what it says   *)
(* unless the request has become terminal.                                 *)
ObserveBackup ==
  /\ worker.pc = "inflight"
  /\ worker' = [worker EXCEPT !.pc = "record",
                              !.result = BackupResult(backup[worker.req])]
  /\ UNCHANGED <<specs, ar, cache, pend, queue, applied, seen, backup,
                 available, faults>>

RecordBackup ==
  LET c == cache[worker.req]
  IN  /\ worker.pc = "record"
      /\ IF c.phase \in Terminal
         THEN UNCHANGED <<ar, pend>>
         ELSE patchActionRequestStatus(worker.req, Executed(c, worker.result))
      /\ Done
      /\ UNCHANGED <<specs, cache, queue, applied, seen, backup, available, faults>>

-----------------------------------------------------------------------------
(* Faults and environment *)

(* A status patch (or the in-flight read) returns an error: the reconcile  *)
(* returns it and the work queue retries the request.                      *)
ApiError ==
  /\ faults < MaxFaults
  /\ worker.pc \in Verdicts \cup {"prepare", "finish", "inflight", "record"}
  /\ faults' = faults + 1
  /\ queue' = [queue EXCEPT ![worker.req] = TRUE]
  /\ Done
  /\ UNCHANGED <<specs, ar, cache, pend, applied, seen, backup, available>>

(* An executor's own read or write fails: the execution error is final.    *)
ExecuteError ==
  /\ faults < MaxFaults
  /\ worker.pc \in {"execute", "rollout"}
  /\ faults' = faults + 1
  /\ worker' = Finishing("Failed")
  /\ UNCHANGED <<specs, ar, cache, pend, queue, applied, seen, backup, available>>

(* The manager stops anywhere; its successor lists every object afresh.    *)
Restart ==
  /\ faults < MaxFaults
  /\ faults' = faults + 1
  /\ Done
  /\ cache' = ar
  /\ pend' = [r \in Requests |-> <<>>]
  /\ queue' = [r \in Requests |-> TRUE]
  /\ seen' = [o \in RuntimeObjects |-> Len(applied[o])]
  /\ UNCHANGED <<specs, ar, applied, backup, available>>

(* The instance, or one of the objects it refers to, is created or deleted.*)
TargetChanges(t) ==
  /\ "target" \in Edits
  /\ available' = [available EXCEPT ![t] = ~@]
  /\ UNCHANGED <<specs, ar, cache, pend, queue, worker, applied, seen, backup, faults>>

(* The CNPG operator works on the Backup.                                  *)
BackupProgress(r) ==
  /\ \/ backup[r] = "created" /\ backup' = [backup EXCEPT ![r] = "running"]
     \/ /\ backup[r] = "running"
        /\ \E p \in {"completed", "failed"} : backup' = [backup EXCEPT ![r] = p]
  /\ UNCHANGED <<specs, ar, cache, pend, queue, worker, applied, seen,
                 available, faults>>

(* Somebody deletes a Backup that has not finished.                        *)
BackupLost(r) ==
  /\ "backupLoss" \in Edits
  /\ backup[r] \in {"created", "running"}
  /\ backup' = [backup EXCEPT ![r] = "absent"]
  /\ UNCHANGED <<specs, ar, cache, pend, queue, worker, applied, seen,
                 available, faults>>

-----------------------------------------------------------------------------
(* Specification *)

Reconcile ==
  \/ PatchVerdict \/ Prepare
  \/ ExecuteRestart \/ ExecuteRotateSecret \/ ExecuteRotateRollout
  \/ ExecuteFailover \/ ExecuteBackup
  \/ Finish \/ ObserveBackup \/ RecordBackup

Next ==
  \/ \E r \in Requests : handleActionApproval(r) \/ ValidateUpdate(r)
  \/ \E r \in Requests : Deliver(r) \/ Resync(r) \/ Begin(r)
  \/ \E o \in RuntimeObjects : DeliverObject(o)
  \/ Reconcile
  \/ ApiError \/ ExecuteError \/ Restart
  \/ \E t \in Targets : TargetChanges(t)
  \/ \E r \in Requests : BackupProgress(r) \/ BackupLost(r)

Spec == Init /\ [][Next]_vars

(* Watches deliver, the worker finishes what it started, the FIFO work     *)
(* queue reaches every request, resyncs recur and the CNPG operator works. *)
(* Reviewers, editors and targets owe nothing.                             *)
Fairness ==
  /\ WF_vars(Reconcile)
  /\ \A r \in Requests : /\ WF_vars(Deliver(r))
                         /\ WF_vars(Resync(r))
                         /\ SF_vars(Begin(r))
                         /\ WF_vars(BackupProgress(r))
  /\ \A o \in RuntimeObjects : WF_vars(DeliverObject(o))

FairSpec == Spec /\ Fairness

-----------------------------------------------------------------------------
(* Properties *)

TypeOK ==
  /\ specs \in [Requests -> Seq(Approval)]
  /\ ar \in [Requests -> Object]
  /\ cache \in [Requests -> Object]
  /\ pend \in [Requests -> Seq(Object)]
  /\ queue \in [Requests -> BOOLEAN]
  /\ worker \in Worker
  /\ applied \in [RuntimeObjects -> Seq(Effect)]
  /\ seen \in [RuntimeObjects -> Nat]
  /\ backup \in [Requests -> BackupPhases]
  /\ available \in [Targets -> BOOLEAN]
  /\ faults \in Nat

(* An operation restarts a workload or replaces a password at most once,   *)
(* whatever restarts, failed status patches and stale reads make the       *)
(* reconciler replay. (A repeated failover patch writes the same topology.)*)
AtMostOnce ==
  \A t \in Targets : \A o \in {Workload(t), Credentials(t)} :
    \A i, j \in 1..Len(applied[o]) :
      /\ applied[o][i].req = applied[o][j].req
      /\ applied[o][i].op = applied[o][j].op
      => i = j

(* The spec an executor acted on was approved for execution: not pending,  *)
(* not rejected, with an approver where the adapter demands one.           *)
EffectApproved ==
  \A o \in RuntimeObjects : \A i \in 1..Len(applied[o]) :
    LET e == applied[o][i] IN Executable(e.req, specs[e.req][e.gen])

(* Write-ahead: no side effect happens before its operation id is stored,  *)
(* and never under an empty one ("Operation identity/state is now          *)
(* persisted and it is safe to execute side effects").                     *)
IntentPersisted ==
  \A o \in RuntimeObjects : \A i \in 1..Len(applied[o]) :
    LET e == applied[o][i] IN e.op \in 1..ar[e.req].obs

(* A status patch computed from a stale cached version never moves the     *)
(* observed generation back to one that was superseded.                    *)
ObservedNeverRegresses ==
  [][\A r \in Requests : ar[r].obs <= ar'[r].obs]_vars

Recorded(o, r, g) ==
  \E i \in 1..Len(applied[o]) : applied[o][i].req = r /\ applied[o][i].gen = g

(* What Succeeded has to mean for generation g of request r.               *)
TookEffect(r, g) ==
  LET t == TargetOf[r]
  IN  CASE ActionOf[r] = "restart" -> Recorded(Workload(t), r, g)
        [] ActionOf[r] = "rotate-credentials" ->
             Recorded(Workload(t), r, g) /\ Recorded(Credentials(t), r, g)
        [] ActionOf[r] = "failover" ->
             \E i \in 1..Len(applied[Topology(t)]) :
               CandidateOf[applied[Topology(t)][i].req] = CandidateOf[r]
        [] OTHER -> backup[r] = "completed"

(* A generation whose status says Succeeded has had its effect.            *)
SucceededMeansApplied ==
  \A r \in Requests :
    ar[r].phase = "Succeeded" /\ ar[r].obs > 0 => TookEffect(r, ar[r].obs)

(* A restart that is in place is not reported as failed. The code does not *)
(* keep this: see section 5 of the README.                                 *)
AppliedNotFailed ==
  \A r \in Requests :
    ActionOf[r] = "restart" /\ ar[r].phase = "Failed"
    => ~Recorded(Workload(TargetOf[r]), r, ar[r].obs)

Settled(r) ==
  /\ ar[r].obs = ar[r].gen
  /\ ar[r].phase \in Terminal \cup {"PendingApproval"}

(* The Backup of an accepted request was deleted before it finished: the   *)
(* request stays Queued until somebody edits it.                           *)
BackupGone(r) ==
  ActionOf[r] = "backup" /\ ar[r].state = "Applied" /\ backup[r] = "absent"

(* Once faults and edits cease, every request ends terminal or waits for a *)
(* review, for its latest generation, unless its Backup is gone.           *)
Settles == \A r \in Requests : <>[](Settled(r) \/ BackupGone(r))

=============================================================================
