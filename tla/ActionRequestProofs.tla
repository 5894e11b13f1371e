------------------------- MODULE ActionRequestProofs -------------------------
(* Proofs about ActionRequest, for every set of requests and targets, every *)
(* bound on the cache's lag and any number of faults: its types, that what  *)
(* takes effect was approved, and that the operations of the pipeline are   *)
(* carried out at most once, in order and after they were written down      *)
(* (ActionOperations).                                                      *)
EXTENDS ActionOperations, TLAPS

USE ConstantsAssumption

-----------------------------------------------------------------------------
(* Type correctness *)

(* The cached copy of a runtime object is one of its past versions.        *)
SeenInv == \A o \in RuntimeObjects : seen[o] <= Len(applied[o])

TypeInv == TypeOK /\ SeenInv

(* A merge patch of well-typed versions is a well-typed version.           *)
LEMMA MergeType ==
  ASSUME NEW before \in Object, NEW after \in Object, NEW server \in Object
  PROVE  Merge(before, after, server) \in Object
BY DEF Merge, Object

(* The mutate functions of the reconciler produce well-typed versions.     *)
LEMMA MutationType ==
  ASSUME NEW c \in Object
  PROVE  /\ \A v \in Verdicts : Verdict(v, c) \in Object
         /\ Prepared(c) \in Object
         /\ \A result \in Results : Executed(c, result) \in Object
<1>1. \A v \in Verdicts : Verdict(v, c) \in Object
  BY DEF Verdict, Object, Phases, Terminal, OperationStates
<1>2. Prepared(c) \in Object
  BY DEF Prepared, Object, Phases, Terminal, OperationStates
<1>3. \A result \in Results : Executed(c, result) \in Object
  BY DEF Executed, Object, Phases, Terminal, OperationStates, Results
<1> QED BY <1>1, <1>2, <1>3

(* Storing a well-typed version keeps the server and the watch well typed. *)
LEMMA StoreType ==
  ASSUME TypeOK, NEW r \in Requests, NEW new \in Object, Store(r, new)
  PROVE  /\ ar' \in [Requests -> Object]
         /\ pend' \in [Requests -> Seq(Object)]
<1>1. ar \in [Requests -> Object] /\ pend \in [Requests -> Seq(Object)]
  BY DEF TypeOK
<1>2. Append(pend[r], new) \in Seq(Object)
  BY <1>1
<1>3. CASE new = ar[r]
  BY <1>1, <1>3 DEF Store
<1>4. CASE new # ar[r]
  BY <1>1, <1>2, <1>4 DEF Store
<1> QED BY <1>3, <1>4


(* Appending a well-typed effect, as every executor does.                  *)
LEMMA RecordType ==
  ASSUME TypeInv, NEW o \in RuntimeObjects, NEW ready \in SUBSET Clusters,
         Record(o, ready), seen' = seen
  PROVE  applied' \in [RuntimeObjects -> Seq(Effect)] /\ SeenInv'
<1> DEFINE e == [req |-> worker.req, op |-> worker.op, gen |-> worker.gen,
                 ready |-> ready]
<1>1. e \in Effect
  BY DEF TypeInv, TypeOK, Worker, Effect
<1>2. applied \in [RuntimeObjects -> Seq(Effect)] /\ seen \in [RuntimeObjects -> Nat]
  BY DEF TypeInv, TypeOK
<1>3. Append(applied[o], e) \in Seq(Effect) /\ Len(Append(applied[o], e)) = Len(applied[o]) + 1
  BY <1>1, <1>2
<1>4. applied' = [applied EXCEPT ![o] = Append(applied[o], e)]
  BY DEF Record
<1>5. applied' \in [RuntimeObjects -> Seq(Effect)]
  BY <1>2, <1>3, <1>4
<1>6. ASSUME NEW p \in RuntimeObjects
      PROVE  seen[p] <= Len(applied'[p])
  <2>1. seen[p] <= Len(applied[p]) /\ Len(applied[p]) \in Nat /\ seen[p] \in Nat
    BY <1>2 DEF TypeInv, SeenInv
  <2>2. CASE p = o
    BY <1>2, <1>3, <1>4, <2>1, <2>2
  <2>3. CASE p # o
    BY <1>2, <1>4, <2>1, <2>3
  <2> QED BY <2>2, <2>3
<1> QED BY <1>5, <1>6 DEF SeenInv

(* The worker records the executors leave behind are well typed.           *)
LEMMA WorkerType ==
  ASSUME TypeOK
  PROVE  /\ \A r \in Requests : Idle(r) \in Worker
         /\ Idle(worker.req) \in Worker
         /\ \A result \in Results : Finishing(result) \in Worker
         /\ \A v \in Nat : [worker EXCEPT !.pc = "rollout", !.read = v] \in Worker
         /\ worker.req \in Requests
         /\ TargetOf[worker.req] \in Targets
<1>1. worker \in Worker
  BY DEF TypeOK
<1>2. worker.req \in Requests /\ TargetOf[worker.req] \in Targets
  BY <1>1 DEF Worker, ConstantsAssumption
<1>3. \A r \in Requests : Idle(r) \in Worker
  BY DEF Idle, Worker, Steps, Results
<1>4. \A result \in Results : Finishing(result) \in Worker
  BY <1>1 DEF Finishing, Worker, Steps
<1>5. \A v \in Nat : [worker EXCEPT !.pc = "rollout", !.read = v] \in Worker
  BY <1>1 DEF Worker, Steps
<1> QED BY <1>2, <1>3, <1>4, <1>5

(* AnnotateOperation either leaves the object alone or appends one effect. *)
LEMMA AnnotateType ==
  ASSUME TypeInv, NEW o \in RuntimeObjects, NEW v, NEW next \in Worker,
         AnnotateOperation(o, v, next), seen' = seen
  PROVE  /\ applied' \in [RuntimeObjects -> Seq(Effect)]
         /\ SeenInv'
         /\ worker' \in Worker
<1>1. Finishing("Failed") \in Worker
  BY WorkerType DEF TypeInv, Results
<1>2. worker' \in Worker
  BY <1>1 DEF AnnotateOperation
<1>3. CASE UNCHANGED applied
  BY <1>2, <1>3 DEF TypeInv, TypeOK, SeenInv
<1>4. CASE Record(o, {})
  BY <1>2, <1>4, RecordType
<1> QED BY <1>3, <1>4 DEF AnnotateOperation

(* Every new generation's approval is well typed.                          *)
LEMMA NewGenerationType ==
  ASSUME TypeInv, NEW r \in Requests, NEW approval \in Approval,
         NewGeneration(r, approval)
  PROVE  TypeInv'
<1>1. /\ specs \in [Requests -> Seq(Approval)]
      /\ ar \in [Requests -> Object]
  BY DEF TypeInv, TypeOK
<1>2. Append(specs[r], approval) \in Seq(Approval)
  BY <1>1
<1>3. specs' \in [Requests -> Seq(Approval)]
  BY <1>1, <1>2 DEF NewGeneration
<1>4. [ar[r] EXCEPT !.gen = @ + 1] \in Object
  <2>1. ar[r] \in Object
    BY <1>1
  <2> QED BY <2>1 DEF Object
<1>5. ar' \in [Requests -> Object] /\ pend' \in [Requests -> Seq(Object)]
  BY <1>4, StoreType DEF NewGeneration, TypeInv
<1> QED BY <1>3, <1>5 DEF NewGeneration, TypeInv, TypeOK, SeenInv

(* A status patch whose mutation is well typed.                            *)
LEMMA PatchType ==
  ASSUME TypeOK, NEW r \in Requests, NEW after \in Object,
         patchActionRequestStatus(r, after)
  PROVE  ar' \in [Requests -> Object] /\ pend' \in [Requests -> Seq(Object)]
<1>1. Merge(cache[r], after, ar[r]) \in Object
  BY MergeType DEF TypeOK
<1> QED BY <1>1, StoreType DEF patchActionRequestStatus

(* Init establishes the type invariant.                                    *)
LEMMA InitType == Init => TypeInv
<1> SUFFICES ASSUME Init PROVE TypeInv
  OBVIOUS
<1>1. specs \in [Requests -> Seq(Approval)]
  <2>1. \A m \in ApprovalModes : <<[mode |-> m, approver |-> FALSE]>> \in Seq(Approval)
    BY DEF Approval
  <2>2. specs \in [Requests -> {<<[mode |-> m, approver |-> FALSE]>> :
                               m \in ApprovalModes}]
    BY DEF Init
  <2>3. {<<[mode |-> m, approver |-> FALSE]>> : m \in ApprovalModes}
          \subseteq Seq(Approval)
    BY <2>1
  <2> QED BY <2>2, <2>3
<1>2. Created \in Object
  BY DEF Created, Object, Phases, OperationStates
<1>3. ar \in [Requests -> Object] /\ cache \in [Requests -> Object]
  BY <1>2 DEF Init
<1>4. pend \in [Requests -> Seq(Object)] /\ queue \in [Requests -> BOOLEAN]
  BY DEF Init
<1>5. worker \in Worker
  <2>1. PICK r \in Requests : worker = Idle(r)
    BY DEF Init
  <2> QED BY <2>1 DEF Idle, Worker, Steps, Results
<1>6. /\ applied \in [RuntimeObjects -> Seq(Effect)]
      /\ seen \in [RuntimeObjects -> Nat]
      /\ SeenInv
  BY DEF Init, SeenInv
<1>7. backup \in [Requests -> BackupPhases]
  BY DEF Init, BackupPhases
<1>8. available \in [Targets -> BOOLEAN] /\ faults \in Nat
  BY DEF Init
<1> QED BY <1>1, <1>3, <1>4, <1>5, <1>6, <1>7, <1>8 DEF TypeInv, TypeOK

(* Every step preserves the type invariant.                                *)
LEMMA NextType == TypeInv /\ [Next]_vars => TypeInv'
<1> SUFFICES ASSUME TypeInv, [Next]_vars PROVE TypeInv'
  OBVIOUS
<1>t. TypeOK /\ SeenInv
  BY DEF TypeInv
<1>w. /\ worker \in Worker
      /\ worker.req \in Requests
      /\ \A r \in Requests : Idle(r) \in Worker
      /\ \A result \in Results : Finishing(result) \in Worker
      /\ \A v \in Nat : [worker EXCEPT !.pc = "rollout", !.read = v] \in Worker
      /\ TargetOf[worker.req] \in Targets
  BY <1>t, WorkerType DEF TypeOK
<1>c. cache[worker.req] \in Object
  BY <1>t, <1>w DEF TypeOK
<1>o. \A t \in Targets : /\ Workload(t) \in RuntimeObjects
                         /\ Credentials(t) \in RuntimeObjects
                         /\ Topology(t) \in RuntimeObjects
  BY DEF Workload, Credentials, Topology, RuntimeObjects
<1>d. Done => worker' \in Worker
  BY <1>w DEF Done
<1>1. ASSUME NEW r \in Requests, handleActionApproval(r) PROVE TypeInv'
  <2>1. /\ [mode |-> "Approved", approver |-> TRUE] \in Approval
        /\ [mode |-> "Rejected", approver |-> FALSE] \in Approval
    BY DEF Approval, ApprovalModes
  <2> QED BY <1>1, <2>1, NewGenerationType DEF handleActionApproval
<1>2. ASSUME NEW r \in Requests, ValidateUpdate(r) PROVE TypeInv'
  BY <1>2, NewGenerationType DEF ValidateUpdate
<1>3. ASSUME NEW r \in Requests, Deliver(r) PROVE TypeInv'
  <2>1. Head(pend[r]) \in Object /\ Tail(pend[r]) \in Seq(Object)
    BY <1>t, <1>3 DEF TypeOK, Deliver
  <2> QED BY <1>t, <1>3, <2>1 DEF TypeInv, TypeOK, SeenInv, Deliver
<1>4. ASSUME NEW r \in Requests, Resync(r) PROVE TypeInv'
  BY <1>t, <1>4 DEF TypeInv, TypeOK, SeenInv, Resync
<1>5. ASSUME NEW r \in Requests, Begin(r) PROVE TypeInv'
  <2>1. Branch(r, cache[r]) \in Steps
    BY DEF Branch, Steps, Verdicts
  <2>2. Idle(r) \in Worker /\ [Idle(r) EXCEPT !.pc = Branch(r, cache[r])] \in Worker
    BY <1>w, <2>1 DEF Worker
  <2>3. worker' \in Worker
    BY <1>5, <2>2 DEF Begin
  <2> QED BY <1>t, <1>5, <2>3 DEF TypeInv, TypeOK, SeenInv, Begin
<1>6. ASSUME NEW o \in RuntimeObjects, DeliverObject(o) PROVE TypeInv'
  <2>1. applied[o] \in Seq(Effect) /\ seen[o] \in Nat /\ Len(applied[o]) \in Nat
    BY <1>t, <1>6 DEF TypeOK
  <2>2. seen' \in [RuntimeObjects -> Nat]
    BY <1>t, <1>6, <2>1 DEF TypeOK, DeliverObject
  <2>3. SeenInv'
    BY <1>t, <1>6, <2>1 DEF TypeOK, SeenInv, DeliverObject
  <2> QED BY <1>t, <1>6, <2>2, <2>3 DEF TypeInv, TypeOK, DeliverObject
<1>7. CASE PatchVerdict
  <2>1. Verdict(worker.pc, cache[worker.req]) \in Object
    BY <1>7, <1>c, MutationType DEF PatchVerdict
  <2>2. ar' \in [Requests -> Object] /\ pend' \in [Requests -> Seq(Object)]
    BY <1>7, <1>t, <1>w, <2>1, PatchType DEF PatchVerdict
  <2>3. queue' \in [Requests -> BOOLEAN]
    BY <1>7, <1>t, <1>w DEF PatchVerdict, TypeOK
  <2> QED BY <1>7, <1>t, <1>d, <2>2, <2>3 DEF TypeInv, TypeOK, SeenInv, PatchVerdict
<1>8. CASE Prepare
  <2>1. Prepared(cache[worker.req]) \in Object
    BY <1>c, MutationType
  <2>2. ar' \in [Requests -> Object] /\ pend' \in [Requests -> Seq(Object)]
    BY <1>8, <1>t, <1>w, <2>1, PatchType DEF Prepare
  <2>3. PreparedObject(worker.req) \in Object
    BY <1>t, <1>w, <1>c, <2>1, MergeType DEF PreparedObject, TypeOK
  <2>4. worker' \in Worker
    BY <1>8, <1>w, <2>3 DEF Prepare, Worker, Object, Steps
  <2> QED BY <1>8, <1>t, <2>2, <2>4 DEF TypeInv, TypeOK, SeenInv, Prepare
<1>9. CASE ExecuteRestart
  <2> DEFINE o == Workload(TargetOf[worker.req])
  <2>1. AnnotateOperation(o, seen[o], Finishing("Succeeded")) /\ seen' = seen
    BY <1>9 DEF ExecuteRestart
  <2>2. applied' \in [RuntimeObjects -> Seq(Effect)] /\ SeenInv' /\ worker' \in Worker
    BY <1>w, <1>o, <2>1, AnnotateType DEF Results
  <2> QED BY <1>9, <1>t, <2>2 DEF TypeInv, TypeOK, ExecuteRestart
<1>10. CASE ExecuteRotateSecret
  <2> DEFINE t == TargetOf[worker.req]
             o == Credentials(t)
             next == [worker EXCEPT !.pc = "rollout", !.read = seen[Workload(t)]]
  <2>1. AnnotateOperation(o, seen[o], next) /\ seen' = seen
    BY <1>10 DEF ExecuteRotateSecret
  <2>2. seen[Workload(t)] \in Nat
    BY <1>t, <1>w, <1>o DEF TypeOK
  <2>3. next \in Worker
    BY <1>w, <2>2
  <2>4. applied' \in [RuntimeObjects -> Seq(Effect)] /\ SeenInv' /\ worker' \in Worker
    BY <1>w, <1>o, <2>1, <2>3, AnnotateType
  <2> QED BY <1>10, <1>t, <2>4 DEF TypeInv, TypeOK, ExecuteRotateSecret
<1>11. CASE ExecuteRotateRollout
  <2> DEFINE o == Workload(TargetOf[worker.req])
  <2>1. AnnotateOperation(o, worker.read, Finishing("Succeeded")) /\ seen' = seen
    BY <1>11 DEF ExecuteRotateRollout
  <2>2. applied' \in [RuntimeObjects -> Seq(Effect)] /\ SeenInv' /\ worker' \in Worker
    BY <1>w, <1>o, <2>1, AnnotateType DEF Results
  <2> QED BY <1>11, <1>t, <2>2 DEF TypeInv, TypeOK, ExecuteRotateRollout
<1>12. CASE ExecuteFailover
  <2> DEFINE t == TargetOf[worker.req]
             o == Topology(t)
             ready == ReadyIn(t) \ {CandidateOf[worker.req]}
  <2>1. o \in RuntimeObjects
    BY <1>w, <1>o
  <2>2. applied[o] \in Seq(Effect) /\ seen[o] \in Nat /\ seen[o] <= Len(applied[o])
    BY <1>t, <2>1 DEF TypeOK, SeenInv
  <2>3. ReadyIn(t) \in SUBSET Clusters
    <3>1. CASE seen[o] = 0
      BY <1>w, <3>1 DEF ReadyIn, ConstantsAssumption
    <3>2. CASE seen[o] # 0
      <4>1. applied[o][seen[o]] \in Effect
        BY <2>2, <3>2
      <4> QED BY <3>2, <4>1 DEF ReadyIn, Effect
    <3> QED BY <3>1, <3>2
  <2>4. worker' \in Worker
    BY <1>12, <1>w DEF ExecuteFailover, Results
  <2>5. seen' = seen /\ (UNCHANGED applied \/ Record(o, ready))
    BY <1>12 DEF ExecuteFailover
  <2>6. applied' \in [RuntimeObjects -> Seq(Effect)] /\ SeenInv'
    <3>1. CASE UNCHANGED applied
      BY <1>t, <2>5, <3>1 DEF TypeOK, SeenInv
    <3>2. CASE Record(o, ready)
      BY <2>1, <2>3, <2>5, <3>2, RecordType
    <3> QED BY <2>5, <3>1, <3>2
  <2> QED BY <1>12, <1>t, <2>4, <2>6 DEF TypeInv, TypeOK, ExecuteFailover
<1>13. CASE ExecuteBackup
  <2>1. BackupResult(backup[worker.req]) \in Results
    BY DEF BackupResult, Results
  <2>2. worker' \in Worker
    BY <1>13, <1>w, <2>1 DEF ExecuteBackup
  <2>3. backup' \in [Requests -> BackupPhases]
    BY <1>13, <1>t, <1>w DEF ExecuteBackup, TypeOK, BackupPhases
  <2> QED BY <1>13, <1>t, <2>2, <2>3 DEF TypeInv, TypeOK, SeenInv, ExecuteBackup
<1>14. CASE Finish
  <2>1. Executed(cache[worker.req], worker.result) \in Object
    BY <1>w, <1>c, MutationType DEF Worker
  <2>2. ar' \in [Requests -> Object] /\ pend' \in [Requests -> Seq(Object)]
    BY <1>14, <1>t, <1>w, <2>1, PatchType DEF Finish
  <2> QED BY <1>14, <1>t, <1>d, <2>2 DEF TypeInv, TypeOK, SeenInv, Finish
<1>15. CASE ObserveBackup
  <2>1. BackupResult(backup[worker.req]) \in Results
    BY DEF BackupResult, Results
  <2>2. worker' \in Worker
    BY <1>15, <1>w, <2>1 DEF ObserveBackup, Worker, Steps
  <2> QED BY <1>15, <1>t, <2>2 DEF TypeInv, TypeOK, SeenInv, ObserveBackup
<1>16. CASE RecordBackup
  <2>1. Executed(cache[worker.req], worker.result) \in Object
    BY <1>w, <1>c, MutationType DEF Worker
  <2>2. ar' \in [Requests -> Object] /\ pend' \in [Requests -> Seq(Object)]
    <3>1. CASE UNCHANGED <<ar, pend>>
      BY <1>t, <3>1 DEF TypeOK
    <3>2. CASE patchActionRequestStatus(worker.req,
                 Executed(cache[worker.req], worker.result))
      BY <1>t, <1>w, <2>1, <3>2, PatchType
    <3> QED BY <1>16, <3>1, <3>2 DEF RecordBackup
  <2> QED BY <1>16, <1>t, <1>d, <2>2 DEF TypeInv, TypeOK, SeenInv, RecordBackup
<1>17. CASE ApiError
  <2>1. faults' \in Nat
    BY <1>17, <1>t DEF TypeOK, ApiError
  <2>2. queue' \in [Requests -> BOOLEAN] /\ worker' \in Worker
    BY <1>17, <1>t, <1>w, <1>d DEF TypeOK, ApiError
  <2> QED BY <1>17, <1>t, <2>1, <2>2 DEF TypeInv, TypeOK, SeenInv, ApiError
<1>18. CASE ExecuteError
  <2>1. faults' \in Nat
    BY <1>18, <1>t DEF TypeOK, ExecuteError
  <2>2. worker' \in Worker
    BY <1>18, <1>w DEF ExecuteError, Results
  <2> QED BY <1>18, <1>t, <2>1, <2>2 DEF TypeInv, TypeOK, SeenInv, ExecuteError
<1>19. CASE Restart
  <2>1. \A o \in RuntimeObjects : Len(applied[o]) \in Nat
    BY <1>t DEF TypeOK
  <2>2. seen' \in [RuntimeObjects -> Nat] /\ SeenInv'
    BY <1>19, <2>1 DEF Restart, SeenInv
  <2>3. pend' \in [Requests -> Seq(Object)]
    BY <1>19 DEF Restart
  <2> QED BY <1>19, <1>t, <1>d, <2>2, <2>3 DEF TypeInv, TypeOK, Restart
<1>20. ASSUME NEW t \in Targets, TargetChanges(t) PROVE TypeInv'
  BY <1>20, <1>t DEF TypeInv, TypeOK, SeenInv, TargetChanges
<1>21. ASSUME NEW r \in Requests, BackupProgress(r) PROVE TypeInv'
  <2>1. backup' \in [Requests -> BackupPhases]
    BY <1>21, <1>t DEF TypeOK, BackupProgress, BackupPhases
  <2> QED BY <1>21, <1>t, <2>1 DEF TypeInv, TypeOK, SeenInv, BackupProgress
<1>22. ASSUME NEW r \in Requests, BackupLost(r) PROVE TypeInv'
  <2>1. backup' \in [Requests -> BackupPhases]
    BY <1>22, <1>t DEF TypeOK, BackupLost, BackupPhases
  <2> QED BY <1>22, <1>t, <2>1 DEF TypeInv, TypeOK, SeenInv, BackupLost
<1>23. CASE UNCHANGED vars
  BY <1>23, <1>t DEF TypeInv, TypeOK, SeenInv, vars
<1> QED
  BY <1>1, <1>2, <1>3, <1>4, <1>5, <1>6, <1>7, <1>8, <1>9, <1>10, <1>11, <1>12,
     <1>13, <1>14, <1>15, <1>16, <1>17, <1>18, <1>19, <1>20, <1>21, <1>22, <1>23
  DEF Next, Reconcile

(* Type correctness of the action pipeline, for any number of requests,    *)
(* targets, generations and faults.                                        *)
THEOREM TypeCorrect == Spec => []TypeOK
<1>1. Spec => []TypeInv
  BY InitType, NextType, PTL DEF Spec
<1>2. TypeInv => TypeOK
  BY DEF TypeInv
<1> QED BY <1>1, <1>2, PTL

-----------------------------------------------------------------------------
(* Generations: the cache and the undelivered versions are in order        *)

(* Cached version c, undelivered versions p and server version v of one    *)
(* request are ordered by generation.                                      *)
Ordered(c, p, v) ==
  /\ c.gen <= v.gen
  /\ \A i \in 1..Len(p) : c.gen <= p[i].gen /\ p[i].gen <= v.gen
  /\ \A i, j \in 1..Len(p) : i <= j => p[i].gen <= p[j].gen

GenInv ==
  \A r \in Requests :
    /\ ar[r].gen = Len(specs[r])
    /\ cache[r].gen >= 1
    /\ ar[r].obs <= cache[r].gen
    /\ Ordered(cache[r], pend[r], ar[r])

ObservedGrows == \A r \in Requests : ar[r].obs <= ar'[r].obs

(* A version no older than the server's may be appended.                   *)
LEMMA AppendOrdered ==
  ASSUME NEW c \in Object, NEW p \in Seq(Object), NEW v \in Object,
         NEW new \in Object, Ordered(c, p, v), v.gen <= new.gen
  PROVE  Ordered(c, Append(p, new), new)
<1> DEFINE q == Append(p, new)
<1>1. Len(q) = Len(p) + 1 /\ Len(p) \in Nat
  OBVIOUS
<1>2. \A i \in 1..Len(p) : q[i] = p[i] /\ p[i] \in Object
  OBVIOUS
<1>3. q[Len(p) + 1] = new
  OBVIOUS
<1>4. \A i \in 1..Len(p) : c.gen <= p[i].gen /\ p[i].gen <= v.gen
  BY DEF Ordered
<1>5. c.gen \in Nat /\ v.gen \in Nat /\ new.gen \in Nat /\ c.gen <= v.gen
  BY DEF Object, Ordered
<1>6. \A i \in 1..Len(p) : p[i].gen \in Nat
  BY <1>2 DEF Object
<1>7. \A i \in 1..Len(q) : c.gen <= q[i].gen /\ q[i].gen <= new.gen
  <2> TAKE i \in 1..Len(q)
  <2>1. CASE i \in 1..Len(p)
    BY <1>2, <1>4, <1>5, <1>6, <2>1
  <2>2. CASE i = Len(p) + 1
    BY <1>3, <1>5, <2>2
  <2> QED BY <1>1, <2>1, <2>2
<1>8. \A i, j \in 1..Len(q) : i <= j => q[i].gen <= q[j].gen
  <2> SUFFICES ASSUME NEW i \in 1..Len(q), NEW j \in 1..Len(q), i <= j
               PROVE  q[i].gen <= q[j].gen
    OBVIOUS
  <2>1. CASE j \in 1..Len(p)
    <3>1. i \in 1..Len(p)
      BY <1>1, <2>1
    <3> QED BY <1>2, <2>1, <3>1 DEF Ordered
  <2>2. CASE j = Len(p) + 1
    BY <1>3, <1>7, <2>2
  <2> QED BY <1>1, <2>1, <2>2
<1> QED BY <1>5, <1>7, <1>8 DEF Ordered

(* Delivering the oldest version keeps the order and moves forward.        *)
LEMMA TailOrdered ==
  ASSUME NEW c \in Object, NEW p \in Seq(Object), NEW v \in Object,
         Ordered(c, p, v), p # <<>>
  PROVE  Ordered(Head(p), Tail(p), v) /\ c.gen <= Head(p).gen
<1>1. Len(p) \in Nat /\ Len(p) >= 1 /\ Head(p) = p[1]
  OBVIOUS
<1>2. Len(Tail(p)) = Len(p) - 1 /\ \A i \in 1..Len(Tail(p)) : Tail(p)[i] = p[i + 1]
  OBVIOUS
<1>3. \A i \in 1..Len(Tail(p)) : i + 1 \in 1..Len(p) /\ 1 <= i + 1
  BY <1>1, <1>2
<1>4. \A i \in 1..Len(Tail(p)) : p[1].gen <= p[i + 1].gen /\ p[i + 1].gen <= v.gen
  BY <1>1, <1>3 DEF Ordered
<1>5. \A i, j \in 1..Len(Tail(p)) : i <= j => p[i + 1].gen <= p[j + 1].gen
  <2> SUFFICES ASSUME NEW i \in 1..Len(Tail(p)), NEW j \in 1..Len(Tail(p)), i <= j
               PROVE  p[i + 1].gen <= p[j + 1].gen
    OBVIOUS
  <2>1. i + 1 \in 1..Len(p) /\ j + 1 \in 1..Len(p) /\ i + 1 <= j + 1
    BY <1>1, <1>2
  <2> QED BY <2>1 DEF Ordered
<1> QED BY <1>1, <1>2, <1>4, <1>5 DEF Ordered

(* A stored version of the same or a newer generation keeps the order.     *)
LEMMA StoreOrdered ==
  ASSUME TypeOK, GenInv, NEW r \in Requests, NEW new \in Object, Store(r, new),
         ar[r].gen <= new.gen, cache' = cache
  PROVE  \A q \in Requests : Ordered(cache'[q], pend'[q], ar'[q])
<1>1. /\ ar \in [Requests -> Object]
      /\ cache \in [Requests -> Object]
      /\ pend \in [Requests -> Seq(Object)]
  BY DEF TypeOK
<1>2. \A q \in Requests : Ordered(cache[q], pend[q], ar[q])
  BY DEF GenInv
<1>3. CASE new = ar[r]
  BY <1>2, <1>3 DEF Store
<1>4. CASE new # ar[r]
  <2>1. Ordered(cache[r], Append(pend[r], new), new)
    BY <1>1, <1>2, AppendOrdered
  <2>2. /\ ar' = [ar EXCEPT ![r] = new]
        /\ pend' = [pend EXCEPT ![r] = Append(pend[r], new)]
    BY <1>4 DEF Store
  <2> QED BY <1>1, <1>2, <2>1, <2>2
<1> QED BY <1>3, <1>4

(* A status patch that observes the cached generation.                     *)
LEMMA PatchGen ==
  ASSUME TypeOK, GenInv, NEW r \in Requests, NEW after \in Object,
         after.obs = cache[r].gen, patchActionRequestStatus(r, after),
         cache' = cache, specs' = specs
  PROVE  GenInv' /\ ObservedGrows
<1> DEFINE new == Merge(cache[r], after, ar[r])
<1>1. /\ ar \in [Requests -> Object]
      /\ cache \in [Requests -> Object]
  BY DEF TypeOK
<1>2. new \in Object
  BY <1>1, MergeType
<1>3. new.gen = ar[r].gen /\ new.obs \in {ar[r].obs, cache[r].gen}
  BY DEF Merge
<1>4. /\ ar[r].gen \in Nat /\ ar[r].obs \in Nat /\ cache[r].gen \in Nat
      /\ ar[r].obs <= cache[r].gen
  BY <1>1 DEF Object, GenInv
<1>5. Store(r, new)
  BY DEF patchActionRequestStatus
<1>6. \A q \in Requests : Ordered(cache'[q], pend'[q], ar'[q])
  BY <1>2, <1>3, <1>4, <1>5, StoreOrdered
<1>7. ar' = [ar EXCEPT ![r] = new]
  BY <1>1, <1>5 DEF Store
<1>8. ASSUME NEW q \in Requests
      PROVE  /\ ar'[q].gen = ar[q].gen
             /\ ar'[q].obs <= cache[q].gen
             /\ ar[q].obs <= ar'[q].obs
  <2>1. CASE q = r
    BY <1>1, <1>3, <1>4, <1>7, <2>1
  <2>2. CASE q # r
    BY <1>1, <1>7, <2>2 DEF GenInv, Object
  <2> QED BY <2>1, <2>2
<1> QED BY <1>6, <1>8 DEF GenInv, ObservedGrows

(* A step that leaves requests and caches alone.                           *)
LEMMA FrameGen ==
  ASSUME TypeOK, GenInv, UNCHANGED <<specs, ar, cache, pend>>
  PROVE  GenInv' /\ ObservedGrows
<1>1. \A r \in Requests : ar[r].obs \in Nat
  BY DEF TypeOK, Object
<1> QED BY <1>1 DEF GenInv, ObservedGrows

(* A new generation is the latest everywhere and leaves the status alone.  *)
LEMMA NewGenerationGen ==
  ASSUME TypeOK, GenInv, NEW r \in Requests, NEW approval \in Approval,
         NewGeneration(r, approval)
  PROVE  GenInv' /\ ObservedGrows
<1> DEFINE new == [ar[r] EXCEPT !.gen = @ + 1]
<1>1. /\ specs \in [Requests -> Seq(Approval)]
      /\ ar \in [Requests -> Object]
      /\ ar[r] \in Object
  BY DEF TypeOK
<1>2. new \in Object /\ new.gen = ar[r].gen + 1 /\ new.obs = ar[r].obs
  <2>1. ar[r] \in Object
    BY <1>1
  <2>2. new \in Object
    BY <2>1 DEF Object
  <2> QED BY <2>1, <2>2 DEF Object
<1>3. ar[r].gen \in Nat /\ new # ar[r] /\ ar[r].gen <= new.gen
  BY <1>1, <1>2 DEF Object
<1>4. Store(r, new) /\ cache' = cache
  BY DEF NewGeneration
<1>5. \A q \in Requests : Ordered(cache'[q], pend'[q], ar'[q])
  BY <1>2, <1>3, <1>4, StoreOrdered
<1>6. ar' = [ar EXCEPT ![r] = new]
  BY <1>3, <1>4 DEF Store
<1>7. specs' = [specs EXCEPT ![r] = Append(specs[r], approval)]
  BY DEF NewGeneration
<1>8. Len(Append(specs[r], approval)) = Len(specs[r]) + 1
  BY <1>1
<1>9. ASSUME NEW q \in Requests
      PROVE  ar'[q].gen = Len(specs'[q]) /\ ar'[q].obs = ar[q].obs /\ ar[q].obs \in Nat
  <2>1. ar[q].gen = Len(specs[q]) /\ ar[q].obs \in Nat
    BY <1>1 DEF GenInv, Object
  <2>2. CASE q = r
    BY <1>1, <1>2, <1>6, <1>7, <1>8, <2>1, <2>2
  <2>3. CASE q # r
    BY <1>1, <1>6, <1>7, <2>1, <2>3
  <2> QED BY <2>2, <2>3
<1> QED BY <1>4, <1>5, <1>9 DEF GenInv, ObservedGrows

(* Init orders the versions.                                               *)
LEMMA InitGen == Init => GenInv
<1> SUFFICES ASSUME Init, NEW r \in Requests
             PROVE  /\ ar[r].gen = Len(specs[r])
                    /\ cache[r].gen >= 1
                    /\ ar[r].obs <= cache[r].gen
                    /\ Ordered(cache[r], pend[r], ar[r])
  BY DEF GenInv
<1>1. ar[r] = Created /\ cache[r] = Created /\ pend[r] = <<>>
  BY DEF Init
<1>2. Len(specs[r]) = 1
  <2>1. PICK m \in ApprovalModes : specs[r] = <<[mode |-> m, approver |-> FALSE]>>
    BY DEF Init
  <2> QED BY <2>1
<1>3. Created.gen = 1 /\ Created.obs = 0
  BY DEF Created
<1>4. Ordered(Created, <<>>, Created)
  BY <1>3 DEF Ordered
<1> QED BY <1>1, <1>2, <1>3, <1>4

(* Every step keeps the order and never lowers an observed generation.     *)
LEMMA NextGen == TypeInv /\ GenInv /\ [Next]_vars => GenInv' /\ ObservedGrows
<1> SUFFICES ASSUME TypeInv, GenInv, [Next]_vars PROVE GenInv' /\ ObservedGrows
  OBVIOUS
<1>t. /\ TypeOK
      /\ ar \in [Requests -> Object]
      /\ cache \in [Requests -> Object]
      /\ pend \in [Requests -> Seq(Object)]
      /\ worker \in Worker
  BY DEF TypeInv, TypeOK
<1>w. worker.req \in Requests /\ cache[worker.req] \in Object /\ worker.result \in Results
  BY <1>t DEF Worker
<1>1. ASSUME NEW r \in Requests, handleActionApproval(r) PROVE GenInv' /\ ObservedGrows
  <2>1. /\ [mode |-> "Approved", approver |-> TRUE] \in Approval
        /\ [mode |-> "Rejected", approver |-> FALSE] \in Approval
    BY DEF Approval, ApprovalModes
  <2> QED BY <1>1, <1>t, <2>1, NewGenerationGen DEF handleActionApproval
<1>2. ASSUME NEW r \in Requests, ValidateUpdate(r) PROVE GenInv' /\ ObservedGrows
  BY <1>2, <1>t, NewGenerationGen DEF ValidateUpdate
<1>3. ASSUME NEW r \in Requests, Deliver(r) PROVE GenInv' /\ ObservedGrows
  <2>1. /\ pend[r] # <<>> /\ UNCHANGED <<specs, ar>>
        /\ cache' = [cache EXCEPT ![r] = Head(pend[r])]
        /\ pend' = [pend EXCEPT ![r] = Tail(pend[r])]
    BY <1>3 DEF Deliver
  <2>2. /\ Ordered(Head(pend[r]), Tail(pend[r]), ar[r])
        /\ cache[r].gen <= Head(pend[r]).gen
    BY <1>t, <2>1, TailOrdered DEF GenInv
  <2>3. Head(pend[r]) \in Object
    BY <1>t, <2>1
  <2>4. Head(pend[r]).gen >= 1 /\ ar[r].obs <= Head(pend[r]).gen
    <3>1. /\ cache[r].gen >= 1 /\ ar[r].obs <= cache[r].gen
          /\ cache[r].gen \in Nat /\ ar[r].obs \in Nat
      BY <1>t DEF GenInv, Object
    <3>2. Head(pend[r]).gen \in Nat
      BY <2>3 DEF Object
    <3> QED BY <2>2, <3>1, <3>2
  <2>5. \A q \in Requests : ar[q].obs \in Nat
    BY <1>t DEF Object
  <2> QED BY <1>t, <2>1, <2>2, <2>4, <2>5 DEF GenInv, ObservedGrows
<1>4. CASE PatchVerdict
  <2> DEFINE after == Verdict(worker.pc, cache[worker.req])
  <2>1. after \in Object /\ after.obs = cache[worker.req].gen
    <3>1. after \in Object
      BY <1>4, <1>w, MutationType DEF PatchVerdict
    <3> QED BY <1>w, <3>1 DEF Verdict, Object
  <2> QED BY <1>4, <1>t, <1>w, <2>1, PatchGen DEF PatchVerdict
<1>5. CASE Prepare
  <2> DEFINE after == Prepared(cache[worker.req])
  <2>1. after \in Object /\ after.obs = cache[worker.req].gen
    <3>1. after \in Object
      BY <1>w, MutationType
    <3> QED BY <1>w, <3>1 DEF Prepared, Object
  <2> QED BY <1>5, <1>t, <1>w, <2>1, PatchGen DEF Prepare
<1>e. /\ Executed(cache[worker.req], worker.result) \in Object
      /\ Executed(cache[worker.req], worker.result).obs = cache[worker.req].gen
  <2>1. Executed(cache[worker.req], worker.result) \in Object
    BY <1>w, MutationType
  <2> QED BY <1>w, <2>1 DEF Executed, Object
<1>6. CASE Finish
  BY <1>6, <1>t, <1>w, <1>e, PatchGen DEF Finish
<1>7. CASE RecordBackup
  <2>1. cache' = cache /\ specs' = specs
    BY <1>7 DEF RecordBackup
  <2>2. CASE UNCHANGED <<ar, pend>>
    BY <1>t, <2>1, <2>2, FrameGen
  <2>3. CASE patchActionRequestStatus(worker.req,
               Executed(cache[worker.req], worker.result))
    BY <1>t, <1>w, <1>e, <2>1, <2>3, PatchGen
  <2> QED BY <1>7, <2>2, <2>3 DEF RecordBackup
<1>8. CASE Restart
  <2>1. cache' = ar /\ ar' = ar /\ specs' = specs /\ pend' = [r \in Requests |-> <<>>]
    BY <1>8 DEF Restart
  <2>2. ASSUME NEW r \in Requests
        PROVE  /\ ar[r].gen >= 1 /\ ar[r].obs <= ar[r].gen /\ ar[r].obs \in Nat
               /\ Ordered(ar[r], <<>>, ar[r])
    <3>1. /\ ar[r].gen \in Nat /\ ar[r].obs \in Nat /\ cache[r].gen \in Nat
          /\ cache[r].gen >= 1 /\ ar[r].obs <= cache[r].gen /\ cache[r].gen <= ar[r].gen
      BY <1>t DEF GenInv, Ordered, Object
    <3> QED BY <3>1 DEF Ordered
  <2> QED BY <2>1, <2>2 DEF GenInv, ObservedGrows
<1>9. CASE UNCHANGED <<specs, ar, cache, pend>>
  BY <1>9, <1>t, FrameGen
<1>10. \/ \E r \in Requests : handleActionApproval(r) \/ ValidateUpdate(r) \/ Deliver(r)
       \/ PatchVerdict \/ Prepare \/ Finish \/ RecordBackup \/ Restart
       \/ UNCHANGED <<specs, ar, cache, pend>>
  BY DEF Next, Reconcile, vars, Resync, Begin, DeliverObject, ExecuteRestart,
         ExecuteRotateSecret, ExecuteRotateRollout, ExecuteFailover,
         ExecuteBackup, ObserveBackup, ApiError, ExecuteError, TargetChanges,
         BackupProgress, BackupLost
<1> QED BY <1>1, <1>2, <1>3, <1>4, <1>5, <1>6, <1>7, <1>8, <1>9, <1>10

(* However stale the cached version a status patch is computed from, it    *)
(* never moves observedGeneration backwards: the reconciler only ever      *)
(* observes the generation it has cached, and the cache only moves         *)
(* forward.                                                                *)
THEOREM NeverRegresses == Spec => ObservedNeverRegresses
<1>1. Spec => []TypeInv
  BY InitType, NextType, PTL DEF Spec
<1>2. TypeInv /\ GenInv /\ [Next]_vars => GenInv'
  BY NextGen
<1>3. Spec => []GenInv
  BY <1>1, <1>2, InitGen, PTL DEF Spec
<1>4. TypeInv /\ GenInv /\ [Next]_vars => [ObservedGrows]_vars
  BY NextGen
<1>5. Spec => [][ObservedGrows]_vars
  BY <1>1, <1>3, <1>4, PTL DEF Spec
<1> QED BY <1>5 DEF ObservedNeverRegresses, ObservedGrows

-----------------------------------------------------------------------------
(* Approval: while only reviewers change specs, nothing unapproved runs    *)

(* Generation g of request r exists and may be executed.                   *)
ApprovedGeneration(r, g) ==
  g \in 1..Len(specs[r]) /\ Executable(r, specs[r][g])

(* A reviewer only decides on a generation that requires approval.         *)
ReviewInv ==
  \A r \in Requests : \A g \in 1..(Len(specs[r]) - 1) :
    specs[r][g].mode = "Required"

(* The worker has passed the approval checks for what it is about to do.   *)
WorkerInv ==
  /\ worker.pc = "prepare"
     => ApprovedGeneration(worker.req, cache[worker.req].gen)
  /\ worker.pc \in {"execute", "rollout"}
     => ApprovedGeneration(worker.req, worker.gen)

EffectInv ==
  \A o \in RuntimeObjects : \A i \in 1..Len(applied[o]) :
    ApprovedGeneration(applied[o][i].req, applied[o][i].gen)

ApprovalInv == ReviewInv /\ WorkerInv /\ EffectInv

(* Only the latest generation can be executable.                           *)
LEMMA ApprovedIsLatest ==
  ASSUME TypeOK, ReviewInv, NEW r \in Requests, NEW g, ApprovedGeneration(r, g)
  PROVE  g = Len(specs[r]) /\ specs[r][g].mode # "Required"
<1>1. specs[r] \in Seq(Approval) /\ Len(specs[r]) \in Nat
  BY DEF TypeOK
<1>2. specs[r][g].mode # "Required"
  BY DEF ApprovedGeneration, Executable, approvalPending
<1>3. g \in 1..Len(specs[r])
  BY DEF ApprovedGeneration
<1>4. g \notin 1..(Len(specs[r]) - 1)
  BY <1>2 DEF ReviewInv
<1> QED BY <1>1, <1>2, <1>3, <1>4

(* An executor's effect carries the generation the worker prepared.        *)
LEMMA RecordApproved ==
  ASSUME TypeInv, EffectInv, NEW o \in RuntimeObjects, NEW ready,
         Record(o, ready), specs' = specs,
         ApprovedGeneration(worker.req, worker.gen)
  PROVE  EffectInv'
<1> DEFINE e == [req |-> worker.req, op |-> worker.op, gen |-> worker.gen,
                 ready |-> ready]
<1>1. applied \in [RuntimeObjects -> Seq(Effect)]
  BY DEF TypeInv, TypeOK
<1>2. applied' = [applied EXCEPT ![o] = Append(applied[o], e)]
  BY DEF Record
<1>3. \A r, g : ApprovedGeneration(r, g) => ApprovedGeneration(r, g)'
  BY DEF ApprovedGeneration
<1>4. ASSUME NEW p \in RuntimeObjects, NEW i \in 1..Len(applied'[p])
      PROVE  ApprovedGeneration(applied'[p][i].req, applied'[p][i].gen)
  <2>1. CASE p # o
    BY <1>1, <1>2, <1>4, <2>1 DEF EffectInv
  <2>2. CASE p = o /\ i \in 1..Len(applied[o])
    <3>1. applied'[p][i] = applied[o][i]
      BY <1>1, <1>2, <2>2
    <3> QED BY <2>2, <3>1 DEF EffectInv
  <2>3. CASE p = o /\ i = Len(applied[o]) + 1
    <3>1. applied'[p][i] = e
      BY <1>1, <1>2, <2>3
    <3> QED BY <3>1
  <2>4. p = o => Len(applied'[p]) = Len(applied[o]) + 1 /\ Len(applied[o]) \in Nat
    BY <1>1, <1>2
  <2> QED BY <2>1, <2>2, <2>3, <2>4
<1> QED BY <1>3, <1>4 DEF EffectInv, ApprovedGeneration

(* A review adds a generation after one that was not executable.           *)
LEMMA ReviewApproval ==
  ASSUME TypeInv, GenInv, ApprovalInv, NEW r \in Requests, handleActionApproval(r)
  PROVE  ApprovalInv'
<1>1. PICK approval \in Approval : NewGeneration(r, approval)
  BY DEF handleActionApproval, Approval, ApprovalModes
<1>2. /\ specs' = [specs EXCEPT ![r] = Append(specs[r], approval)]
      /\ UNCHANGED <<cache, worker, applied>>
  BY <1>1 DEF NewGeneration
<1>3. specs \in [Requests -> Seq(Approval)]
  BY DEF TypeInv, TypeOK
<1>4. specs[r][Len(specs[r])].mode = "Required"
  BY DEF handleActionApproval, GenInv
<1>5. /\ Len(specs'[r]) = Len(specs[r]) + 1 /\ Len(specs[r]) \in Nat
      /\ \A g \in 1..Len(specs[r]) : specs'[r][g] = specs[r][g]
  BY <1>2, <1>3
<1>6. \A q \in Requests : q # r => specs'[q] = specs[q]
  BY <1>2, <1>3
<1>7. ReviewInv'
  <2> SUFFICES ASSUME NEW q \in Requests, NEW g \in 1..(Len(specs'[q]) - 1)
               PROVE  specs'[q][g].mode = "Required"
    BY DEF ReviewInv
  <2>1. CASE q # r
    BY <1>6, <2>1 DEF ApprovalInv, ReviewInv
  <2>2. CASE q = r
    <3>1. g \in 1..Len(specs[r]) /\ specs'[q][g] = specs[r][g]
      BY <1>5, <2>2
    <3>2. CASE g = Len(specs[r])
      BY <1>4, <3>1, <3>2
    <3>3. CASE g # Len(specs[r])
      <4>1. g \in 1..(Len(specs[r]) - 1)
        BY <1>5, <3>1, <3>3
      <4> QED BY <3>1, <4>1 DEF ApprovalInv, ReviewInv
    <3> QED BY <3>2, <3>3
  <2> QED BY <2>1, <2>2
<1>8. ASSUME NEW q \in Requests, NEW g, ApprovedGeneration(q, g)
      PROVE  ApprovedGeneration(q, g)'
  <2>1. CASE q # r
    BY <1>6, <1>8, <2>1 DEF ApprovedGeneration
  <2>2. CASE q = r
    <3>1. g \in 1..Len(specs[r])
      BY <1>8, <2>2 DEF ApprovedGeneration
    <3>2. g \in 1..Len(specs'[r]) /\ specs'[r][g] = specs[r][g]
      BY <1>5, <3>1
    <3> QED BY <1>8, <2>2, <3>2 DEF ApprovedGeneration
  <2> QED BY <2>1, <2>2
<1>9. worker.req \in Requests
  BY DEF TypeInv, TypeOK, Worker
<1>10. WorkerInv'
  BY <1>2, <1>8, <1>9 DEF ApprovalInv, WorkerInv, ApprovedGeneration
<1>11. EffectInv'
  <2>1. \A o \in RuntimeObjects : \A i \in 1..Len(applied[o]) : applied[o][i].req \in Requests
    <3> TAKE o \in RuntimeObjects
    <3> TAKE i \in 1..Len(applied[o])
    <3>1. applied[o] \in Seq(Effect)
      BY DEF TypeInv, TypeOK
    <3>2. applied[o][i] \in Effect
      BY <3>1
    <3> QED BY <3>2 DEF Effect
  <2> QED BY <1>2, <1>8, <2>1 DEF ApprovalInv, EffectInv, ApprovedGeneration
<1> QED BY <1>7, <1>10, <1>11 DEF ApprovalInv

(* Init has no worker, no review and no effect.                            *)
LEMMA InitApproval == Init => ApprovalInv
<1> SUFFICES ASSUME Init PROVE ApprovalInv
  OBVIOUS
<1>1. ASSUME NEW r \in Requests PROVE Len(specs[r]) = 1
  <2>1. PICK m \in ApprovalModes : specs[r] = <<[mode |-> m, approver |-> FALSE]>>
    BY DEF Init
  <2> QED BY <2>1
<1>2. ReviewInv
  <2>1. ASSUME NEW r \in Requests PROVE 1..(Len(specs[r]) - 1) = {}
    <3>1. Len(specs[r]) - 1 = 0
      BY <1>1, <2>1
    <3>2. 1..0 = {}
      OBVIOUS
    <3> QED BY <3>1, <3>2, Zenon
  <2> QED BY <2>1 DEF ReviewInv
<1>3. worker.pc = "idle"
  <2>1. PICK r \in Requests : worker = Idle(r)
    BY DEF Init
  <2> QED BY <2>1 DEF Idle
<1>4. EffectInv
  BY DEF Init, EffectInv
<1> QED BY <1>2, <1>3, <1>4 DEF ApprovalInv, WorkerInv

(* Every step preserves the approval invariant when specs change only in   *)
(* reviews.                                                                *)
LEMMA NextApproval ==
  ASSUME "spec" \notin Edits
  PROVE  TypeInv /\ GenInv /\ ApprovalInv /\ [Next]_vars => ApprovalInv'
<1> SUFFICES ASSUME TypeInv, GenInv, ApprovalInv, [Next]_vars PROVE ApprovalInv'
  OBVIOUS
<1>t. /\ TypeOK
      /\ ar \in [Requests -> Object]
      /\ cache \in [Requests -> Object]
      /\ pend \in [Requests -> Seq(Object)]
      /\ worker \in Worker
      /\ worker.req \in Requests
  BY DEF TypeInv, TypeOK, Worker
<1>i. ReviewInv /\ WorkerInv /\ EffectInv
  BY DEF ApprovalInv
<1>r. specs' = specs => ReviewInv'
  BY <1>i DEF ReviewInv
<1>a. specs' = specs => \A r, g : ApprovedGeneration(r, g)' <=> ApprovedGeneration(r, g)
  BY DEF ApprovedGeneration
<1>f. specs' = specs /\ applied' = applied => EffectInv'
  BY <1>i, <1>a DEF EffectInv, ApprovedGeneration
<1>x. worker'.pc \notin {"prepare", "execute", "rollout"} => WorkerInv'
  BY DEF WorkerInv
<1>l. worker.pc = "prepare" => cache[worker.req].gen = ar[worker.req].gen
  BY <1>t, <1>i, ApprovedIsLatest DEF WorkerInv, GenInv
<1>o. \A t \in Targets : /\ Workload(t) \in RuntimeObjects
                         /\ Credentials(t) \in RuntimeObjects
                         /\ Topology(t) \in RuntimeObjects
  BY DEF Workload, Credentials, Topology, RuntimeObjects
<1>g. TargetOf[worker.req] \in Targets
  BY <1>t DEF ConstantsAssumption
<1>p. \A result : Finishing(result).pc = "finish"
  BY <1>t DEF Finishing, Worker
<1>1. ASSUME NEW r \in Requests, handleActionApproval(r) PROVE ApprovalInv'
  BY <1>1, ReviewApproval
<1>2. ASSUME NEW r \in Requests, ValidateUpdate(r) PROVE ApprovalInv'
  BY <1>2 DEF ValidateUpdate
<1>3. ASSUME NEW r \in Requests, Deliver(r) PROVE ApprovalInv'
  <2>1. /\ pend[r] # <<>> /\ UNCHANGED <<specs, ar, worker, applied>>
        /\ cache' = [cache EXCEPT ![r] = Head(pend[r])]
    BY <1>3 DEF Deliver
  <2>2. /\ Ordered(Head(pend[r]), Tail(pend[r]), ar[r])
        /\ cache[r].gen <= Head(pend[r]).gen
    BY <1>t, <2>1, TailOrdered DEF GenInv
  <2>3. Head(pend[r]) \in Object /\ cache[r] \in Object /\ ar[r] \in Object
    BY <1>t, <2>1
  <2>4. ASSUME worker.pc = "prepare"
        PROVE  cache'[worker.req].gen = cache[worker.req].gen
    <3>1. CASE worker.req # r
      BY <1>t, <2>1, <3>1
    <3>2. CASE worker.req = r
      <4>1. Head(pend[r]).gen <= ar[r].gen /\ cache[r].gen = ar[r].gen
        BY <1>l, <2>2, <2>4, <3>2 DEF Ordered
      <4>2. Head(pend[r]).gen = cache[r].gen
        BY <2>2, <2>3, <4>1 DEF Object
      <4> QED BY <1>t, <2>1, <3>2, <4>2
    <3> QED BY <3>1, <3>2
  <2>5. WorkerInv'
    BY <1>i, <1>a, <2>1, <2>4 DEF WorkerInv, ApprovedGeneration
  <2> QED BY <1>r, <1>f, <2>1, <2>5 DEF ApprovalInv
<1>4. ASSUME NEW r \in Requests, Begin(r) PROVE ApprovalInv'
  <2>1. UNCHANGED <<specs, cache, applied>>
    BY <1>4 DEF Begin
  <2>2. cache[r].gen \in 1..Len(specs[r])
    <3>1. /\ cache[r].gen \in Nat /\ ar[r].gen \in Nat
          /\ cache[r].gen >= 1 /\ cache[r].gen <= ar[r].gen /\ ar[r].gen = Len(specs[r])
      BY <1>t DEF GenInv, Ordered, Object
    <3> QED BY <3>1
  <2>3. Branch(r, cache[r]) = "prepare" => Executable(r, specs[r][cache[r].gen])
    BY DEF Branch, Executable
  <2>4. Branch(r, cache[r]) \notin {"execute", "rollout"}
    BY DEF Branch
  <2>5. Idle(r).pc = "idle" /\ Idle(r).req = r
    BY DEF Idle
  <2>6. \/ worker'.pc = "idle"
        \/ worker'.pc = Branch(r, cache[r]) /\ worker'.req = r
    BY <1>4, <2>5 DEF Begin, Idle
  <2>7. WorkerInv'
    BY <2>1, <2>2, <2>3, <2>4, <2>6 DEF WorkerInv, ApprovedGeneration
  <2> QED BY <1>r, <1>f, <2>1, <2>7 DEF ApprovalInv
<1>5. CASE Prepare
  <2> DEFINE r == worker.req
             action == PreparedObject(r)
  <2>1. UNCHANGED <<specs, cache, applied>> /\ worker.pc = "prepare"
    BY <1>5 DEF Prepare
  <2>2. action.gen = cache[r].gen
    BY <1>l, <2>1 DEF PreparedObject, Merge
  <2>3. ApprovedGeneration(r, action.gen)
    BY <1>i, <2>1, <2>2 DEF WorkerInv
  <2>4. \/ worker'.pc \in {"idle", "inflight"}
        \/ worker'.pc = "execute" /\ worker'.req = r /\ worker'.gen = action.gen
    BY <1>5, <1>t DEF Prepare, Worker, Idle
  <2>5. WorkerInv'
    BY <1>a, <2>1, <2>3, <2>4 DEF WorkerInv, ApprovedGeneration
  <2> QED BY <1>r, <1>f, <2>1, <2>5 DEF ApprovalInv
<1>6. ASSUME NEW o \in RuntimeObjects, NEW v, NEW next,
             AnnotateOperation(o, v, next), specs' = specs,
             worker.pc \in {"execute", "rollout"}
      PROVE  EffectInv' /\ worker' \in {next, Finishing("Failed")}
  <2>1. ApprovedGeneration(worker.req, worker.gen)
    BY <1>i, <1>6 DEF WorkerInv
  <2>2. UNCHANGED applied \/ Record(o, {})
    BY <1>6 DEF AnnotateOperation
  <2>3. EffectInv'
    BY <1>6, <1>i, <1>f, <2>1, <2>2, RecordApproved
  <2> QED BY <1>6, <2>3 DEF AnnotateOperation
<1>7. CASE ExecuteRestart
  <2> DEFINE o == Workload(TargetOf[worker.req])
  <2>1. /\ AnnotateOperation(o, seen[o], Finishing("Succeeded"))
        /\ specs' = specs /\ worker.pc \in {"execute", "rollout"}
    BY <1>7 DEF ExecuteRestart, Executing
  <2>2. EffectInv' /\ worker' \in {Finishing("Succeeded"), Finishing("Failed")}
    BY <1>o, <1>g, <1>6, <2>1
  <2> QED BY <1>r, <1>x, <1>p, <2>1, <2>2 DEF ApprovalInv
<1>8. CASE ExecuteRotateSecret
  <2> DEFINE t == TargetOf[worker.req]
             o == Credentials(t)
             next == [worker EXCEPT !.pc = "rollout", !.read = seen[Workload(t)]]
  <2>1. /\ AnnotateOperation(o, seen[o], next)
        /\ specs' = specs /\ cache' = cache /\ worker.pc \in {"execute", "rollout"}
    BY <1>8 DEF ExecuteRotateSecret, Executing
  <2>2. EffectInv' /\ worker' \in {next, Finishing("Failed")}
    BY <1>o, <1>g, <1>6, <2>1
  <2>3. next.pc = "rollout" /\ next.req = worker.req /\ next.gen = worker.gen
    BY <1>t DEF Worker
  <2>4. WorkerInv'
    BY <1>i, <1>a, <1>p, <2>1, <2>2, <2>3 DEF WorkerInv, ApprovedGeneration
  <2> QED BY <1>r, <2>1, <2>2, <2>4 DEF ApprovalInv
<1>9. CASE ExecuteRotateRollout
  <2> DEFINE o == Workload(TargetOf[worker.req])
  <2>1. /\ AnnotateOperation(o, worker.read, Finishing("Succeeded"))
        /\ specs' = specs /\ worker.pc \in {"execute", "rollout"}
    BY <1>9 DEF ExecuteRotateRollout
  <2>2. EffectInv' /\ worker' \in {Finishing("Succeeded"), Finishing("Failed")}
    BY <1>o, <1>g, <1>6, <2>1
  <2> QED BY <1>r, <1>x, <1>p, <2>1, <2>2 DEF ApprovalInv
<1>10. CASE ExecuteFailover
  <2> DEFINE t == TargetOf[worker.req]
             ready == ReadyIn(t) \ {CandidateOf[worker.req]}
  <2>1. /\ specs' = specs /\ worker.pc = "execute"
        /\ UNCHANGED applied \/ Record(Topology(t), ready)
        /\ worker' \in {Finishing("Succeeded"), Finishing("Failed")}
    BY <1>10 DEF ExecuteFailover, Executing
  <2>2. ApprovedGeneration(worker.req, worker.gen)
    BY <1>i, <2>1 DEF WorkerInv
  <2>3. EffectInv'
    BY <1>i, <1>f, <1>o, <1>g, <2>1, <2>2, RecordApproved
  <2> QED BY <1>r, <1>x, <1>p, <2>1, <2>3 DEF ApprovalInv
<1>11. CASE ExecuteBackup \/ ExecuteError \/ ObserveBackup
  <2>1. UNCHANGED <<specs, applied>> /\ worker'.pc \in {"finish", "record"}
    BY <1>11, <1>p, <1>t DEF ExecuteBackup, ExecuteError, ObserveBackup, Worker
  <2> QED BY <1>r, <1>f, <1>x, <2>1 DEF ApprovalInv
<1>12. CASE PatchVerdict \/ Finish \/ RecordBackup \/ ApiError \/ Restart
  <2>1. UNCHANGED <<specs, applied>> /\ worker' = Idle(worker.req)
    BY <1>12 DEF PatchVerdict, Finish, RecordBackup, ApiError, Restart, Done
  <2>2. worker'.pc = "idle"
    BY <2>1 DEF Idle
  <2> QED BY <1>r, <1>f, <1>x, <2>1, <2>2 DEF ApprovalInv
<1>13. CASE UNCHANGED <<specs, cache, worker, applied>>
  BY <1>13, <1>i, <1>a, <1>r, <1>f DEF ApprovalInv, WorkerInv, ApprovedGeneration
<1>14. \/ \E r \in Requests : \/ handleActionApproval(r) \/ ValidateUpdate(r)
                             \/ Deliver(r) \/ Begin(r)
       \/ Prepare \/ ExecuteRestart \/ ExecuteRotateSecret
       \/ ExecuteRotateRollout \/ ExecuteFailover
       \/ ExecuteBackup \/ ExecuteError \/ ObserveBackup
       \/ PatchVerdict \/ Finish \/ RecordBackup \/ ApiError \/ Restart
       \/ UNCHANGED <<specs, cache, worker, applied>>
  BY DEF Next, Reconcile, vars, Resync, DeliverObject, TargetChanges,
         BackupProgress, BackupLost
<1> QED
  BY <1>1, <1>2, <1>3, <1>4, <1>5, <1>7, <1>8, <1>9, <1>10, <1>11, <1>12, <1>13,
     <1>14

(* While specs change only through the BFF's reviews, every side effect    *)
(* was executed from a spec that passed the approval checks, whatever the  *)
(* cache lag, the restarts and the failed calls. (With other edits it does *)
(* not: the approval is checked on one read and the spec executed comes    *)
(* from a later one.)                                                      *)
THEOREM OnlyApprovedExecutes ==
  ASSUME "spec" \notin Edits
  PROVE  Spec => []EffectApproved
<1>1. Spec => []TypeInv
  BY InitType, NextType, PTL DEF Spec
<1>2. TypeInv /\ GenInv /\ [Next]_vars => GenInv'
  BY NextGen
<1>3. Spec => []GenInv
  BY <1>1, <1>2, InitGen, PTL DEF Spec
<1>4. TypeInv /\ GenInv /\ ApprovalInv /\ [Next]_vars => ApprovalInv'
  BY NextApproval
<1>5. Spec => []ApprovalInv
  BY <1>1, <1>3, <1>4, InitApproval, PTL DEF Spec
<1>6. ApprovalInv => EffectApproved
  BY DEF ApprovalInv, EffectInv, EffectApproved, ApprovedGeneration
<1> QED BY <1>5, <1>6, PTL

-----------------------------------------------------------------------------
(* The life of a request whose spec only a reviewer changes                *)

(* The versions of a request somebody still holds.                         *)
Held(r) == {ar[r], cache[r]} \cup {pend[r][i] : i \in 1..Len(pend[r])}

(* The latest generation can neither be executed nor be reviewed.          *)
Refused(r) ==
  LET latest == specs[r][Len(specs[r])]
  IN  ~Executable(r, latest) /\ latest.mode # "Required"

(* A version from before the prepare patch, and one from after it.         *)
Unstarted(r, v) ==
  /\ v.op = 0
  /\ v.state \in {"", "Complete"}
  /\ v.phase \in {"", "PendingApproval", "Failed"}
  /\ v.state = "Complete" \/ v.phase = "Failed" => Refused(r)

Started(r, v) ==
  /\ v.gen = Len(specs[r])
  /\ Executable(r, specs[r][v.gen])
  /\ v.obs = v.gen
  /\ v.op = v.gen
  /\ v.state \in {"Prepared", "Applied", "Complete"}
  /\ v.phase \in {"Queued", "Running"} \cup Terminal

HeldInv ==
  \A r \in Requests : \A v \in Held(r) :
    /\ v.obs <= ar[r].obs
    /\ Unstarted(r, v) \/ Started(r, v)
    /\ Started(r, v) => Started(r, ar[r])

AvailableInv == \A t \in Targets : available[t]

(* Where the worker has got to, and what the server says by then.          *)
StageInv ==
  /\ worker.pc \in Verdicts =>
       /\ worker.pc \in {"pending", "rejected", "noapprover"}
       /\ ~Started(worker.req, ar[worker.req])
       /\ worker.pc # "pending" => Refused(worker.req)
  /\ worker.pc \in {"execute", "rollout", "finish", "inflight", "record"} =>
       Started(worker.req, ar[worker.req])
  /\ worker.pc \in {"execute", "rollout", "finish"} =>
       worker.op = ar[worker.req].gen /\ worker.gen = ar[worker.req].gen
  /\ worker.pc \in {"finish", "record"} => worker.result # ""

LifeInv == HeldInv /\ AvailableInv /\ StageInv

(* A step that leaves every started request started, in its generation.    *)
StaysStarted ==
  \A r \in Requests :
    Started(r, ar[r]) => Started(r, ar[r])' /\ specs'[r] = specs[r]

(* The two kinds of version exclude each other, and a request that was     *)
(* started is approved, resolved and known to the cache.                   *)
LEMMA StartedFacts ==
  ASSUME TypeOK, GenInv, NEW r \in Requests, Started(r, ar[r])
  PROVE  /\ cache[r].gen = ar[r].gen
         /\ ar[r].gen \in Nat \ {0}
         /\ ~Unstarted(r, ar[r])
         /\ ~Refused(r)
         /\ Executable(r, specs[r][Len(specs[r])])
<1>1. /\ cache[r].gen \in Nat /\ ar[r].gen \in Nat /\ ar[r].obs \in Nat
      /\ cache[r].gen >= 1 /\ ar[r].obs <= cache[r].gen
      /\ cache[r].gen <= ar[r].gen
  BY DEF TypeOK, Object, GenInv, Ordered
<1>2. cache[r].gen = ar[r].gen /\ ar[r].gen \in Nat \ {0}
  BY <1>1 DEF Started
<1>3. ~Unstarted(r, ar[r])
  BY <1>2 DEF Started, Unstarted
<1>4. Executable(r, specs[r][Len(specs[r])]) /\ ~Refused(r)
  BY DEF Started, Refused
<1> QED BY <1>2, <1>3, <1>4

(* Whether a version was started depends on the specs only.                *)
LEMMA FrameStarted ==
  ASSUME specs' = specs
  PROVE  /\ \A q, v : Unstarted(q, v)' <=> Unstarted(q, v)
         /\ \A q, v : Started(q, v)' <=> Started(q, v)
         /\ \A q : Started(q, ar[q])' <=> Started(q, ar'[q])
         /\ \A q : Refused(q)' <=> Refused(q)
BY DEF Started, Unstarted, Refused

(* A stored version that is no step back in the request's life.            *)
LEMMA StoreHeld ==
  ASSUME TypeOK, HeldInv, NEW r \in Requests, NEW new \in Object, Store(r, new),
         UNCHANGED <<specs, cache>>, ar[r].obs <= new.obs,
         Unstarted(r, new) \/ Started(r, new),
         Started(r, ar[r]) => Started(r, new)
  PROVE  HeldInv' /\ StaysStarted /\ ar' = [ar EXCEPT ![r] = new]
<1>1. /\ ar \in [Requests -> Object]
      /\ cache \in [Requests -> Object]
      /\ pend \in [Requests -> Seq(Object)]
  BY DEF TypeOK
<1>2. ar' = [ar EXCEPT ![r] = new]
  BY <1>1 DEF Store
<1>3. ASSUME NEW q \in Requests, NEW v \in Held(q)'
      PROVE  v \in Held(q) \/ (q = r /\ v = new)
  <2>1. CASE new = ar[r]
    BY <1>3, <2>1 DEF Store, Held
  <2>2. CASE new # ar[r]
    <3>1. pend' = [pend EXCEPT ![r] = Append(pend[r], new)]
      BY <2>2 DEF Store
    <3>2. CASE q # r
      BY <1>1, <1>2, <1>3, <3>1, <3>2 DEF Held
    <3>3. CASE q = r
      <4>1. Len(pend'[r]) = Len(pend[r]) + 1 /\ Len(pend[r]) \in Nat
        BY <1>1, <3>1
      <4>2. \A i \in 1..Len(pend'[r]) :
              \/ i \in 1..Len(pend[r]) /\ pend'[r][i] = pend[r][i]
              \/ pend'[r][i] = new
        BY <1>1, <3>1, <4>1
      <4>3. ar'[r] = new /\ cache'[r] = cache[r]
        BY <1>1, <1>2
      <4> QED BY <1>3, <3>3, <4>2, <4>3 DEF Held
    <3> QED BY <3>2, <3>3
  <2> QED BY <2>1, <2>2
<1>5. \A q \in Requests : \A v \in Held(q) : v.obs \in Nat
  <2> SUFFICES ASSUME NEW q \in Requests, NEW v \in Held(q) PROVE v \in Object
    BY DEF Object
  <2> QED BY <1>1 DEF Held
<1>6. ASSUME NEW q \in Requests, NEW v \in Held(q)'
      PROVE  /\ v.obs <= ar'[q].obs
             /\ Unstarted(q, v) \/ Started(q, v)
             /\ Started(q, v) => Started(q, ar'[q])
  <2>1. new.obs \in Nat /\ ar[r].obs \in Nat
    BY <1>1 DEF Object
  <2>2. CASE v \in Held(q) /\ q # r
    BY <1>1, <1>2, <2>2 DEF HeldInv
  <2>3. CASE v \in Held(q) /\ q = r
    <3>1. ar'[q] = new /\ v.obs \in Nat
      BY <1>1, <1>2, <1>5, <2>3
    <3> QED BY <1>2, <2>1, <2>3, <3>1 DEF HeldInv
  <2>4. CASE q = r /\ v = new
    BY <1>1, <1>2, <2>1, <2>4
  <2> QED BY <1>3, <1>6, <2>2, <2>3, <2>4
<1>7. HeldInv'
  BY <1>6, FrameStarted DEF HeldInv
<1>8. StaysStarted
  BY <1>1, <1>2, FrameStarted DEF StaysStarted
<1> QED BY <1>2, <1>7, <1>8

(* Taking versions away from those held.                                   *)
LEMMA FewerHeld ==
  ASSUME HeldInv, UNCHANGED <<specs, ar>>,
         \A r \in Requests : Held(r)' \subseteq Held(r)
  PROVE  HeldInv' /\ StaysStarted
BY FrameStarted DEF HeldInv, StaysStarted

(* A review finds a request that was not started or refused, and leaves    *)
(* one that is not.                                                        *)
LEMMA ReviewHeld ==
  ASSUME TypeInv, GenInv, LifeInv, NEW r \in Requests, handleActionApproval(r)
  PROVE  LifeInv' /\ StaysStarted
<1>1. PICK approval \in Approval : NewGeneration(r, approval)
  BY DEF handleActionApproval, Approval, ApprovalModes
<1>2. /\ specs' = [specs EXCEPT ![r] = Append(specs[r], approval)]
      /\ UNCHANGED <<cache, worker, available>>
  BY <1>1 DEF NewGeneration
<1> DEFINE new == [ar[r] EXCEPT !.gen = @ + 1]
<1>3. /\ specs \in [Requests -> Seq(Approval)]
      /\ ar \in [Requests -> Object] /\ ar[r] \in Object
      /\ cache \in [Requests -> Object]
      /\ pend \in [Requests -> Seq(Object)]
      /\ worker.req \in Requests
  BY DEF TypeInv, TypeOK, Worker
<1>4. /\ new.gen = ar[r].gen + 1 /\ new.obs = ar[r].obs /\ new.op = ar[r].op
      /\ new.state = ar[r].state /\ new.phase = ar[r].phase
      /\ ar[r].gen \in Nat /\ ar[r].obs \in Nat /\ ar[r].obs <= ar[r].gen
  <2>1. cache[r].gen \in Nat /\ ar[r].obs <= cache[r].gen /\ cache[r].gen <= ar[r].gen
    BY <1>3 DEF GenInv, Ordered, Object
  <2> QED BY <1>3, <2>1 DEF Object
<1>5. ar' = [ar EXCEPT ![r] = new] /\ pend' = [pend EXCEPT ![r] = Append(pend[r], new)]
  <2>1. new # ar[r]
    <3> HIDE DEF new
    <3> QED BY <1>4
  <2>2. Store(r, new)
    BY <1>1 DEF NewGeneration
  <2> QED BY <2>1, <2>2 DEF Store
<1>6. ar[r].phase = "PendingApproval" /\ specs[r][Len(specs[r])].mode = "Required"
  BY DEF handleActionApproval, GenInv
<1>7. ~Started(r, ar[r]) /\ ~Refused(r)
  BY <1>6 DEF Started, Refused, Terminal
<1>8. ar[r] \in Held(r)
  BY DEF Held
<1>9. \A v \in Held(r) : /\ v.obs <= ar[r].obs
                         /\ v.op = 0 /\ v.state = ""
                         /\ v.phase \in {"", "PendingApproval"}
  BY <1>7, <1>8 DEF LifeInv, HeldInv, Unstarted
<1>10. ASSUME NEW q \in Requests, NEW v \in Held(q)'
       PROVE  v \in Held(q) \/ (q = r /\ v = new)
  <2>1. CASE q # r
    BY <1>2, <1>3, <1>5, <1>10, <2>1 DEF Held
  <2>2. CASE q = r
    <3>1. Len(pend'[r]) = Len(pend[r]) + 1 /\ Len(pend[r]) \in Nat
      BY <1>3, <1>5
    <3>2. \A i \in 1..Len(pend'[r]) :
            \/ i \in 1..Len(pend[r]) /\ pend'[r][i] = pend[r][i]
            \/ pend'[r][i] = new
      BY <1>3, <1>5, <3>1
    <3>3. ar'[r] = new /\ cache'[r] = cache[r]
      BY <1>2, <1>3, <1>5
    <3> QED BY <1>10, <2>2, <3>2, <3>3 DEF Held
  <2> QED BY <2>1, <2>2
<1>11. \A q \in Requests : q # r => ar'[q] = ar[q] /\ specs'[q] = specs[q]
  BY <1>2, <1>3, <1>5
<1>12. \A q \in Requests : \A v : q # r =>
         /\ Started(q, v)' <=> Started(q, v)
         /\ Unstarted(q, v)' <=> Unstarted(q, v)
         /\ Refused(q)' <=> Refused(q)
  BY <1>11 DEF Started, Unstarted, Refused
<1>13. ar'[r] = new
  BY <1>3, <1>5
<1>14. \A v \in Held(r)' : /\ v.obs <= ar'[r].obs
                           /\ v.op = 0 /\ v.state = ""
                           /\ v.phase \in {"", "PendingApproval"}
  BY <1>4, <1>8, <1>9, <1>10, <1>13
<1>15. \A v \in Held(r)' : Unstarted(r, v)' /\ ~Started(r, v)'
  BY <1>14 DEF Unstarted, Started, Terminal
<1>16. HeldInv'
  <2> SUFFICES ASSUME NEW q \in Requests, NEW v \in Held(q)'
               PROVE  /\ v.obs <= ar'[q].obs
                      /\ Unstarted(q, v)' \/ Started(q, v)'
                      /\ Started(q, v)' => Started(q, ar[q])'
    BY DEF HeldInv
  <2>1. CASE q = r
    BY <1>14, <1>15, <2>1
  <2>2. CASE q # r
    <3>1. v \in Held(q) /\ ar'[q] = ar[q]
      BY <1>10, <1>11, <2>2
    <3>2. /\ v.obs <= ar[q].obs
          /\ Unstarted(q, v) \/ Started(q, v)
          /\ Started(q, v) => Started(q, ar[q])
      BY <3>1 DEF LifeInv, HeldInv
    <3>3. Started(q, ar[q])' <=> Started(q, ar[q])
      BY <1>11, <2>2 DEF Started
    <3> QED BY <1>12, <2>2, <3>1, <3>2, <3>3
  <2> QED BY <2>1, <2>2
<1>17. StageInv'
  <2>1. CASE worker.req # r
    <3>1. /\ Started(worker.req, ar[worker.req])' <=> Started(worker.req, ar[worker.req])
          /\ Refused(worker.req)' <=> Refused(worker.req)
          /\ ar'[worker.req] = ar[worker.req]
      BY <1>2, <1>3, <1>11, <2>1 DEF Started, Refused
    <3> QED BY <1>2, <3>1 DEF LifeInv, StageInv
  <2>2. CASE worker.req = r
    <3>1. ~Started(worker.req, ar[worker.req])'
      BY <1>2, <1>13, <1>14, <1>15, <2>2 DEF Held
    <3> QED BY <1>2, <1>7, <2>2, <3>1 DEF LifeInv, StageInv
  <2> QED BY <2>1, <2>2
<1>18. StaysStarted
  <2>1. \A q \in Requests : q # r => (Started(q, ar[q])' <=> Started(q, ar[q]))
    BY <1>11 DEF Started
  <2> QED BY <1>7, <1>11, <2>1 DEF StaysStarted
<1> QED BY <1>2, <1>16, <1>17, <1>18 DEF LifeInv, AvailableInv

(* The verdicts of a request that was not started.                         *)
LEMMA VerdictHeld ==
  ASSUME TypeInv, GenInv, LifeInv, PatchVerdict
  PROVE  LifeInv' /\ StaysStarted
<1> DEFINE r == worker.req
           c == cache[r]
           new == Merge(c, Verdict(worker.pc, c), ar[r])
<1>1. /\ TypeOK /\ HeldInv
      /\ ar \in [Requests -> Object]
      /\ cache \in [Requests -> Object]
      /\ r \in Requests
      /\ worker.pc \in Verdicts
  BY DEF TypeInv, TypeOK, Worker, LifeInv, PatchVerdict
<1>2. Verdict(worker.pc, c) \in Object /\ new \in Object
  BY <1>1, MutationType, MergeType
<1>3. /\ worker.pc \in {"pending", "rejected", "noapprover"}
      /\ ~Started(r, ar[r])
      /\ worker.pc # "pending" => Refused(r)
  BY <1>1 DEF LifeInv, StageInv
<1>4. Unstarted(r, ar[r]) /\ Unstarted(r, c)
  BY <1>1, <1>3 DEF HeldInv, Held
<1>5. /\ ar[r].obs \in Nat /\ c.gen \in Nat /\ ar[r].obs <= c.gen
  BY <1>1 DEF GenInv, Object
<1>6. Store(r, new) /\ UNCHANGED <<specs, cache, available>> /\ worker' = Idle(r)
  BY DEF PatchVerdict, patchActionRequestStatus, Done
<1>7. /\ Verdict(worker.pc, c).op = 0
      /\ Verdict(worker.pc, c).obs = c.gen
      /\ \/ /\ Verdict(worker.pc, c).phase = "PendingApproval"
            /\ Verdict(worker.pc, c).state = ""
         \/ /\ Verdict(worker.pc, c).phase = "Failed"
            /\ Verdict(worker.pc, c).state = "Complete"
            /\ Refused(r)
  <2>1. c \in Object
    BY <1>1
  <2> QED BY <2>1, <1>3 DEF Verdict, Object
<1>8. Unstarted(r, new)
  BY <1>4, <1>7 DEF Merge, Unstarted
<1>9. ar[r].obs <= new.obs
  <2>1. new.obs \in {ar[r].obs, c.gen}
    BY <1>7 DEF Merge
  <2> QED BY <1>5, <2>1
<1>10. HeldInv' /\ StaysStarted
  BY <1>1, <1>2, <1>3, <1>6, <1>8, <1>9, StoreHeld
<1>11. worker'.pc = "idle"
  BY <1>6 DEF Idle
<1> QED BY <1>6, <1>10, <1>11 DEF LifeInv, AvailableInv, StageInv, Verdicts

(* Preparing starts an approved request, and leaves a started one so.      *)
LEMMA PrepareHeld ==
  ASSUME TypeInv, GenInv, ApprovalInv, LifeInv, Prepare
  PROVE  LifeInv' /\ StaysStarted
<1> DEFINE r == worker.req
           c == cache[r]
           after == Prepared(c)
           new == Merge(c, after, ar[r])
           action == PreparedObject(r)
<1>1. /\ TypeOK /\ HeldInv
      /\ ar \in [Requests -> Object] /\ ar[r] \in Object
      /\ cache \in [Requests -> Object] /\ c \in Object
      /\ worker \in Worker
      /\ r \in Requests
      /\ worker.pc = "prepare"
  BY DEF TypeInv, TypeOK, Worker, LifeInv, Prepare
<1>2. after \in Object /\ new \in Object
  BY <1>1, MutationType, MergeType
<1>3. ApprovedGeneration(r, c.gen)
  BY <1>1 DEF ApprovalInv, WorkerInv
<1>4. c.gen = Len(specs[r]) /\ Executable(r, specs[r][c.gen]) /\ ~Refused(r)
  BY <1>1, <1>3, ApprovedIsLatest DEF ApprovalInv, ApprovedGeneration, Refused
<1>5. /\ c.gen \in Nat \ {0} /\ ar[r].gen = c.gen
      /\ c.obs \in Nat /\ ar[r].obs \in Nat
      /\ ar[r].obs <= c.gen /\ c.obs <= ar[r].obs
  <2>1. c.obs <= ar[r].obs
    BY <1>1 DEF HeldInv, Held
  <2> QED BY <1>1, <1>4, <2>1 DEF GenInv, Object
<1>6. Store(r, new) /\ UNCHANGED <<specs, cache, available>>
  BY DEF Prepare, patchActionRequestStatus
<1>7. Unstarted(r, c) \/ (Started(r, c) /\ Started(r, ar[r]))
  BY <1>1 DEF HeldInv, Held
<1>8. Started(r, new) /\ (after = c => Started(r, c))
  <2>1. CASE Unstarted(r, c)
    <3>1. c.op = 0 /\ c.state = "" /\ c.phase \in {"", "PendingApproval"}
      BY <1>4, <2>1 DEF Unstarted
    <3>2. /\ after.op = c.gen /\ after.state = "Prepared" /\ after.obs = c.gen
          /\ after.phase = "Running"
      BY <1>1, <3>1 DEF Prepared, Object
    <3>3. /\ new.gen = c.gen /\ new.op = c.gen /\ new.state = "Prepared"
          /\ new.phase = "Running" /\ new.obs = c.gen
      <4>1. /\ new.gen = ar[r].gen
            /\ new.obs = IF c.gen = c.obs THEN ar[r].obs ELSE c.gen
            /\ new.op = IF c.gen = 0 THEN ar[r].op ELSE c.gen
            /\ new.state = "Prepared" /\ new.phase = "Running"
        BY <3>1, <3>2 DEF Merge
      <4> HIDE DEF new, c
      <4> QED BY <1>5, <4>1
    <3>4. after # c
      BY <1>5, <3>1, <3>2
    <3> QED BY <1>4, <3>3, <3>4 DEF Started
  <2>2. CASE Started(r, c) /\ Started(r, ar[r])
    <3>1. /\ after.obs = c.obs /\ after.op = c.op /\ after.state = c.state
          /\ after.phase \in {c.phase, "Running"}
      BY <1>1, <1>5, <2>2 DEF Prepared, Object, Started
    <3>2. /\ new.gen = ar[r].gen /\ new.obs = ar[r].obs /\ new.op = ar[r].op
          /\ new.state = ar[r].state /\ new.phase \in {ar[r].phase, "Running"}
      BY <3>1 DEF Merge
    <3> QED BY <2>2, <3>2 DEF Started
  <2> QED BY <1>7, <2>1, <2>2
<1>9. ar[r].obs <= new.obs
  BY <1>4, <1>5, <1>8 DEF Started
<1>10. HeldInv' /\ StaysStarted /\ ar' = [ar EXCEPT ![r] = new]
  BY <1>1, <1>2, <1>6, <1>8, <1>9, StoreHeld
<1>11. action \in Object /\ action.op = c.gen /\ action.gen = c.gen
  BY <1>1, <1>2, <1>4, <1>8 DEF PreparedObject, Started
<1>12. /\ worker'.req = r
       /\ worker'.pc \in {"idle", "execute", "inflight"}
       /\ worker'.pc # "idle" => worker'.op = c.gen /\ worker'.gen = c.gen
  BY <1>1, <1>11 DEF Prepare, Worker, Idle
<1>13. Started(r, ar'[r]) /\ ar'[r].gen = c.gen
  BY <1>1, <1>4, <1>8, <1>10 DEF Started
<1>14. StageInv'
  BY <1>6, <1>12, <1>13, FrameStarted DEF StageInv, Verdicts
<1> QED BY <1>6, <1>10, <1>14 DEF LifeInv, AvailableInv

(* Recording a result keeps a started request started.                     *)
LEMMA ExecutedHeld ==
  ASSUME TypeInv, GenInv, LifeInv, UNCHANGED <<specs, cache, available>>, Done,
         worker.pc \in {"finish", "record"},
         patchActionRequestStatus(worker.req,
                                  Executed(cache[worker.req], worker.result))
  PROVE  /\ LifeInv' /\ StaysStarted
         /\ ar' = [ar EXCEPT ![worker.req] =
                     Merge(cache[worker.req],
                           Executed(cache[worker.req], worker.result), @)]
         /\ ar'[worker.req].obs = ar[worker.req].obs
<1> DEFINE r == worker.req
           c == cache[r]
           after == Executed(c, worker.result)
           new == Merge(c, after, ar[r])
<1>1. /\ TypeOK /\ HeldInv
      /\ ar \in [Requests -> Object] /\ ar[r] \in Object
      /\ cache \in [Requests -> Object] /\ c \in Object
      /\ r \in Requests
      /\ worker.result \in Results
  BY DEF TypeInv, TypeOK, Worker, LifeInv
<1>2. after \in Object /\ new \in Object
  BY <1>1, MutationType, MergeType
<1>3. Started(r, ar[r]) /\ worker.result \in {"Queued", "Running"} \cup Terminal
  BY <1>1 DEF LifeInv, StageInv, Results, Terminal
<1>4. c.gen = ar[r].gen
  BY <1>1, <1>3, StartedFacts
<1>5. /\ after.obs = c.gen /\ after.op = c.op /\ after.phase = worker.result
      /\ after.state \in {"Applied", "Complete"}
  BY <1>1 DEF Executed, Object
<1>6. /\ new.gen = ar[r].gen /\ new.obs = ar[r].obs /\ new.op = ar[r].op
      /\ new.state \in {ar[r].state, "Applied", "Complete"}
      /\ new.phase \in {ar[r].phase, worker.result}
  <2>1. ar[r].obs = ar[r].gen
    BY <1>3 DEF Started
  <2> QED BY <1>4, <1>5, <2>1 DEF Merge
<1>7. Started(r, new)
  BY <1>3, <1>6 DEF Started
<1>8. Store(r, new) /\ ar[r].obs <= new.obs
  <2>1. ar[r].obs \in Nat
    BY <1>1 DEF Object
  <2> QED BY <1>6, <2>1 DEF patchActionRequestStatus
<1>9. HeldInv' /\ StaysStarted /\ ar' = [ar EXCEPT ![r] = new]
  BY <1>1, <1>2, <1>7, <1>8, StoreHeld
<1>10. worker'.pc = "idle"
  BY DEF Done, Idle
<1>11. StageInv'
  BY <1>10 DEF StageInv, Verdicts
<1> QED BY <1>1, <1>6, <1>9, <1>11 DEF LifeInv, AvailableInv

(* The branch a reconcile takes is one the life of the request allows.     *)
LEMMA BeginStage ==
  ASSUME TypeInv, GenInv, ApprovalInv, LifeInv, NEW r \in Requests, Begin(r)
  PROVE  StageInv'
<1> DEFINE c == cache[r]
<1>1. /\ TypeOK /\ c \in Object /\ ar[r] \in Object
      /\ specs[r] \in Seq(Approval)
  BY DEF TypeInv, TypeOK
<1>a. available[TargetOf[r]]
  <2>1. TargetOf[r] \in Targets
    BY ConstantsAssumption
  <2> QED BY <2>1, Zenon DEF LifeInv, AvailableInv
<1>2. UNCHANGED <<specs, ar>>
  BY DEF Begin
<1>3. c.gen \in 1..Len(specs[r]) /\ Len(specs[r]) \in Nat
  <2>1. /\ c.gen \in Nat /\ ar[r].gen \in Nat
        /\ c.gen >= 1 /\ c.gen <= ar[r].gen /\ ar[r].gen = Len(specs[r])
    BY <1>1 DEF GenInv, Ordered, Object
  <2> QED BY <2>1
<1>4. /\ worker'.req = r
      /\ worker'.pc \in {"idle", Branch(r, c)}
  BY DEF Begin, Idle
<1>5. Started(r, ar[r]) => Executable(r, specs[r][c.gen])
  BY <1>1, StartedFacts DEF GenInv, Started
<1>6. Started(r, c) => Executable(r, specs[r][c.gen])
  BY DEF Started
<1>7. c.state = "Applied" => Started(r, c)
  BY DEF LifeInv, HeldInv, Held, Unstarted
<1>8. Branch(r, c) \in {"pending", "rejected", "noapprover", "prepare"}
  BY <1>a, <1>6, <1>7 DEF Branch, Executable
<1>9. Branch(r, c) # "prepare" => ~Executable(r, specs[r][c.gen])
  BY <1>a DEF Branch, Executable
<1>10. Branch(r, c) \in {"rejected", "noapprover"} => Refused(r)
  <2> SUFFICES ASSUME Branch(r, c) \in {"rejected", "noapprover"} PROVE Refused(r)
    OBVIOUS
  <2>1. specs[r][c.gen].mode # "Required"
    BY DEF Branch, approvalPending
  <2>2. c.gen \notin 1..(Len(specs[r]) - 1)
    BY <2>1 DEF ApprovalInv, ReviewInv
  <2>3. c.gen = Len(specs[r])
    BY <1>3, <2>2
  <2> QED BY <1>9, <2>1, <2>3 DEF Refused
<1> QED
  BY <1>2, <1>4, <1>5, <1>8, <1>9, <1>10, FrameStarted DEF StageInv, Verdicts

(* Every step keeps a request's life in order while only reviewers change  *)
(* its spec and its target resolves.                                       *)
LEMMA NextLife ==
  ASSUME "spec" \notin Edits, "target" \notin Edits
  PROVE  TypeInv /\ GenInv /\ ApprovalInv /\ LifeInv /\ [Next]_vars =>
           LifeInv' /\ StaysStarted
<1> SUFFICES ASSUME TypeInv, GenInv, ApprovalInv, LifeInv, [Next]_vars
             PROVE  LifeInv' /\ StaysStarted /\ StaysStarted
  OBVIOUS
<1>t. /\ TypeOK
      /\ ar \in [Requests -> Object]
      /\ cache \in [Requests -> Object]
      /\ pend \in [Requests -> Seq(Object)]
      /\ worker \in Worker
      /\ worker.req \in Requests
  BY DEF TypeInv, TypeOK, Worker
<1>i. HeldInv /\ AvailableInv /\ StageInv
  BY DEF LifeInv
<1>h. UNCHANGED <<specs, ar, cache, pend>> => HeldInv' /\ StaysStarted
  BY <1>i, FewerHeld DEF Held
<1>v. available' = available => AvailableInv'
  BY <1>i DEF AvailableInv
<1>d. worker'.pc = "idle" => StageInv'
  BY DEF StageInv, Verdicts
<1>1. ASSUME NEW r \in Requests, handleActionApproval(r) PROVE LifeInv' /\ StaysStarted
  BY <1>1, ReviewHeld
<1>2. ASSUME NEW r \in Requests, ValidateUpdate(r) PROVE LifeInv' /\ StaysStarted
  BY <1>2 DEF ValidateUpdate
<1>3. ASSUME NEW r \in Requests, Deliver(r) PROVE LifeInv' /\ StaysStarted
  <2>1. /\ pend[r] # <<>> /\ UNCHANGED <<specs, ar, worker, available>>
        /\ cache' = [cache EXCEPT ![r] = Head(pend[r])]
        /\ pend' = [pend EXCEPT ![r] = Tail(pend[r])]
    BY <1>3 DEF Deliver
  <2>2. /\ Len(pend[r]) \in Nat /\ Len(pend[r]) >= 1 /\ Head(pend[r]) = pend[r][1]
        /\ Len(Tail(pend[r])) = Len(pend[r]) - 1
        /\ \A i \in 1..Len(Tail(pend[r])) : Tail(pend[r])[i] = pend[r][i + 1]
    BY <1>t, <2>1
  <2>3. ASSUME NEW q \in Requests, NEW v \in Held(q)' PROVE v \in Held(q)
    <3>1. CASE q # r
      BY <1>t, <2>1, <2>3, <3>1 DEF Held
    <3>2. CASE q = r
      <4>1. 1 \in 1..Len(pend[r])
        BY <2>2
      <4>2. \A i \in 1..Len(Tail(pend[r])) : i + 1 \in 1..Len(pend[r])
        BY <2>2
      <4>3. cache'[r] = pend[r][1] /\ pend'[r] = Tail(pend[r]) /\ ar'[r] = ar[r]
        BY <1>t, <2>1, <2>2
      <4> QED BY <2>2, <2>3, <3>2, <4>1, <4>2, <4>3 DEF Held
    <3> QED BY <3>1, <3>2
  <2>4. HeldInv' /\ StaysStarted
    BY <1>i, <2>1, <2>3, FewerHeld
  <2>5. StageInv'
    BY <1>i, <2>1, FrameStarted DEF StageInv
  <2> QED BY <1>v, <2>1, <2>4, <2>5 DEF LifeInv
<1>4. ASSUME NEW r \in Requests, Begin(r) PROVE LifeInv' /\ StaysStarted
  <2>1. UNCHANGED <<specs, ar, cache, pend, available>>
    BY <1>4 DEF Begin
  <2>2. StageInv'
    BY <1>4, BeginStage
  <2> QED BY <1>h, <1>v, <2>1, <2>2 DEF LifeInv
<1>5. CASE PatchVerdict
  BY <1>5, VerdictHeld
<1>6. CASE Prepare
  BY <1>6, PrepareHeld
<1>7. CASE Finish
  BY <1>7, ExecutedHeld DEF Finish
<1>8. CASE RecordBackup
  <2>1. CASE UNCHANGED <<ar, pend>>
    <3>1. UNCHANGED <<specs, ar, cache, pend, available>> /\ worker'.pc = "idle"
      BY <1>8, <2>1 DEF RecordBackup, Done, Idle
    <3> QED BY <1>h, <1>v, <1>d, <3>1 DEF LifeInv
  <2>2. CASE patchActionRequestStatus(worker.req,
               Executed(cache[worker.req], worker.result))
    BY <1>8, <2>2, ExecutedHeld DEF RecordBackup
  <2> QED BY <1>8, <2>1, <2>2 DEF RecordBackup
<1>9. CASE ApiError
  <2>1. UNCHANGED <<specs, ar, cache, pend, available>> /\ worker'.pc = "idle"
    BY <1>9 DEF ApiError, Done, Idle
  <2> QED BY <1>h, <1>v, <1>d, <2>1 DEF LifeInv
<1>10. CASE Restart
  <2>1. /\ UNCHANGED <<specs, ar, available>> /\ worker'.pc = "idle" /\ cache' = ar
        /\ pend' = [r \in Requests |-> <<>>]
    BY <1>10 DEF Restart, Done, Idle
  <2>2. \A q \in Requests : Held(q)' \subseteq Held(q)
    BY <2>1 DEF Held
  <2>3. HeldInv' /\ StaysStarted
    BY <1>i, <2>1, <2>2, FewerHeld
  <2> QED BY <1>v, <1>d, <2>1, <2>3 DEF LifeInv
<1>11. CASE ExecuteRestart \/ ExecuteRotateSecret \/ ExecuteRotateRollout
            \/ ExecuteFailover \/ ExecuteBackup \/ ExecuteError
  <2>1. UNCHANGED <<specs, ar, cache, pend, available>>
    BY <1>11 DEF ExecuteRestart, ExecuteRotateSecret, ExecuteRotateRollout,
                 ExecuteFailover, ExecuteBackup, ExecuteError
  <2>2. worker.pc \in {"execute", "rollout"}
    BY <1>11 DEF ExecuteRestart, ExecuteRotateSecret, ExecuteRotateRollout,
                 ExecuteFailover, ExecuteBackup, ExecuteError, Executing
  <2>3. /\ Started(worker.req, ar[worker.req])
        /\ worker.op = ar[worker.req].gen /\ worker.gen = ar[worker.req].gen
    BY <1>i, <2>2 DEF StageInv
  <2>4. /\ worker'.req = worker.req /\ worker'.op = worker.op
        /\ worker'.gen = worker.gen
        /\ \/ worker'.pc = "finish" /\ worker'.result # ""
           \/ worker'.pc = "rollout" /\ ActionOf[worker.req] = "rotate-credentials"
    <3>1. CASE ExecuteRotateSecret
      BY <1>t, <3>1 DEF ExecuteRotateSecret, AnnotateOperation, Finishing, Worker,
                       Executing
    <3>2. CASE ExecuteRestart \/ ExecuteRotateRollout
      BY <1>t, <3>2 DEF ExecuteRestart, ExecuteRotateRollout, AnnotateOperation,
                        Finishing, Worker
    <3>3. CASE ExecuteFailover \/ ExecuteError
      BY <1>t, <3>3 DEF ExecuteFailover, ExecuteError, Finishing, Worker
    <3>4. CASE ExecuteBackup
      <4>1. BackupResult(backup[worker.req]) # ""
        BY DEF BackupResult
      <4> QED BY <1>t, <3>4, <4>1 DEF ExecuteBackup, Finishing, Worker
    <3> QED BY <1>11, <3>1, <3>2, <3>3, <3>4
  <2>5. StageInv'
    BY <2>1, <2>3, <2>4, FrameStarted DEF StageInv, Verdicts
  <2> QED BY <1>h, <1>v, <2>1, <2>5 DEF LifeInv
<1>12. CASE ObserveBackup
  <2>1. UNCHANGED <<specs, ar, cache, pend, available>>
    BY <1>12 DEF ObserveBackup
  <2>2. BackupResult(backup[worker.req]) # ""
    BY DEF BackupResult
  <2>3. worker'.req = worker.req /\ worker'.pc = "record" /\ worker'.result # ""
    BY <1>12, <1>t, <2>2 DEF ObserveBackup, Worker
  <2>4. Started(worker.req, ar[worker.req])
    BY <1>12, <1>i DEF ObserveBackup, StageInv
  <2>5. StageInv'
    BY <2>1, <2>3, <2>4, FrameStarted DEF StageInv, Verdicts
  <2> QED BY <1>h, <1>v, <2>1, <2>5 DEF LifeInv
<1>13. CASE UNCHANGED <<specs, ar, cache, pend, worker, available>>
  <2>1. StageInv'
    BY <1>13, <1>i, FrameStarted DEF StageInv
  <2> QED BY <1>13, <1>h, <1>v, <2>1 DEF LifeInv
<1>14. \/ \E r \in Requests : \/ handleActionApproval(r) \/ ValidateUpdate(r)
                             \/ Deliver(r) \/ Begin(r)
       \/ PatchVerdict \/ Prepare \/ Finish \/ RecordBackup \/ ApiError \/ Restart
       \/ ExecuteRestart \/ ExecuteRotateSecret \/ ExecuteRotateRollout
       \/ ExecuteFailover \/ ExecuteBackup \/ ExecuteError
       \/ ObserveBackup
       \/ UNCHANGED <<specs, ar, cache, pend, worker, available>>
  BY DEF Next, Reconcile, vars, Resync, DeliverObject, TargetChanges,
         BackupProgress, BackupLost
<1> QED
  BY <1>1, <1>2, <1>3, <1>4, <1>5, <1>6, <1>7, <1>8, <1>9, <1>10, <1>11, <1>12,
     <1>13, <1>14

(* Every request begins unstarted.                                         *)
LEMMA InitLife ==
  ASSUME "target" \notin Edits
  PROVE  Init => LifeInv
<1> SUFFICES ASSUME Init PROVE LifeInv
  OBVIOUS
<1>1. ASSUME NEW r \in Requests, NEW v \in Held(r)
      PROVE  v = Created /\ ar[r] = Created
  <2>1. ar[r] = Created /\ cache[r] = Created /\ pend[r] = <<>>
    BY DEF Init
  <2>2. {pend[r][i] : i \in 1..Len(pend[r])} = {}
    BY <2>1
  <2> QED BY <1>1, <2>1, <2>2 DEF Held
<1>2. \A r \in Requests : Unstarted(r, Created) /\ ~Started(r, Created)
  BY DEF Unstarted, Started, Created, Terminal
<1>3. Created.obs <= Created.obs
  BY DEF Created
<1>4. HeldInv
  BY <1>1, <1>2, <1>3 DEF HeldInv
<1>5. AvailableInv
  BY DEF Init, AvailableInv
<1>6. StageInv
  <2>1. PICK r \in Requests : worker = Idle(r)
    BY DEF Init
  <2> QED BY <2>1 DEF Idle, StageInv, Verdicts
<1> QED BY <1>4, <1>5, <1>6 DEF LifeInv

-----------------------------------------------------------------------------
(* Effects: which step changes which object                                *)

(* The requests whose operations change an object.                         *)
ChangedBy(o) ==
  {r \in Requests :
     /\ TargetOf[r] = o[1]
     /\ \/ o[2] = "statefulset" /\ ActionOf[r] \in {"restart", "rotate-credentials"}
        \/ o[2] = "secret" /\ ActionOf[r] = "rotate-credentials"
        \/ o[2] = "instance" /\ ActionOf[r] = "failover"}

(* The worker changes object o: a step of its operation that no version of *)
(* the object shows, unless it is a failover.                              *)
Changes(o, ready) ==
  /\ Record(o, ready)
  /\ UNCHANGED <<specs, ar, cache, pend, backup>>
  /\ worker.pc \in {"execute", "rollout"}
  /\ worker.req \in ChangedBy(o)
  /\ o[2] # "instance" => ~AlreadyRecorded(o, Len(applied[o]))
  /\ o[2] = "statefulset" /\ ActionOf[worker.req] = "rotate-credentials" =>
       worker.pc = "rollout"

(* What each step of the worker is about, and what it may read.            *)
PlaceInv ==
  /\ worker.pc = "rollout" =>
       /\ ActionOf[worker.req] = "rotate-credentials"
       /\ worker.read <= Len(applied[Workload(TargetOf[worker.req])])
  /\ worker.pc \in {"inflight", "record"} => ActionOf[worker.req] = "backup"

(* The three objects of a target are different runtime objects.            *)
LEMMA ObjectFacts ==
  ASSUME NEW t \in Targets
  PROVE  /\ Workload(t) \in RuntimeObjects /\ Workload(t)[1] = t
         /\ Workload(t)[2] = "statefulset"
         /\ Credentials(t) \in RuntimeObjects /\ Credentials(t)[1] = t
         /\ Credentials(t)[2] = "secret"
         /\ Topology(t) \in RuntimeObjects /\ Topology(t)[1] = t
         /\ Topology(t)[2] = "instance"
BY DEF Workload, Credentials, Topology, RuntimeObjects

(* What an append to the effects of one object leaves alone.               *)
LEMMA RecordGrows ==
  ASSUME TypeOK, NEW o \in RuntimeObjects, NEW ready, Record(o, ready)
  PROVE  /\ \A p \in RuntimeObjects : p # o => applied'[p] = applied[p]
         /\ Len(applied[o]) \in Nat
         /\ Len(applied'[o]) = Len(applied[o]) + 1
         /\ \A i \in 1..Len(applied[o]) : applied'[o][i] = applied[o][i]
         /\ applied'[o][Len(applied[o]) + 1] =
              [req |-> worker.req, op |-> worker.op, gen |-> worker.gen,
               ready |-> ready]
<1>1. applied \in [RuntimeObjects -> Seq(Effect)]
  BY DEF TypeOK
<1> QED BY <1>1 DEF Record

(* Effects are never taken back.                                           *)
LEMMA EffectsKept ==
  ASSUME TypeOK,
         UNCHANGED applied \/ \E o \in RuntimeObjects : \E ready : Record(o, ready)
  PROVE  \A p \in RuntimeObjects : \A i \in 1..Len(applied[p]) :
           i \in 1..Len(applied'[p]) /\ applied'[p][i] = applied[p][i]
<1>1. CASE UNCHANGED applied
  BY <1>1
<1>2. ASSUME NEW o \in RuntimeObjects, NEW ready, Record(o, ready),
             NEW p \in RuntimeObjects, NEW i \in 1..Len(applied[p])
      PROVE  i \in 1..Len(applied'[p]) /\ applied'[p][i] = applied[p][i]
  <2>1. CASE p # o
    BY <1>2, <2>1, RecordGrows
  <2>2. CASE p = o
    <3>1. Len(applied[o]) \in Nat /\ Len(applied'[o]) = Len(applied[o]) + 1
      BY <1>2, RecordGrows
    <3>2. applied'[o][i] = applied[o][i]
      BY <1>2, <2>2, RecordGrows
    <3> QED BY <2>2, <3>1, <3>2
  <2> QED BY <2>1, <2>2
<1> QED BY <1>1, <1>2

(* A step leaves every runtime object alone or changes one of them.        *)
LEMMA OneChange ==
  ASSUME TypeInv, PlaceInv, [Next]_vars
  PROVE  UNCHANGED applied \/ \E o \in RuntimeObjects : \E ready : Changes(o, ready)
<1> DEFINE r == worker.req
           t == TargetOf[worker.req]
<1>1. r \in Requests /\ t \in Targets
  BY ConstantsAssumption DEF TypeInv, TypeOK, Worker
<1>2. CASE ExecuteRestart
  <2>1. \/ UNCHANGED applied
        \/ Record(Workload(t), {}) /\ ~AlreadyRecorded(Workload(t), Len(applied[Workload(t)]))
    BY <1>2 DEF ExecuteRestart, AnnotateOperation
  <2>2. Record(Workload(t), {}) /\ ~AlreadyRecorded(Workload(t), Len(applied[Workload(t)]))
        => Changes(Workload(t), {})
    BY <1>1, <1>2, ObjectFacts DEF Changes, ChangedBy, ExecuteRestart, Executing
  <2> QED BY <1>1, <2>1, <2>2, ObjectFacts
<1>3. CASE ExecuteRotateSecret
  <2>1. \/ UNCHANGED applied
        \/ /\ Record(Credentials(t), {})
           /\ ~AlreadyRecorded(Credentials(t), Len(applied[Credentials(t)]))
    BY <1>3 DEF ExecuteRotateSecret, AnnotateOperation
  <2>2. /\ Record(Credentials(t), {})
        /\ ~AlreadyRecorded(Credentials(t), Len(applied[Credentials(t)]))
        => Changes(Credentials(t), {})
    BY <1>1, <1>3, ObjectFacts DEF Changes, ChangedBy, ExecuteRotateSecret, Executing
  <2> QED BY <1>1, <2>1, <2>2, ObjectFacts
<1>4. CASE ExecuteRotateRollout
  <2>1. \/ UNCHANGED applied
        \/ Record(Workload(t), {}) /\ ~AlreadyRecorded(Workload(t), Len(applied[Workload(t)]))
    BY <1>4 DEF ExecuteRotateRollout, AnnotateOperation
  <2>2. Record(Workload(t), {}) /\ ~AlreadyRecorded(Workload(t), Len(applied[Workload(t)]))
        => Changes(Workload(t), {})
    BY <1>1, <1>4, ObjectFacts DEF Changes, ChangedBy, ExecuteRotateRollout, PlaceInv
  <2> QED BY <1>1, <2>1, <2>2, ObjectFacts
<1>5. CASE ExecuteFailover
  <2> DEFINE ready == ReadyIn(t) \ {CandidateOf[r]}
  <2>1. UNCHANGED applied \/ Record(Topology(t), ready)
    BY <1>5 DEF ExecuteFailover
  <2>2. Record(Topology(t), ready) => Changes(Topology(t), ready)
    BY <1>1, <1>5, ObjectFacts DEF Changes, ChangedBy, ExecuteFailover, Executing
  <2> QED BY <1>1, <2>1, <2>2, ObjectFacts
<1>6. ExecuteRestart \/ ExecuteRotateSecret \/ ExecuteRotateRollout
      \/ ExecuteFailover \/ UNCHANGED applied
  BY DEF Next, Reconcile, vars, handleActionApproval, ValidateUpdate, NewGeneration,
         Deliver, Resync, Begin, DeliverObject, PatchVerdict, Prepare, ExecuteBackup,
         Finish, ObserveBackup, RecordBackup, ApiError, ExecuteError, Restart,
         TargetChanges, BackupProgress, BackupLost
<1> QED BY <1>2, <1>3, <1>4, <1>5, <1>6

(* The worker's step and what it may read stay in place.                   *)
LEMMA NextPlace == TypeInv /\ PlaceInv /\ [Next]_vars => PlaceInv'
<1> SUFFICES ASSUME TypeInv, PlaceInv, [Next]_vars PROVE PlaceInv'
  OBVIOUS
<1>t. TypeOK /\ SeenInv /\ worker \in Worker /\ worker.req \in Requests
  BY DEF TypeInv, TypeOK, Worker
<1>w. TargetOf[worker.req] \in Targets
  BY <1>t, ConstantsAssumption
<1>p. worker'.pc \notin {"rollout", "inflight", "record"} => PlaceInv'
  BY DEF PlaceInv
<1>1. ASSUME NEW r \in Requests, Begin(r) PROVE PlaceInv'
  <2>1. worker'.pc \notin {"rollout", "inflight", "record"}
    BY <1>1 DEF Begin, Idle, Branch
  <2> QED BY <1>p, <2>1
<1>2. CASE Prepare
  <2>1. \/ worker'.pc \in {"idle", "execute"}
        \/ /\ worker'.pc = "inflight" /\ worker'.req = worker.req
           /\ ActionOf[worker.req] = "backup"
    BY <1>2, <1>t DEF Prepare, Worker, Idle
  <2> QED BY <2>1 DEF PlaceInv
<1>3. CASE ExecuteRotateSecret
  <2> DEFINE o == Workload(TargetOf[worker.req])
  <2>1. \/ worker'.pc = "finish"
        \/ /\ worker'.pc = "rollout" /\ worker'.req = worker.req
           /\ worker'.read = seen[o]
           /\ ActionOf[worker.req] = "rotate-credentials"
    BY <1>3, <1>t DEF ExecuteRotateSecret, AnnotateOperation, Finishing, Worker,
                     Executing
  <2>2. o \in RuntimeObjects /\ o # Credentials(TargetOf[worker.req])
    BY <1>w, ObjectFacts
  <2>3. UNCHANGED applied \/ Record(Credentials(TargetOf[worker.req]), {})
    BY <1>3 DEF ExecuteRotateSecret, AnnotateOperation
  <2>4. applied'[o] = applied[o]
    <3>1. CASE UNCHANGED applied
      BY <3>1
    <3>2. CASE Record(Credentials(TargetOf[worker.req]), {})
      <4>1. Credentials(TargetOf[worker.req]) \in RuntimeObjects
        BY <1>w, ObjectFacts
      <4> HIDE DEF o
      <4> QED BY <1>t, <2>2, <3>2, <4>1, RecordGrows
    <3> QED BY <2>3, <3>1, <3>2
  <2>5. seen[o] <= Len(applied[o])
    BY <1>t, <2>2 DEF SeenInv
  <2> QED BY <2>1, <2>4, <2>5 DEF PlaceInv
<1>4. CASE ExecuteRestart \/ ExecuteRotateRollout \/ ExecuteFailover
           \/ ExecuteBackup \/ ExecuteError
  <2>1. worker'.pc = "finish"
    BY <1>4, <1>t DEF ExecuteRestart, ExecuteRotateRollout, ExecuteFailover,
         ExecuteBackup, ExecuteError, AnnotateOperation, Finishing, Worker
  <2> QED BY <1>p, <2>1
<1>5. CASE ObserveBackup
  <2>1. /\ worker.pc = "inflight" /\ worker'.pc = "record"
        /\ worker'.req = worker.req
    BY <1>5, <1>t DEF ObserveBackup, Worker
  <2> QED BY <2>1 DEF PlaceInv
<1>6. CASE PatchVerdict \/ Finish \/ RecordBackup \/ ApiError \/ Restart
  <2>1. Done
    BY <1>6 DEF PatchVerdict, Finish, RecordBackup, ApiError, Restart
  <2>2. worker'.pc = "idle"
    BY <2>1 DEF Done, Idle
  <2> QED BY <1>p, <2>2
<1>7. CASE UNCHANGED <<worker, applied>>
  BY <1>7 DEF PlaceInv
<1>8. \/ \E r \in Requests : Begin(r)
      \/ Prepare \/ ExecuteRotateSecret \/ ExecuteRestart \/ ExecuteRotateRollout
      \/ ExecuteFailover \/ ExecuteBackup \/ ExecuteError \/ ObserveBackup
      \/ PatchVerdict \/ Finish \/ RecordBackup \/ ApiError \/ Restart
      \/ UNCHANGED <<worker, applied>>
  BY DEF Next, Reconcile, vars, handleActionApproval, ValidateUpdate, NewGeneration,
         Deliver, Resync, DeliverObject, TargetChanges, BackupProgress, BackupLost
<1> QED BY <1>1, <1>2, <1>3, <1>4, <1>5, <1>6, <1>7, <1>8

(* Nothing is in progress at first.                                        *)
LEMMA InitPlace == Init => PlaceInv
<1> SUFFICES ASSUME Init PROVE PlaceInv
  OBVIOUS
<1>1. PICK r \in Requests : worker = Idle(r)
  BY DEF Init
<1> QED BY <1>1 DEF Idle, PlaceInv

-----------------------------------------------------------------------------
(* Every effect is that of the one operation its request has               *)

OperationInv ==
  \A o \in RuntimeObjects : \A i \in 1..Len(applied[o]) :
    LET e == applied[o][i]
    IN  /\ e.req \in ChangedBy(o)
        /\ Started(e.req, ar[e.req])
        /\ e.op = ar[e.req].gen
        /\ e.gen = ar[e.req].gen

(* A request that stays started keeps its generation.                      *)
LEMMA GenerationKept ==
  ASSUME StaysStarted, NEW r \in Requests, Started(r, ar[r])
  PROVE  /\ Started(r, ar[r])'
         /\ ar'[r].gen = ar[r].gen
         /\ ar'[r].obs = ar[r].obs
BY DEF StaysStarted, Started

(* Every step preserves what is known of the effects.                      *)
LEMMA NextOperation ==
  ASSUME TypeInv, LifeInv, PlaceInv, OperationInv, StaysStarted, [Next]_vars
  PROVE  OperationInv'
<1>t. TypeOK /\ worker.req \in Requests
  BY DEF TypeInv, TypeOK, Worker
<1>1. ASSUME NEW o \in RuntimeObjects, NEW i \in 1..Len(applied[o]),
             NEW e, e = applied[o][i]
      PROVE  /\ e.req \in ChangedBy(o)
             /\ Started(e.req, ar[e.req])'
             /\ e.op = ar'[e.req].gen
             /\ e.gen = ar'[e.req].gen
  <2>1. /\ e.req \in ChangedBy(o)
        /\ Started(e.req, ar[e.req])
        /\ e.op = ar[e.req].gen
        /\ e.gen = ar[e.req].gen
    BY <1>1 DEF OperationInv
  <2>2. e.req \in Requests
    BY <2>1 DEF ChangedBy
  <2> QED BY <2>1, <2>2, GenerationKept
<1>2. CASE UNCHANGED applied
  BY <1>1, <1>2 DEF OperationInv, ChangedBy
<1>3. ASSUME NEW o \in RuntimeObjects, NEW ready, Changes(o, ready)
      PROVE  OperationInv'
  <2>1. /\ Record(o, ready) /\ worker.pc \in {"execute", "rollout"}
        /\ worker.req \in ChangedBy(o)
    BY <1>3 DEF Changes
  <2>2. /\ Started(worker.req, ar[worker.req])
        /\ worker.op = ar[worker.req].gen /\ worker.gen = ar[worker.req].gen
    BY <2>1 DEF LifeInv, StageInv
  <2>3. specs' = specs /\ ar' = ar
    BY <1>3 DEF Changes
  <2>4. ASSUME NEW p \in RuntimeObjects, NEW i \in 1..Len(applied'[p]),
               NEW e, e = applied'[p][i]
        PROVE  /\ e.req \in ChangedBy(p)
               /\ Started(e.req, ar[e.req])'
               /\ e.op = ar'[e.req].gen
               /\ e.gen = ar'[e.req].gen
    <3>1. CASE p # o
      <4>1. applied'[p] = applied[p]
        BY <1>t, <2>1, <3>1, RecordGrows
      <4> QED BY <1>1, <2>4, <4>1
    <3>2. CASE p = o /\ i \in 1..Len(applied[o])
      <4>1. applied'[p][i] = applied[o][i]
        BY <1>t, <2>1, <3>2, RecordGrows
      <4> QED BY <1>1, <2>4, <3>2, <4>1
    <3>3. CASE p = o /\ i = Len(applied[o]) + 1
      <4>1. e = [req |-> worker.req, op |-> worker.op, gen |-> worker.gen,
                 ready |-> ready]
        BY <1>t, <2>1, <2>4, <3>3, RecordGrows
      <4>2. e.req = worker.req /\ e.op = worker.op /\ e.gen = worker.gen
        BY <4>1
      <4>3. Started(e.req, ar[e.req])'
        BY <2>2, <2>3, <4>2, FrameStarted
      <4> QED BY <2>1, <2>2, <2>3, <3>3, <4>2, <4>3
    <3>4. p = o => i \in 1..Len(applied[o]) \/ i = Len(applied[o]) + 1
      <4>1. Len(applied[o]) \in Nat /\ Len(applied'[o]) = Len(applied[o]) + 1
        BY <1>t, <2>1, RecordGrows
      <4> QED BY <4>1
    <3> QED BY <3>1, <3>2, <3>3, <3>4
  <2> QED BY <2>4 DEF OperationInv, ChangedBy
<1> QED BY <1>2, <1>3, OneChange

(* No two requests restart, or rotate the credentials of, one target.      *)
OneRequestEach ==
  \A r, q \in Requests :
    /\ TargetOf[r] = TargetOf[q]
    /\ ActionOf[r] = ActionOf[q]
    /\ ActionOf[r] \in {"restart", "rotate-credentials"}
    => r = q

(* An object that does not show the worker's operation was not changed by  *)
(* it, since nobody else uses the annotation.                              *)
LEMMA NotRecorded ==
  ASSUME OneRequestEach, TypeInv, OperationInv, AtMostOnce,
         NEW t \in Targets, NEW o \in {Workload(t), Credentials(t)},
         worker.req \in ChangedBy(o), ~AlreadyRecorded(o, Len(applied[o]))
  PROVE  \A i \in 1..Len(applied[o]) :
           ~(applied[o][i].req = worker.req /\ applied[o][i].op = worker.op)
<1> SUFFICES ASSUME NEW i \in 1..Len(applied[o]),
                    applied[o][i].req = worker.req, applied[o][i].op = worker.op
             PROVE  FALSE
  OBVIOUS
<1>o. o \in RuntimeObjects /\ o[2] \in {"statefulset", "secret"}
  BY ObjectFacts
<1>n. Len(applied[o]) \in Nat
  BY <1>o DEF TypeInv, TypeOK
<1>1. PICK j \in (i + 1)..Len(applied[o]) :
        ActionOf[applied[o][j].req] = ActionOf[worker.req]
  BY DEF AlreadyRecorded
<1>2. j \in 1..Len(applied[o]) /\ j # i
  BY <1>1, <1>n
<1>3. applied[o][j].req \in ChangedBy(o)
  BY <1>o, <1>2 DEF OperationInv
<1>4. applied[o][j].req = worker.req
  BY <1>o, <1>1, <1>3 DEF ChangedBy, OneRequestEach
<1>5. applied[o][j].op = applied[o][i].op
  BY <1>o, <1>2, <1>4 DEF OperationInv
<1> QED BY <1>2, <1>4, <1>5 DEF AtMostOnce

(* No step carries out what was carried out before.                        *)
LEMMA NextOnce ==
  ASSUME OneRequestEach, TypeInv, PlaceInv, OperationInv, AtMostOnce, [Next]_vars
  PROVE  AtMostOnce'
<1>t. TypeOK
  BY DEF TypeInv
<1>1. CASE UNCHANGED applied
  BY <1>1 DEF AtMostOnce
<1>2. ASSUME NEW p \in RuntimeObjects, NEW ready, Changes(p, ready)
      PROVE  AtMostOnce'
  <2>1. Record(p, ready) /\ worker.req \in ChangedBy(p)
    BY <1>2 DEF Changes
  <2> SUFFICES ASSUME NEW t \in Targets, NEW o \in {Workload(t), Credentials(t)},
                      NEW i \in 1..Len(applied'[o]), NEW j \in 1..Len(applied'[o]),
                      applied'[o][i].req = applied'[o][j].req,
                      applied'[o][i].op = applied'[o][j].op
               PROVE  i = j
    BY DEF AtMostOnce
  <2>2. o \in RuntimeObjects /\ o[2] # "instance"
    BY ObjectFacts
  <2>3. CASE o # p
    <3>1. applied'[o] = applied[o]
      BY <1>t, <2>1, <2>2, <2>3, RecordGrows
    <3> QED BY <3>1 DEF AtMostOnce
  <2>4. CASE o = p
    <3> DEFINE n == Len(applied[o])
    <3>1. n \in Nat /\ Len(applied'[o]) = n + 1
      BY <1>t, <2>1, <2>4, RecordGrows
    <3>2. \A k \in 1..n : applied'[o][k] = applied[o][k]
      BY <1>t, <2>1, <2>4, RecordGrows
    <3>3. applied'[o][n + 1].req = worker.req /\ applied'[o][n + 1].op = worker.op
      <4>1. applied'[o][n + 1] = [req |-> worker.req, op |-> worker.op,
                                  gen |-> worker.gen, ready |-> ready]
        BY <1>t, <2>1, <2>4, RecordGrows
      <4> QED BY <4>1
    <3>4. ~AlreadyRecorded(o, n)
      BY <1>2, <2>2, <2>4 DEF Changes
    <3>5. \A k \in 1..n :
            ~(applied[o][k].req = worker.req /\ applied[o][k].op = worker.op)
      BY <2>1, <2>4, <3>4, NotRecorded
    <3>6. i \in 1..n \/ i = n + 1
      BY <3>1
    <3>7. j \in 1..n \/ j = n + 1
      BY <3>1
    <3>8. CASE i \in 1..n /\ j \in 1..n
      <4>1. /\ applied[o][i].req = applied[o][j].req
            /\ applied[o][i].op = applied[o][j].op
        BY <3>2, <3>8
      <4> QED BY <3>8, <4>1 DEF AtMostOnce
    <3>9. CASE i \in 1..n /\ j = n + 1
      BY <3>2, <3>3, <3>5, <3>9
    <3>10. CASE i = n + 1 /\ j \in 1..n
      BY <3>2, <3>3, <3>5, <3>10
    <3> QED BY <3>6, <3>7, <3>8, <3>9, <3>10
  <2> QED BY <2>3, <2>4
<1> QED BY <1>1, <1>2, OneChange

(* No object has been changed at first.                                    *)
LEMMA InitOperation == Init => OperationInv /\ AtMostOnce
<1> SUFFICES ASSUME Init PROVE OperationInv /\ AtMostOnce
  OBVIOUS
<1>1. \A o \in RuntimeObjects : 1..Len(applied[o]) = {}
  BY DEF Init
<1>2. OperationInv
  BY <1>1 DEF OperationInv
<1>3. AtMostOnce
  BY <1>1, ObjectFacts DEF AtMostOnce
<1> QED BY <1>2, <1>3

(* The invariants behind the theorems below hold along every behaviour.    *)
LEMMA LifeHolds ==
  ASSUME "spec" \notin Edits, "target" \notin Edits
  PROVE  Spec => [](TypeInv /\ GenInv /\ LifeInv /\ PlaceInv /\ OperationInv)
                  /\ [][StaysStarted]_vars
<1>1. Spec => []TypeInv
  BY InitType, NextType, PTL DEF Spec
<1>2. Spec => []GenInv
  <2>1. TypeInv /\ GenInv /\ [Next]_vars => GenInv'
    BY NextGen
  <2> QED BY <1>1, <2>1, InitGen, PTL DEF Spec
<1>3. Spec => []ApprovalInv
  <2>1. TypeInv /\ GenInv /\ ApprovalInv /\ [Next]_vars => ApprovalInv'
    BY NextApproval
  <2> QED BY <1>1, <1>2, <2>1, InitApproval, PTL DEF Spec
<1>4. Init => LifeInv
  BY InitLife
<1>5. TypeInv /\ GenInv /\ ApprovalInv /\ LifeInv /\ [Next]_vars =>
        LifeInv' /\ StaysStarted
  BY NextLife
<1>6. Spec => []LifeInv
  BY <1>1, <1>2, <1>3, <1>4, <1>5, PTL DEF Spec
<1>7. Spec => []PlaceInv
  BY <1>1, InitPlace, NextPlace, PTL DEF Spec
<1>8. /\ TypeInv /\ GenInv /\ ApprovalInv /\ LifeInv /\ PlaceInv /\ OperationInv
      /\ [Next]_vars
      => OperationInv'
  BY <1>5, NextOperation
<1>9. Init => OperationInv
  BY InitOperation
<1>10. Spec => []OperationInv
  BY <1>1, <1>2, <1>3, <1>6, <1>7, <1>8, <1>9, PTL DEF Spec
<1>11. Spec => [][StaysStarted]_vars
  BY <1>1, <1>2, <1>3, <1>6, <1>5, PTL DEF Spec
<1> QED BY <1>1, <1>2, <1>6, <1>7, <1>10, <1>11, PTL

(* Write-ahead, for any number of requests and faults: while only reviewers*)
(* change specs and targets resolve, an effect's operation id is not empty *)
(* and was in the status before, and it stays there.                       *)
THEOREM IntentBeforeEffect ==
  ASSUME "spec" \notin Edits, "target" \notin Edits
  PROVE  Spec => []IntentPersisted
<1>1. TypeInv /\ GenInv /\ OperationInv => IntentPersisted
  <2> SUFFICES ASSUME TypeInv, GenInv, OperationInv, NEW o \in RuntimeObjects,
                      NEW i \in 1..Len(applied[o])
               PROVE  applied[o][i].op \in 1..ar[applied[o][i].req].obs
    BY DEF IntentPersisted
  <2> DEFINE r == applied[o][i].req
  <2>1. r \in Requests /\ Started(r, ar[r]) /\ applied[o][i].op = ar[r].gen
    BY DEF OperationInv, ChangedBy
  <2>2. ar[r].gen \in Nat \ {0} /\ ar[r].obs = ar[r].gen
    BY <2>1, StartedFacts DEF TypeInv, Started
  <2> QED BY <2>1, <2>2
<1> QED BY <1>1, LifeHolds, PTL

(* At most once, for any number of requests, any lag of the cache and any  *)
(* number of restarts and failed calls: an operation restarts a workload   *)
(* or replaces a password once, however often it is replayed, when no two  *)
(* requests share an annotation, only reviewers change specs and targets   *)
(* resolve. (Two restarts of one target do share it: see the README.)      *)
THEOREM OperationsHappenOnce ==
  ASSUME "spec" \notin Edits, "target" \notin Edits, OneRequestEach
  PROVE  Spec => []AtMostOnce
<1>1. TypeInv /\ PlaceInv /\ OperationInv /\ AtMostOnce /\ [Next]_vars => AtMostOnce'
  BY NextOnce
<1>2. Init => AtMostOnce
  BY InitOperation
<1> QED BY <1>1, <1>2, LifeHolds, PTL DEF Spec

-----------------------------------------------------------------------------
(* Outcomes: what Succeeded means                                          *)

(* What has been done when the worker is about to say so, and once the     *)
(* status says so.                                                         *)
OutcomeInv ==
  /\ worker.pc = "rollout" =>
       Recorded(Credentials(TargetOf[worker.req]), worker.req, worker.gen)
  /\ worker.pc \in {"finish", "record"} /\ worker.result = "Succeeded" =>
       TookEffect(worker.req, ar[worker.req].obs)
  /\ \A r \in Requests :
       ar[r].phase = "Succeeded" => TookEffect(r, ar[r].obs)

(* TookEffect, action by action.                                           *)
LEMMA TookFacts ==
  ASSUME NEW r \in Requests, NEW g
  PROVE  /\ ActionOf[r] = "restart" =>
              (TookEffect(r, g) <=> Recorded(Workload(TargetOf[r]), r, g))
         /\ ActionOf[r] = "rotate-credentials" =>
              (TookEffect(r, g) <=> /\ Recorded(Workload(TargetOf[r]), r, g)
                                    /\ Recorded(Credentials(TargetOf[r]), r, g))
         /\ ActionOf[r] = "failover" =>
              (TookEffect(r, g) <=>
                 \E i \in 1..Len(applied[Topology(TargetOf[r])]) :
                   CandidateOf[applied[Topology(TargetOf[r])][i].req] = CandidateOf[r])
         /\ ActionOf[r] = "backup" => (TookEffect(r, g) <=> backup[r] = "completed")
         /\ ActionOf[r] \in Actions
         /\ TargetOf[r] \in Targets
<1>1. ActionOf[r] \in Actions /\ TargetOf[r] \in Targets
  BY ConstantsAssumption
<1> QED BY <1>1 DEF TookEffect

(* What took effect stays in effect.                                       *)
LEMMA TookKept ==
  ASSUME TypeInv, PlaceInv, [Next]_vars, NEW r \in Requests, NEW g
  PROVE  /\ \A o \in RuntimeObjects : Recorded(o, r, g) => Recorded(o, r, g)'
         /\ TookEffect(r, g) => TookEffect(r, g)'
<1>1. \A p \in RuntimeObjects : \A i \in 1..Len(applied[p]) :
        i \in 1..Len(applied'[p]) /\ applied'[p][i] = applied[p][i]
  <2>1. UNCHANGED applied \/ \E o \in RuntimeObjects : \E ready : Record(o, ready)
    BY OneChange DEF Changes
  <2> QED BY <2>1, EffectsKept DEF TypeInv
<1>2. \A o \in RuntimeObjects : Recorded(o, r, g) => Recorded(o, r, g)'
  BY <1>1 DEF Recorded
<1>3. backup[r] = "completed" => backup'[r] = "completed"
  <2>1. backup \in [Requests -> BackupPhases]
    BY DEF TypeInv, TypeOK
  <2>2. CASE UNCHANGED backup
    BY <2>2
  <2>3. CASE ExecuteBackup
    BY <2>1, <2>3 DEF ExecuteBackup
  <2>4. ASSUME NEW q \in Requests, BackupProgress(q) \/ BackupLost(q)
        PROVE  backup[r] = "completed" => backup'[r] = "completed"
    BY <2>1, <2>4 DEF BackupProgress, BackupLost
  <2>5. UNCHANGED backup \/ ExecuteBackup
        \/ \E q \in Requests : BackupProgress(q) \/ BackupLost(q)
    BY DEF Next, Reconcile, vars, handleActionApproval, ValidateUpdate,
           NewGeneration, Deliver, Resync, Begin, DeliverObject, PatchVerdict,
           Prepare, ExecuteRestart, ExecuteRotateSecret, ExecuteRotateRollout,
           ExecuteFailover, Finish, ObserveBackup, RecordBackup, ApiError,
           ExecuteError, Restart, TargetChanges
  <2> QED BY <2>2, <2>3, <2>4, <2>5
<1>4. TookEffect(r, g) => TookEffect(r, g)'
  <2>1. TargetOf[r] \in Targets /\ ActionOf[r] \in Actions
    BY ConstantsAssumption
  <2>2. /\ Workload(TargetOf[r]) \in RuntimeObjects
        /\ Credentials(TargetOf[r]) \in RuntimeObjects
        /\ Topology(TargetOf[r]) \in RuntimeObjects
    BY <2>1, ObjectFacts
  <2>3. CASE ActionOf[r] = "restart"
    BY <1>2, <2>2, <2>3 DEF TookEffect
  <2>4. CASE ActionOf[r] = "rotate-credentials"
    BY <1>2, <2>2, <2>4 DEF TookEffect
  <2>5. CASE ActionOf[r] = "failover"
    BY <1>1, <2>2, <2>5 DEF TookEffect
  <2>6. CASE ActionOf[r] = "backup"
    BY <1>3, <2>6 DEF TookEffect
  <2> QED BY <2>1, <2>3, <2>4, <2>5, <2>6 DEF Actions
<1> QED BY <1>2, <1>4

(* A worker that finds its operation on an object finds it recorded.       *)
LEMMA FoundIsRecorded ==
  ASSUME TypeInv, LifeInv, OperationInv, worker.pc \in {"execute", "rollout"},
         NEW o \in RuntimeObjects, NEW v \in Nat, v <= Len(applied[o]),
         AlreadyRecorded(o, v)
  PROVE  Recorded(o, worker.req, worker.gen)
<1>1. PICK i \in 1..v : applied[o][i].req = worker.req
  BY DEF AlreadyRecorded
<1>2. i \in 1..Len(applied[o])
  <2>1. Len(applied[o]) \in Nat
    BY DEF TypeInv, TypeOK
  <2> QED BY <2>1
<1>3. applied[o][i].gen = ar[worker.req].gen /\ worker.gen = ar[worker.req].gen
  BY <1>1, <1>2 DEF OperationInv, LifeInv, StageInv
<1> QED BY <1>1, <1>2, <1>3 DEF Recorded

(* AnnotateOperation on an object either fails or leaves it recorded.      *)
LEMMA AnnotatedIsRecorded ==
  ASSUME TypeInv, LifeInv, OperationInv, worker.pc \in {"execute", "rollout"},
         NEW o \in RuntimeObjects, NEW v \in Nat, v <= Len(applied[o]),
         NEW next, AnnotateOperation(o, v, next), NEW r, NEW g,
         r = worker.req, g = worker.gen
  PROVE  worker' = Finishing("Failed") \/ (worker' = next /\ Recorded(o, r, g)')
<1>1. CASE AlreadyRecorded(o, v) /\ worker' = next /\ UNCHANGED applied
  <2>1. Recorded(o, r, g)
    BY <1>1, FoundIsRecorded
  <2> QED BY <1>1, <2>1 DEF Recorded
<1>2. CASE Record(o, {}) /\ worker' = next
  <2>1. /\ Len(applied'[o]) = Len(applied[o]) + 1 /\ Len(applied[o]) \in Nat
        /\ applied'[o][Len(applied[o]) + 1] =
             [req |-> worker.req, op |-> worker.op, gen |-> worker.gen, ready |-> {}]
    BY <1>2, RecordGrows DEF TypeInv
  <2>2. Len(applied[o]) + 1 \in 1..Len(applied'[o])
    BY <2>1
  <2>3. /\ applied'[o][Len(applied[o]) + 1].req = r
        /\ applied'[o][Len(applied[o]) + 1].gen = g
    BY <2>1
  <2> QED BY <1>2, <2>2, <2>3 DEF Recorded
<1> QED BY <1>1, <1>2 DEF AnnotateOperation

(* Either the life of every request is in order, or no request restarts or *)
(* rotates anything.                                                       *)
InOrder ==
  \/ LifeInv /\ OperationInv /\ StaysStarted
  \/ \A r \in Requests : ActionOf[r] \in {"failover", "backup"}

(* Only the end of an execution makes a status say Succeeded.              *)
LEMMA SucceededFrom ==
  ASSUME TypeInv, [Next]_vars, NEW r \in Requests, ar'[r].phase = "Succeeded"
  PROVE  \/ ar[r].phase = "Succeeded"
         \/ /\ r = worker.req /\ worker.pc \in {"finish", "record"}
            /\ worker.result = "Succeeded"
<1>t. /\ ar \in [Requests -> Object]
      /\ cache \in [Requests -> Object]
      /\ worker.req \in Requests /\ cache[worker.req] \in Object
  BY DEF TypeInv, TypeOK, Worker
<1>1. ASSUME NEW q \in Requests, NEW new, Store(q, new)
      PROVE  ar'[r] = IF q = r THEN new ELSE ar[r]
  BY <1>t, <1>1 DEF Store
<1>2. ASSUME NEW q \in Requests, NEW approval, NewGeneration(q, approval)
      PROVE  ar[r].phase = "Succeeded"
  <2>1. ar[r] \in Object
    BY <1>t
  <2>2. ar'[r] = IF q = r THEN [ar[q] EXCEPT !.gen = @ + 1] ELSE ar[r]
    BY <1>1, <1>2 DEF NewGeneration
  <2> QED BY <2>1, <2>2 DEF Object
<1>3. ASSUME NEW after, patchActionRequestStatus(worker.req, after)
      PROVE  \/ ar[r].phase = "Succeeded"
             \/ /\ r = worker.req /\ after.phase = "Succeeded"
                /\ after.phase # cache[r].phase
  <2>1. ar'[r] = IF worker.req = r THEN Merge(cache[r], after, ar[r]) ELSE ar[r]
    BY <1>t, <1>1, <1>3 DEF patchActionRequestStatus
  <2> QED BY <2>1 DEF Merge
<1>4. CASE PatchVerdict
  <2>1. Verdict(worker.pc, cache[worker.req]).phase # "Succeeded"
    BY <1>t DEF Verdict, Object
  <2> QED BY <1>3, <1>4, <2>1 DEF PatchVerdict
<1>5. CASE Prepare
  <2>1. Prepared(cache[worker.req]).phase \in {cache[worker.req].phase, "Running"}
    BY <1>t DEF Prepared, Object
  <2> QED BY <1>3, <1>5, <2>1 DEF Prepare
<1>6. CASE Finish \/ RecordBackup
  <2>1. Executed(cache[worker.req], worker.result).phase = worker.result
    BY <1>t DEF Executed, Object
  <2>2. worker.pc \in {"finish", "record"}
    BY <1>6 DEF Finish, RecordBackup
  <2>3. ar' = ar \/ patchActionRequestStatus(worker.req,
                     Executed(cache[worker.req], worker.result))
    BY <1>6 DEF Finish, RecordBackup
  <2> QED BY <1>3, <2>1, <2>2, <2>3
<1>7. CASE ar' = ar
  BY <1>7
<1>8. \/ \E q \in Requests : \E approval : NewGeneration(q, approval)
      \/ PatchVerdict \/ Prepare \/ Finish \/ RecordBackup \/ ar' = ar
  BY DEF Next, Reconcile, vars, handleActionApproval, ValidateUpdate, Deliver,
         Resync, Begin, DeliverObject, ExecuteRestart, ExecuteRotateSecret,
         ExecuteRotateRollout, ExecuteFailover, ExecuteBackup, ObserveBackup,
         ApiError, ExecuteError, Restart, TargetChanges, BackupProgress, BackupLost
<1> QED BY <1>2, <1>4, <1>5, <1>6, <1>7, <1>8

(* Where the status may say Succeeded, what took effect for the observed   *)
(* generation took effect for the one observed next.                       *)
LEMMA OutcomeKept ==
  ASSUME TypeInv, GenInv, PlaceInv, InOrder, [Next]_vars, NEW r \in Requests,
         TookEffect(r, ar[r].obs),
         \/ ar[r].phase = "Succeeded"
         \/ r = worker.req /\ worker.pc \in {"finish", "record"}
  PROVE  TookEffect(r, ar[r].obs)'
<1>1. TookEffect(r, ar'[r].obs)
  <2>1. CASE LifeInv /\ OperationInv /\ StaysStarted
    <3>1. Started(r, ar[r])
      BY <2>1 DEF LifeInv, HeldInv, Held, StageInv, Unstarted
    <3> QED BY <2>1, <3>1, GenerationKept
  <2>2. CASE \A q \in Requests : ActionOf[q] \in {"failover", "backup"}
    <3>1. CASE ActionOf[r] = "failover"
      BY <3>1, TookFacts
    <3>2. CASE ActionOf[r] = "backup"
      BY <3>2, TookFacts
    <3> QED BY <2>2, <3>1, <3>2
  <2> QED BY <2>1, <2>2 DEF InOrder
<1>2. \A h : TookEffect(r, h) => TookEffect(r, h)'
  BY TookKept
<1>3. ASSUME NEW h, h = ar'[r].obs PROVE TookEffect(r, ar[r].obs)' <=> TookEffect(r, h)'
  BY <1>3 DEF TookEffect, Recorded
<1> QED BY <1>1, <1>2, <1>3

(* Every step preserves the outcomes.                                      *)
LEMMA NextOutcome ==
  ASSUME TypeInv, GenInv, PlaceInv, InOrder, OutcomeInv, [Next]_vars
  PROVE  OutcomeInv'
<1>t. /\ TypeOK /\ SeenInv /\ worker \in Worker /\ worker.req \in Requests
      /\ seen \in [RuntimeObjects -> Nat]
  BY DEF TypeInv, TypeOK, Worker
<1>w. TargetOf[worker.req] \in Targets
  BY <1>t, ConstantsAssumption
<1> PICK r \in Requests : r = worker.req
  BY <1>t
<1>o. /\ Workload(TargetOf[r]) \in RuntimeObjects
      /\ Credentials(TargetOf[r]) \in RuntimeObjects
      /\ Topology(TargetOf[r]) \in RuntimeObjects
  BY <1>w, ObjectFacts
<1>s. \A q \in Requests : ar'[q].phase = "Succeeded" => TookEffect(q, ar[q].obs)'
  <2> SUFFICES ASSUME NEW q \in Requests, ar'[q].phase = "Succeeded"
               PROVE  TookEffect(q, ar[q].obs)'
    OBVIOUS
  <2>1. CASE ar[q].phase = "Succeeded"
    BY <2>1, OutcomeKept DEF OutcomeInv
  <2>2. CASE /\ q = worker.req /\ worker.pc \in {"finish", "record"}
             /\ worker.result = "Succeeded"
    BY <2>2, OutcomeKept DEF OutcomeInv
  <2> QED BY <2>1, <2>2, SucceededFrom
<1>v. /\ worker'.pc = "rollout" =>
           Recorded(Credentials(TargetOf[worker.req]), worker.req, worker.gen)'
      /\ worker'.pc \in {"finish", "record"} /\ worker'.result = "Succeeded" =>
           TookEffect(worker.req, ar[worker.req].obs)'
      => OutcomeInv'
  BY <1>s DEF OutcomeInv
<1>i. worker'.pc \notin {"rollout", "finish", "record"} => OutcomeInv'
  BY <1>v
<1>f. worker'.pc = "finish" /\ worker'.result = "Failed" => OutcomeInv'
  BY <1>v
<1>e. worker'.req = r =>
        (TookEffect(worker.req, ar[worker.req].obs)' <=> TookEffect(r, ar[r].obs)')
  BY DEF TookEffect, Recorded
<1>g. /\ Finishing("Failed").pc = "finish" /\ Finishing("Failed").result = "Failed"
      /\ Finishing("Succeeded").pc = "finish" /\ Finishing("Succeeded").req = r
  BY <1>t DEF Finishing, Worker
<1>1. CASE UNCHANGED worker
  <2>1. CASE worker.pc = "rollout"
    <3> PICK g : g = worker.gen
      OBVIOUS
    <3>1. Recorded(Credentials(TargetOf[r]), r, g)'
      BY <1>o, <2>1, TookKept DEF OutcomeInv
    <3> QED BY <1>1, <1>v, <2>1, <3>1 DEF Recorded
  <2>2. CASE worker.pc \in {"finish", "record"} /\ worker.result = "Succeeded"
    <3>1. TookEffect(r, ar[r].obs)'
      BY <2>2, OutcomeKept DEF OutcomeInv
    <3> QED BY <1>1, <1>e, <1>v, <2>2, <3>1
  <2> QED BY <1>1, <1>v, <2>1, <2>2
<1>2. CASE ExecuteRestart
  <2> PICK g : g = worker.gen
    OBVIOUS
  <2> DEFINE o == Workload(TargetOf[r])
  <2>1. ActionOf[r] = "restart" /\ worker.pc = "execute" /\ ar' = ar
    BY <1>2 DEF ExecuteRestart, Executing
  <2>2. LifeInv /\ OperationInv
    BY <2>1 DEF InOrder
  <2>3. seen[o] \in Nat /\ seen[o] <= Len(applied[o])
    BY <1>t, <1>o DEF SeenInv
  <2>4. AnnotateOperation(o, seen[o], Finishing("Succeeded"))
    BY <1>2 DEF ExecuteRestart
  <2>5. \/ worker' = Finishing("Failed")
        \/ worker' = Finishing("Succeeded") /\ Recorded(o, r, g)'
    BY <1>o, <2>1, <2>2, <2>3, <2>4, AnnotatedIsRecorded
  <2>6. g = ar[r].obs
    BY <2>1, <2>2 DEF LifeInv, StageInv, Started
  <2>7. Recorded(o, r, g)' => TookEffect(r, ar[r].obs)'
    BY <2>1, <2>6 DEF TookEffect, Recorded
  <2> QED BY <1>e, <1>f, <1>g, <1>v, <2>5, <2>7
<1>3. CASE ExecuteRotateSecret
  <2> PICK g : g = worker.gen
    OBVIOUS
  <2> DEFINE o == Credentials(TargetOf[r])
             next == [worker EXCEPT !.pc = "rollout",
                                    !.read = seen[Workload(TargetOf[r])]]
  <2>1. ActionOf[r] = "rotate-credentials" /\ worker.pc = "execute"
    BY <1>3 DEF ExecuteRotateSecret, Executing
  <2>2. LifeInv /\ OperationInv
    BY <2>1 DEF InOrder
  <2>3. seen[o] \in Nat /\ seen[o] <= Len(applied[o])
    BY <1>t, <1>o DEF SeenInv
  <2>4. AnnotateOperation(o, seen[o], next)
    BY <1>3 DEF ExecuteRotateSecret
  <2>5. \/ worker' = Finishing("Failed")
        \/ worker' = next /\ Recorded(o, r, g)'
    <3> HIDE DEF next
    <3> QED BY <1>o, <2>1, <2>2, <2>3, <2>4, AnnotatedIsRecorded
  <2>6. next.pc = "rollout" /\ next.req = r /\ next.gen = g
    BY <1>t DEF Worker
  <2>7. worker' = next /\ Recorded(o, r, g)' => OutcomeInv'
    <3> HIDE DEF next
    <3> QED BY <1>v, <2>6 DEF Recorded
  <2> QED BY <1>f, <1>g, <2>5, <2>7
<1>4. CASE ExecuteRotateRollout
  <2> PICK g : g = worker.gen
    OBVIOUS
  <2> DEFINE o == Workload(TargetOf[r])
  <2>1. /\ ActionOf[r] = "rotate-credentials" /\ worker.pc = "rollout" /\ ar' = ar
        /\ worker.read \in Nat /\ worker.read <= Len(applied[o])
    BY <1>t, <1>4 DEF ExecuteRotateRollout, PlaceInv, Worker
  <2>2. LifeInv /\ OperationInv
    BY <2>1 DEF InOrder
  <2>3. AnnotateOperation(o, worker.read, Finishing("Succeeded"))
    BY <1>4 DEF ExecuteRotateRollout
  <2>4. \/ worker' = Finishing("Failed")
        \/ worker' = Finishing("Succeeded") /\ Recorded(o, r, g)'
    BY <1>o, <2>1, <2>2, <2>3, AnnotatedIsRecorded
  <2>5. Recorded(Credentials(TargetOf[r]), r, g)'
    BY <1>o, <2>1, TookKept DEF OutcomeInv
  <2>6. g = ar[r].obs
    BY <2>1, <2>2 DEF LifeInv, StageInv, Started
  <2>7. Recorded(o, r, g)' => TookEffect(r, ar[r].obs)'
    BY <2>1, <2>5, <2>6 DEF TookEffect, Recorded
  <2> QED BY <1>e, <1>f, <1>g, <1>v, <2>4, <2>7
<1>5. CASE ExecuteFailover
  <2> DEFINE o == Topology(TargetOf[r])
             candidate == CandidateOf[r]
             ready == ReadyIn(TargetOf[r]) \ {candidate}
  <2>1. ActionOf[r] = "failover"
    BY <1>5 DEF ExecuteFailover, Executing
  <2>2. \/ worker' = Finishing("Failed")
        \/ /\ worker' = Finishing("Succeeded")
           /\ \/ PromotedIn(TargetOf[r], candidate) /\ UNCHANGED applied
              \/ IsTopology(TargetOf[r], candidate, ready) /\ UNCHANGED applied
              \/ Record(o, ready)
    BY <1>5 DEF ExecuteFailover
  <2>3. seen[o] \in Nat /\ seen[o] <= Len(applied[o]) /\ Len(applied[o]) \in Nat
    BY <1>t, <1>o DEF SeenInv, TypeOK
  <2>4. ASSUME PromotedIn(TargetOf[r], candidate), UNCHANGED applied
        PROVE  TookEffect(r, ar[r].obs)'
    <3>1. seen[o] \in 1..Len(applied[o]) /\ CandidateOf[applied[o][seen[o]].req] = candidate
      BY <2>3, <2>4 DEF PromotedIn
    <3> QED BY <2>1, <2>4, <3>1 DEF TookEffect
  <2>5. ASSUME IsTopology(TargetOf[r], candidate, ready), UNCHANGED applied
        PROVE  TookEffect(r, ar[r].obs)'
    <3>1. /\ Len(applied[o]) \in 1..Len(applied[o])
          /\ CandidateOf[applied[o][Len(applied[o])].req] = candidate
      BY <2>3, <2>5 DEF IsTopology
    <3> QED BY <2>1, <2>5, <3>1 DEF TookEffect
  <2>6. ASSUME Record(o, ready) PROVE TookEffect(r, ar[r].obs)'
    <3>1. /\ Len(applied'[o]) = Len(applied[o]) + 1
          /\ applied'[o][Len(applied[o]) + 1] =
               [req |-> worker.req, op |-> worker.op, gen |-> worker.gen,
                ready |-> ready]
      BY <1>t, <1>o, <2>6, RecordGrows
    <3>2. applied'[o][Len(applied[o]) + 1].req = r
      BY <3>1
    <3>3. Len(applied[o]) + 1 \in 1..Len(applied'[o])
      BY <2>3, <3>1
    <3> QED BY <2>1, <3>2, <3>3 DEF TookEffect
  <2> QED BY <1>e, <1>f, <1>g, <1>v, <2>2, <2>4, <2>5, <2>6
<1>6. CASE ExecuteBackup
  <2> DEFINE result == BackupResult(backup[r])
  <2>1. /\ ActionOf[r] = "backup" /\ worker' = Finishing(result)
        /\ backup' = [backup EXCEPT ![r] = IF @ = "absent" THEN "created" ELSE @]
    BY <1>6 DEF ExecuteBackup, Executing
  <2>2. worker'.pc = "finish" /\ worker'.req = r /\ worker'.result = result
    BY <1>t, <2>1 DEF Finishing, Worker
  <2>3. result = "Succeeded" => backup[r] = "completed"
    BY DEF BackupResult
  <2>4. backup[r] = "completed" => backup'[r] = "completed"
    BY <1>t, <2>1 DEF TypeOK
  <2>5. backup'[r] = "completed" => TookEffect(r, ar[r].obs)'
    BY <2>1 DEF TookEffect
  <2> HIDE DEF result
  <2> QED BY <1>e, <1>v, <2>2, <2>3, <2>4, <2>5
<1>7. CASE ObserveBackup
  <2> DEFINE result == BackupResult(backup[r])
  <2>1. ActionOf[r] = "backup" /\ backup' = backup
    BY <1>7 DEF ObserveBackup, PlaceInv
  <2>2. worker'.pc = "record" /\ worker'.req = r /\ worker'.result = result
    BY <1>t, <1>7 DEF ObserveBackup, Worker
  <2>3. result = "Succeeded" => backup[r] = "completed"
    BY DEF BackupResult
  <2>4. backup'[r] = "completed" => TookEffect(r, ar[r].obs)'
    BY <2>1 DEF TookEffect
  <2> HIDE DEF result
  <2> QED BY <1>e, <1>v, <2>1, <2>2, <2>3, <2>4
<1>8. CASE \/ \E q \in Requests : Begin(q)
           \/ Prepare \/ PatchVerdict \/ Finish \/ RecordBackup \/ ApiError \/ Restart
  <2>1. CASE \E q \in Requests : Begin(q)
    <3>1. PICK q \in Requests : Begin(q)
      BY <2>1
    <3>2. worker'.pc \notin {"rollout", "finish", "record"}
      BY <3>1 DEF Begin, Idle, Branch
    <3> QED BY <1>i, <3>2
  <2>2. CASE Prepare
    <3>1. worker'.pc \in {"idle", "execute", "inflight"}
      BY <1>t, <2>2 DEF Prepare, Worker, Idle
    <3> QED BY <1>i, <3>1
  <2>3. CASE PatchVerdict \/ Finish \/ RecordBackup \/ ApiError \/ Restart
    <3>1. Done
      BY <2>3 DEF PatchVerdict, Finish, RecordBackup, ApiError, Restart
    <3>2. worker'.pc = "idle"
      BY <3>1 DEF Done, Idle
    <3> QED BY <1>i, <3>2
  <2> QED BY <1>8, <2>1, <2>2, <2>3
<1>9. CASE ExecuteError
  <2>1. worker' = Finishing("Failed")
    BY <1>9 DEF ExecuteError
  <2> QED BY <1>f, <1>g, <2>1
<1>10. \/ UNCHANGED worker
       \/ \E q \in Requests : Begin(q)
       \/ Prepare \/ PatchVerdict \/ Finish \/ RecordBackup \/ ApiError \/ Restart
       \/ ExecuteRestart \/ ExecuteRotateSecret \/ ExecuteRotateRollout
       \/ ExecuteFailover \/ ExecuteBackup \/ ExecuteError \/ ObserveBackup
  BY DEF Next, Reconcile, vars, handleActionApproval, ValidateUpdate, NewGeneration,
         Deliver, Resync, DeliverObject, TargetChanges, BackupProgress, BackupLost
<1> QED BY <1>1, <1>2, <1>3, <1>4, <1>5, <1>6, <1>7, <1>8, <1>9, <1>10

(* No outcome is claimed at first.                                         *)
LEMMA InitOutcome == Init => OutcomeInv
<1> SUFFICES ASSUME Init PROVE OutcomeInv
  OBVIOUS
<1>1. PICK q \in Requests : worker = Idle(q)
  BY DEF Init
<1>2. \A r \in Requests : ar[r].phase # "Succeeded"
  BY DEF Init, Created
<1> QED BY <1>1, <1>2 DEF OutcomeInv, Idle

(* Succeeded is true, for any number of requests and faults: a workload    *)
(* was restarted, a password replaced and the workload rolled, a standby   *)
(* promoted or a backup completed. For failovers and backups this needs    *)
(* nothing of the environment; restarts and rotations of one generation    *)
(* are told apart while only reviewers change specs and targets resolve.   *)
THEOREM SucceededIsTrue ==
  ASSUME \/ "spec" \notin Edits /\ "target" \notin Edits
         \/ \A r \in Requests : ActionOf[r] \in {"failover", "backup"}
  PROVE  Spec => []SucceededMeansApplied
<1>1. OutcomeInv => SucceededMeansApplied
  BY DEF OutcomeInv, SucceededMeansApplied
<1>2. CASE "spec" \notin Edits /\ "target" \notin Edits
  <2>1. /\ TypeInv /\ GenInv /\ LifeInv /\ PlaceInv /\ OperationInv
        /\ OutcomeInv /\ [Next]_vars /\ [StaysStarted]_vars
        => OutcomeInv'
    <3>1. CASE StaysStarted
      BY <3>1, NextOutcome DEF InOrder
    <3>2. UNCHANGED vars => (OutcomeInv => OutcomeInv')
      BY DEF vars, OutcomeInv, TookEffect, Recorded
    <3> QED BY <3>1, <3>2
  <2>2. Spec => [](TypeInv /\ GenInv /\ LifeInv /\ PlaceInv /\ OperationInv)
               /\ [][StaysStarted]_vars
    BY <1>2, LifeHolds
  <2> QED BY <1>1, <2>1, <2>2, InitOutcome, PTL DEF Spec
<1>3. CASE \A r \in Requests : ActionOf[r] \in {"failover", "backup"}
  <2>1. TypeInv /\ GenInv /\ PlaceInv /\ OutcomeInv /\ [Next]_vars => OutcomeInv'
    BY <1>3, NextOutcome DEF InOrder
  <2>2. Spec => []TypeInv
    BY InitType, NextType, PTL DEF Spec
  <2>3. Spec => []GenInv
    <3>1. TypeInv /\ GenInv /\ [Next]_vars => GenInv'
      BY NextGen
    <3> QED BY <2>2, <3>1, InitGen, PTL DEF Spec
  <2>4. Spec => []PlaceInv
    BY <2>2, InitPlace, NextPlace, PTL DEF Spec
  <2> QED BY <1>1, <2>1, <2>2, <2>3, <2>4, InitOutcome, PTL DEF Spec
<1> QED BY <1>2, <1>3

-----------------------------------------------------------------------------
(* Refinement: the pipeline implements OperationLog                        *)

(* The mapped steps of an object.                                          *)
StepsIn(effects) == [i \in DOMAIN effects |-> <<effects[i].req, effects[i].op>>]

(* One more effect is one more step at the end.                            *)
LEMMA StepsAppend ==
  ASSUME NEW s \in Seq(Effect), NEW e \in Effect
  PROVE  StepsIn(Append(s, e)) = Append(StepsIn(s), <<e.req, e.op>>)
<1>1. DOMAIN s = 1..Len(s) /\ Len(s) \in Nat
  OBVIOUS
<1>2. StepsIn(s) \in Seq(Requests \X Nat) /\ Len(StepsIn(s)) = Len(s)
  <2>1. \A i \in 1..Len(s) : <<s[i].req, s[i].op>> \in Requests \X Nat
    <3> TAKE i \in 1..Len(s)
    <3>1. s[i] \in Effect
      OBVIOUS
    <3> QED BY <3>1 DEF Effect
  <2> QED BY <1>1, <2>1 DEF StepsIn
<1>3. DOMAIN Append(s, e) = 1..(Len(s) + 1)
  OBVIOUS
<1>4. DOMAIN Append(StepsIn(s), <<e.req, e.op>>) = 1..(Len(s) + 1)
  BY <1>2
<1>5. \A i \in 1..(Len(s) + 1) :
        StepsIn(Append(s, e))[i] = Append(StepsIn(s), <<e.req, e.op>>)[i]
  BY <1>1, <1>2, <1>3 DEF StepsIn
<1>6. StepsIn(Append(s, e)) = [i \in 1..(Len(s) + 1) |-> StepsIn(Append(s, e))[i]]
  BY <1>3 DEF StepsIn
<1>7. Append(StepsIn(s), <<e.req, e.op>>) =
        [i \in 1..(Len(s) + 1) |-> Append(StepsIn(s), <<e.req, e.op>>)[i]]
  BY <1>2, <1>4
<1> QED BY <1>5, <1>6, <1>7

(* The initial states are initial states of the log.                       *)
LEMMA InitLog == Init => Log!Init
<1> SUFFICES ASSUME Init PROVE Log!Init
  OBVIOUS
<1>1. \A r \in Requests : ar[r].obs = 0 /\ ar[r].phase # "Succeeded"
  BY DEF Init, Created
<1>2. \A o \in AnnotatedObjects : applied[o] = <<>>
  BY DEF Init, AnnotatedObjects, RuntimeObjects
<1>3. ASSUME NEW o \in AnnotatedObjects
      PROVE  [i \in DOMAIN applied[o] |-> <<applied[o][i].req, applied[o][i].op>>] = <<>>
  BY <1>2
<1> QED BY <1>1, <1>3 DEF Log!Init

(* A step changes the status of one request at most.                       *)
LEMMA OneStatus ==
  ASSUME TypeInv, [Next]_vars
  PROVE  \/ UNCHANGED ar
         \/ /\ UNCHANGED applied
            /\ \E r \in Requests : \A q \in Requests : q # r => ar'[q] = ar[q]
<1>t. ar \in [Requests -> Object] /\ worker.req \in Requests
  BY DEF TypeInv, TypeOK, Worker
<1>1. ASSUME NEW r \in Requests, NEW new, Store(r, new)
      PROVE  \A q \in Requests : q # r => ar'[q] = ar[q]
  BY <1>t, <1>1 DEF Store
<1>2. ASSUME NEW r \in Requests, handleActionApproval(r) \/ ValidateUpdate(r)
      PROVE  UNCHANGED applied /\ \E new : Store(r, new)
  BY <1>2 DEF handleActionApproval, ValidateUpdate, NewGeneration
<1>3. ASSUME PatchVerdict \/ Prepare \/ Finish \/ RecordBackup
      PROVE  UNCHANGED ar \/ (UNCHANGED applied /\ \E new : Store(worker.req, new))
  BY <1>3 DEF PatchVerdict, Prepare, Finish, RecordBackup, patchActionRequestStatus
<1>4. \/ \E r \in Requests : handleActionApproval(r) \/ ValidateUpdate(r)
      \/ PatchVerdict \/ Prepare \/ Finish \/ RecordBackup \/ UNCHANGED ar
  BY DEF Next, Reconcile, vars, Deliver, Resync, Begin, DeliverObject,
         ExecuteRestart, ExecuteRotateSecret, ExecuteRotateRollout,
         ExecuteFailover, ExecuteBackup, ObserveBackup, ApiError, ExecuteError,
         Restart, TargetChanges, BackupProgress, BackupLost
<1> QED BY <1>t, <1>1, <1>2, <1>3, <1>4

(* A recorded effect of a started request is a step done in the log.       *)
LEMMA RecordedIsDone ==
  ASSUME TypeInv, OperationInv, NEW r \in Requests, NEW g,
         NEW o \in AnnotatedObjects, Recorded(o, r, g)
  PROVE  Log!Done(r, ar[r].obs, o)
<1>o. o \in RuntimeObjects
  BY DEF AnnotatedObjects, RuntimeObjects
<1>1. PICK i \in 1..Len(applied[o]) : applied[o][i].req = r
  BY DEF Recorded
<1>2. applied[o][i].op = ar[r].obs
  BY <1>o, <1>1 DEF OperationInv, Started
<1>3. applied[o] \in Seq(Effect)
  BY <1>o DEF TypeInv, TypeOK
<1>4. i \in DOMAIN applied[o]
  BY <1>1, <1>3
<1> QED BY <1>1, <1>2, <1>4 DEF Log!Done

(* Which steps the operation of a request has.                             *)
LEMMA StepsFacts ==
  ASSUME NEW r \in Requests
  PROVE  /\ ActionOf[r] = "restart" => StepsOf[r] = <<Workload(TargetOf[r])>>
         /\ ActionOf[r] = "rotate-credentials" =>
              StepsOf[r] = <<Credentials(TargetOf[r]), Workload(TargetOf[r])>>
         /\ ActionOf[r] \in {"failover", "backup"} => StepsOf[r] = <<>>
BY DEF StepsOf

(* All steps of an operation that took effect are done in the log.         *)
LEMMA TookIsDone ==
  ASSUME TypeInv, OperationInv, NEW r \in Requests, TookEffect(r, ar[r].obs)
  PROVE  \A i \in DOMAIN StepsOf[r] : Log!Done(r, ar[r].obs, StepsOf[r][i])
<1>1. ActionOf[r] \in Actions /\ TargetOf[r] \in Targets
  BY ConstantsAssumption
<1>2. /\ Workload(TargetOf[r]) \in AnnotatedObjects
      /\ Credentials(TargetOf[r]) \in AnnotatedObjects
  BY <1>1 DEF AnnotatedObjects, Workload, Credentials
<1>3. CASE ActionOf[r] = "restart"
  <2>1. Log!Done(r, ar[r].obs, Workload(TargetOf[r]))
    BY <1>2, <1>3, RecordedIsDone, TookFacts
  <2>2. StepsOf[r] = <<Workload(TargetOf[r])>>
    BY <1>3, StepsFacts
  <2>3. \A i \in DOMAIN StepsOf[r] : StepsOf[r][i] = Workload(TargetOf[r])
    BY <2>2
  <2> QED BY <2>1, <2>3
<1>4. CASE ActionOf[r] = "rotate-credentials"
  <2>1. /\ Log!Done(r, ar[r].obs, Workload(TargetOf[r]))
        /\ Log!Done(r, ar[r].obs, Credentials(TargetOf[r]))
    BY <1>2, <1>4, RecordedIsDone, TookFacts
  <2>2. StepsOf[r] = <<Credentials(TargetOf[r]), Workload(TargetOf[r])>>
    BY <1>4, StepsFacts
  <2>3. \A i \in DOMAIN StepsOf[r] :
          StepsOf[r][i] \in {Credentials(TargetOf[r]), Workload(TargetOf[r])}
    BY <2>2
  <2> QED BY <2>1, <2>3
<1>5. CASE ActionOf[r] \in {"failover", "backup"}
  BY <1>5, StepsFacts
<1> QED BY <1>1, <1>3, <1>4, <1>5 DEF Actions

(* A change of a status writes an operation down, reports the newest one   *)
(* or withdraws a report.                                                  *)
LEMMA StatusInLog ==
  ASSUME TypeInv, TypeInv', GenInv, LifeInv, PlaceInv, OperationInv, OutcomeInv,
         StaysStarted, ObservedGrows, [Next]_vars,
         UNCHANGED applied, NEW r \in Requests,
         \A q \in Requests : q # r => ar'[q] = ar[q]
  PROVE  Log!Next
<1>t. ar[r].obs \in Nat /\ ar'[r].obs \in Nat /\ ar[r].obs <= ar'[r].obs
  BY DEF TypeInv, TypeOK, Object, ObservedGrows
<1>p. UNCHANGED [o \in AnnotatedObjects |->
        [i \in DOMAIN applied[o] |-> <<applied[o][i].req, applied[o][i].op>>]]
  OBVIOUS
<1>1. ar'[r].phase = "Succeeded" =>
        TookEffect(r, ar[r].obs) /\ ar'[r].obs = ar[r].obs
  <2> SUFFICES ASSUME ar'[r].phase = "Succeeded"
               PROVE  TookEffect(r, ar[r].obs) /\ ar'[r].obs = ar[r].obs
    OBVIOUS
  <2>1. \/ ar[r].phase = "Succeeded"
        \/ /\ r = worker.req /\ worker.pc \in {"finish", "record"}
           /\ worker.result = "Succeeded"
    BY SucceededFrom
  <2>2. TookEffect(r, ar[r].obs)
    BY <2>1 DEF OutcomeInv
  <2>3. Started(r, ar[r])
    BY <2>1 DEF LifeInv, HeldInv, Held, StageInv, Unstarted
  <2> QED BY <2>2, <2>3, GenerationKept
<1>2. CASE ar'[r].phase = "Succeeded"
  <2>1. Log!Report(r)
    <3>1. \A i \in DOMAIN StepsOf[r] : Log!Done(r, ar[r].obs, StepsOf[r][i])
      BY <1>1, <1>2, TookIsDone
    <3>2. ar'[r].obs = ar[r].obs
      BY <1>1, <1>2
    <3> QED BY <1>p, <1>2, <3>1, <3>2 DEF Log!Report
  <2> QED BY <2>1 DEF Log!Next
<1>3. CASE ar'[r].phase # "Succeeded" /\ ar'[r].obs = ar[r].obs
  <2>1. Log!Withdraw(r)
    BY <1>p, <1>3 DEF Log!Withdraw
  <2> QED BY <2>1 DEF Log!Next
<1>4. CASE ar'[r].phase # "Succeeded" /\ ar'[r].obs # ar[r].obs
  <2>1. Log!WriteDown(r)
    <3> DEFINE intent == [q \in Requests |-> ar[q].obs]
               reported == [q \in Requests |->
                              IF ar[q].phase = "Succeeded" THEN ar[q].obs ELSE 0]
    <3>1. intent'[r] > intent[r]
      <4>1. ar'[r].obs > ar[r].obs
        BY <1>t, <1>4
      <4> QED BY <4>1
    <3>2. intent' = [intent EXCEPT ![r] = intent'[r]]
      OBVIOUS
    <3>3. reported' = [reported EXCEPT ![r] = 0]
      BY <1>4
    <3> QED BY <1>p, <3>1, <3>2, <3>3 DEF Log!WriteDown
  <2> QED BY <2>1 DEF Log!Next
<1> QED BY <1>2, <1>3, <1>4

(* A change of an object carries out one step of an operation.             *)
LEMMA ChangeInLog ==
  ASSUME OneRequestEach, TypeInv, TypeInv', GenInv, LifeInv, PlaceInv,
         OperationInv, OutcomeInv, AtMostOnce, NEW o \in RuntimeObjects, NEW ready,
         Changes(o, ready)
  PROVE  [Log!Next]_Log!logVars
<1> DEFINE r == worker.req
           n == worker.op
           e == [req |-> r, op |-> n, gen |-> worker.gen, ready |-> ready]
<1>t. /\ TypeOK /\ applied \in [RuntimeObjects -> Seq(Effect)]
      /\ r \in Requests /\ n \in Nat
  BY DEF TypeInv, TypeOK, Worker
<1>1. /\ Record(o, ready) /\ ar' = ar /\ worker.pc \in {"execute", "rollout"}
      /\ r \in ChangedBy(o)
  BY DEF Changes
<1>a. \A p \in AnnotatedObjects : p \in RuntimeObjects
  BY DEF AnnotatedObjects, RuntimeObjects
<1>2. CASE o \notin AnnotatedObjects
  <2>1. \A p \in AnnotatedObjects : applied'[p] = applied[p]
    BY <1>t, <1>1, <1>2, <1>a, RecordGrows
  <2> QED BY <1>1, <2>1 DEF Log!logVars
<1>3. CASE o \in AnnotatedObjects
  <2>1. o[1] \in Targets /\ o \in {Workload(o[1]), Credentials(o[1])}
        /\ o[2] \in {"statefulset", "secret"}
    BY <1>3 DEF AnnotatedObjects, Workload, Credentials
  <2>2. \A i \in 1..Len(applied[o]) : ~(applied[o][i].req = r /\ applied[o][i].op = n)
    <3>1. ~AlreadyRecorded(o, Len(applied[o]))
      BY <2>1 DEF Changes
    <3> QED BY <1>1, <2>1, <3>1, NotRecorded
  <2>3. ~Log!Done(r, n, o)
    <3>1. DOMAIN applied[o] = 1..Len(applied[o])
      BY <1>t
    <3> QED BY <1>3, <2>2, <3>1 DEF Log!Done
  <2>4. n = ar[r].obs /\ n \in 1..ar[r].obs
    <3>1. Started(r, ar[r]) /\ n = ar[r].gen
      BY <1>1 DEF LifeInv, StageInv
    <3>2. ar[r].gen \in Nat \ {0}
      BY <1>t, <3>1, StartedFacts
    <3> QED BY <3>1, <3>2 DEF Started
  <2>5. PICK i \in DOMAIN StepsOf[r] :
          /\ StepsOf[r][i] = o
          /\ \A j \in 1..(i - 1) : Log!Done(r, n, StepsOf[r][j])
    <3>1. TargetOf[r] = o[1]
      BY <1>1 DEF ChangedBy
    <3>2. CASE ActionOf[r] = "restart"
      <4>1. StepsOf[r] = <<Workload(o[1])>> /\ o = Workload(o[1])
        <5>1. StepsOf[r] = <<Workload(o[1])>>
          BY <1>t, <3>1, <3>2, StepsFacts
        <5>2. o # Credentials(o[1])
          <6>1. o[2] = "statefulset"
            BY <1>1, <3>2 DEF ChangedBy
          <6> QED BY <2>1, <6>1, ObjectFacts
        <5> QED BY <2>1, <5>1, <5>2
      <4>2. 1 \in DOMAIN StepsOf[r] /\ StepsOf[r][1] = o
        BY <4>1
      <4>3. 1..(1 - 1) = {}
        OBVIOUS
      <4> QED BY <4>2, <4>3
    <3>3. CASE ActionOf[r] = "rotate-credentials" /\ o = Credentials(o[1])
      <4>1. StepsOf[r] = <<Credentials(o[1]), Workload(o[1])>>
        BY <1>t, <3>1, <3>3, StepsFacts
      <4>2. 1 \in DOMAIN StepsOf[r] /\ StepsOf[r][1] = o
        BY <3>3, <4>1
      <4>3. 1..(1 - 1) = {}
        OBVIOUS
      <4> QED BY <4>2, <4>3
    <3>4. CASE ActionOf[r] = "rotate-credentials" /\ o = Workload(o[1])
      <4>1. StepsOf[r] = <<Credentials(o[1]), Workload(o[1])>>
        BY <1>t, <3>1, <3>4, StepsFacts
      <4>2. 2 \in DOMAIN StepsOf[r] /\ StepsOf[r][2] = o
        BY <3>4, <4>1
      <4>3. worker.pc = "rollout"
        <5>1. o[2] = "statefulset"
          BY <2>1, <3>4, ObjectFacts
        <5> QED BY <3>4, <5>1 DEF Changes
      <4>4. Recorded(Credentials(o[1]), r, worker.gen)
        BY <3>1, <4>3 DEF OutcomeInv
      <4>5. Credentials(o[1]) \in AnnotatedObjects
        BY <2>1 DEF AnnotatedObjects, Credentials
      <4>6. Log!Done(r, n, Credentials(o[1]))
        BY <1>t, <2>4, <4>4, <4>5, RecordedIsDone
      <4>7. \A j \in 1..(2 - 1) : StepsOf[r][j] = Credentials(o[1])
        BY <4>1
      <4> QED BY <4>2, <4>6, <4>7
    <3> QED BY <1>1, <2>1, <3>2, <3>3, <3>4 DEF ChangedBy
  <2>6. [p \in AnnotatedObjects |->
           [k \in DOMAIN applied'[p] |-> <<applied'[p][k].req, applied'[p][k].op>>]]
        = [[p \in AnnotatedObjects |->
             [k \in DOMAIN applied[p] |-> <<applied[p][k].req, applied[p][k].op>>]]
             EXCEPT ![o] = Append(@, <<r, n>>)]
    <3>1. applied'[o] = Append(applied[o], e) /\ applied[o] \in Seq(Effect)
      BY <1>t, <1>1 DEF Record
    <3>2. e \in Effect
      <4>1. applied'[o] \in Seq(Effect)
        BY DEF TypeInv, TypeOK
      <4>2. /\ Len(applied[o]) + 1 \in 1..Len(applied'[o])
            /\ applied'[o][Len(applied[o]) + 1] = e
        BY <1>t, <1>1, RecordGrows
      <4> HIDE DEF e
      <4> QED BY <4>1, <4>2
    <3>3. StepsIn(applied'[o]) = Append(StepsIn(applied[o]), <<r, n>>)
      BY <3>1, <3>2, StepsAppend
    <3>4. \A p \in AnnotatedObjects : p # o => applied'[p] = applied[p]
      BY <1>t, <1>1, <1>a, RecordGrows
    <3> QED BY <1>3, <3>3, <3>4 DEF StepsIn
  <2>7. PICK q \in Requests, m \in Nat : q = r /\ m = n
    BY <1>t
  <2>8. Log!Perform(q, m, i)
    BY <1>1, <2>3, <2>5, <2>6, <2>7 DEF Log!Perform
  <2>9. m \in 1..[p \in Requests |-> ar[p].obs][q] /\ i \in DOMAIN StepsOf[q]
    BY <2>4, <2>5, <2>7
  <2> QED BY <2>8, <2>9 DEF Log!Next
<1> QED BY <1>2, <1>3

(* The controller's restarts and rotations implement OperationLog, for any *)
(* number of requests, targets and faults and any lag of the cache: an     *)
(* operation is written down first, its password is replaced before its    *)
(* workload is rolled, each step happens once however often the reconciler *)
(* replays it, and Succeeded is written when all of them happened.         *)
THEOREM PipelineImplementsLog ==
  ASSUME "spec" \notin Edits, "target" \notin Edits, OneRequestEach
  PROVE  Spec => ImplementsOperationLog
<1> DEFINE Inv == /\ TypeInv /\ GenInv /\ LifeInv /\ PlaceInv /\ OperationInv
                  /\ OutcomeInv /\ AtMostOnce
<1>1. Spec => [](TypeInv /\ GenInv /\ LifeInv /\ PlaceInv /\ OperationInv)
             /\ [][StaysStarted]_vars
  BY LifeHolds
<1>2. Spec => []AtMostOnce
  BY OperationsHappenOnce
<1>3. Spec => []OutcomeInv
  <2>1. /\ TypeInv /\ GenInv /\ LifeInv /\ PlaceInv /\ OperationInv
        /\ OutcomeInv /\ [Next]_vars /\ [StaysStarted]_vars
        => OutcomeInv'
    <3>1. CASE StaysStarted
      BY <3>1, NextOutcome DEF InOrder
    <3>2. UNCHANGED vars => (OutcomeInv => OutcomeInv')
      BY DEF vars, OutcomeInv, TookEffect, Recorded
    <3> QED BY <3>1, <3>2
  <2> QED BY <1>1, <2>1, InitOutcome, PTL DEF Spec
<1>4. Inv /\ TypeInv' /\ [Next]_vars /\ [StaysStarted]_vars => [Log!Next]_Log!logVars
  <2> SUFFICES ASSUME Inv, TypeInv', [Next]_vars, [StaysStarted]_vars
               PROVE  [Log!Next]_Log!logVars
    OBVIOUS
  <2>1. CASE UNCHANGED vars
    BY <2>1 DEF vars, Log!logVars
  <2>2. CASE ~UNCHANGED vars
    <3>1. StaysStarted /\ ObservedGrows
      BY <2>2, NextGen
    <3>2. CASE UNCHANGED <<ar, applied>>
      BY <3>2 DEF Log!logVars
    <3>3. ASSUME NEW o \in RuntimeObjects, NEW ready, Changes(o, ready)
          PROVE  [Log!Next]_Log!logVars
      BY <3>3, ChangeInLog
    <3>4. ASSUME UNCHANGED applied, NEW r \in Requests,
                 \A q \in Requests : q # r => ar'[q] = ar[q]
          PROVE  [Log!Next]_Log!logVars
      BY <3>1, <3>4, StatusInLog
    <3> QED BY <3>2, <3>3, <3>4, OneChange, OneStatus
  <2> QED BY <2>1, <2>2
<1>5. Spec => []Inv
  BY <1>1, <1>2, <1>3, PTL
<1>6. Spec => Log!Spec
  BY <1>1, <1>4, <1>5, InitLog, PTL DEF Spec, Log!Spec
<1> QED BY <1>6 DEF ImplementsOperationLog

=============================================================================
