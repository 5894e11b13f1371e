--------------------------- MODULE ActionOperations ---------------------------
(* The refinement that shows ActionRequest to implement OperationLog.        *)
EXTENDS ActionRequest

(* The steps an operation takes on runtime objects: a rotation replaces    *)
(* the password and then rolls the workload, a restart rolls the workload. *)
StepsOf ==
  [r \in Requests |->
     CASE ActionOf[r] = "restart" -> <<Workload(TargetOf[r])>>
       [] ActionOf[r] = "rotate-credentials" ->
            <<Credentials(TargetOf[r]), Workload(TargetOf[r])>>
       [] OTHER -> <<>>]

(* The objects that carry the annotation of an operation. (A failover writes  *)
(* the instance status instead, and may write the same topology again.)      *)
AnnotatedObjects == Targets \X {"statefulset", "secret"}

Log == INSTANCE OperationLog WITH
  Objects <- AnnotatedObjects,
  intent <- [r \in Requests |-> ar[r].obs],
  performed <- [o \in AnnotatedObjects |->
                  [i \in DOMAIN applied[o] |-> <<applied[o][i].req, applied[o][i].op>>]],
  reported <- [r \in Requests |->
                 IF ar[r].phase = "Succeeded" THEN ar[r].obs ELSE 0]

(* The controller's restarts and rotations implement OperationLog: whatever*)
(* is replayed after restarts, failed status patches and stale reads, an   *)
(* operation is persisted first, replaces the password before it rolls the *)
(* workload, does each once, and Succeeded is written after both.          *)
ImplementsOperationLog == Log!Spec

=============================================================================
