---------------------------- MODULE DeliveryProofs ----------------------------
(***************************************************************************)
(* Proofs about ServiceDelivery and the publisher it drives, for any pods, *)
(* packages, versions and number of faults. The versions in the delivery   *)
(* repository only grow as long as no package is left half written         *)
(* ("torn" \notin Disturbances).                                           *)
(***************************************************************************)
EXTENDS ServiceDelivery, TLAPS

(* Along a branch no package is torn and none goes back.                   *)
Ascending(commits) ==
  \A k \in Packages, n \in 1..Len(commits) :
    /\ Absent <= commits[n].tree[k]
    /\ \A m \in n..Len(commits) : commits[n].tree[k] <= commits[m].tree[k]

BranchInv ==
  /\ Ascending(remote)
  /\ \A p \in Pods : Ascending(repo[p].head)

(* The files of a worktree are at least as new as its last commit, except  *)
(* the package that is being rewritten.                                    *)
WorktreeInv ==
  \A p \in Pods, k \in Packages :
    \/ Tip(repo[p].head)[k] <= repo[p].tree[k]
    \/ job.pc = "write" /\ job.pod = p /\ job.pkg = k

(* Nothing is newer than v in any repository.                              *)
AtMost(k, v) ==
  /\ Tip(remote)[k] <= v
  /\ \A p \in Pods : Tip(repo[p].head)[k] <= v /\ repo[p].tree[k] <= v

(* Nothing is newer than its spec, nor, while a version is being published,*)
(* than that version.                                                      *)
VersionInv ==
  /\ \A k \in Packages : AtMost(k, desired[k])
  /\ job.version <= desired[job.pkg]
  /\ job.pc \in PublishSteps => AtMost(job.pkg, job.version)

(* How far the version being published has come.                           *)
ProgressInv ==
  /\ job.pc # "off" => worker.pc = "publish" /\ job.pod = leader
  /\ worker.pc \in {"publish", "argo", "persist"} => job.pkg = worker.inst
  /\ job.pc = "commit" => repo[job.pod].tree[job.pkg] = job.version
  /\ job.pc = "push" => Tip(repo[job.pod].head)[job.pkg] = job.version
  /\ job.pc = "pushed" \/ worker.pc \in {"argo", "persist"}
     => job.version <= Tip(remote)[job.pkg]

Inv ==
  /\ TypeOK
  /\ BranchInv
  /\ WorktreeInv
  /\ VersionInv
  /\ ProgressInv
  /\ AckedPublished

-----------------------------------------------------------------------------
(* Operators *)

(* The tip of a branch is a tree.                                          *)
LEMMA TipType ==
  ASSUME NEW h \in Seq(Commit)
  PROVE  Tip(h) \in Tree
<1>1. CASE h = <<>>
  BY <1>1 DEF Tip, EmptyTree, Tree
<1>2. CASE h # <<>>
  <2>1. Len(h) \in 1..Len(h)
    BY <1>2
  <2>2. h[Len(h)] \in Commit
    BY <2>1
  <2> QED BY <1>2, <2>2 DEF Tip, Last, Commit
<1> QED BY <1>1, <1>2

(* The tip after a commit is that commit's tree.                           *)
LEMMA TipAppend ==
  ASSUME NEW h \in Seq(Commit), NEW c \in Commit
  PROVE  Append(h, c) \in Seq(Commit) /\ Tip(Append(h, c)) = c.tree
<1>1. /\ Append(h, c) \in Seq(Commit) /\ Append(h, c) # <<>>
      /\ Append(h, c)[Len(Append(h, c))] = c
  OBVIOUS
<1> QED BY <1>1 DEF Tip, Last

(* Versions are numbers and can be compared.                               *)
LEMMA TreeValues ==
  ASSUME NEW t \in Tree, NEW k \in Packages
  PROVE  t[k] \in Int /\ Torn <= t[k] /\ t[k] <= MaxVersion
BY RepoAssumption DEF Tree, Torn, Absent

(* A fast-forward takes no package back.                                   *)
LEMMA FastForward ==
  ASSUME NEW g \in Seq(Commit), NEW h \in Seq(Commit), IsPrefix(g, h), Ascending(h),
         NEW k \in Packages
  PROVE  Tip(g)[k] <= Tip(h)[k]
<1>1. CASE h = <<>>
  <2>1. g = <<>>
    BY <1>1 DEF IsPrefix
  <2> QED BY <1>1, <2>1 DEF Tip, EmptyTree, Absent
<1>2. CASE h # <<>> /\ g = <<>>
  <2>1. Len(h) \in 1..Len(h)
    BY <1>2
  <2> QED BY <1>2, <2>1 DEF Tip, EmptyTree, Last, Ascending
<1>3. CASE h # <<>> /\ g # <<>>
  <2>1. /\ Len(g) \in 1..Len(h) /\ Len(h) \in Len(g)..Len(h)
        /\ SubSeq(g, 1, Len(g)) = SubSeq(h, 1, Len(g))
    BY <1>3 DEF IsPrefix
  <2>2. g[Len(g)] = h[Len(g)]
    BY <1>3, <2>1
  <2>3. h[Len(g)].tree[k] <= h[Len(h)].tree[k]
    BY <2>1 DEF Ascending
  <2> QED BY <1>3, <2>2, <2>3 DEF Tip, Last
<1> QED BY <1>1, <1>2, <1>3

(* The tip of an ascending branch is nowhere torn.                         *)
LEMMA TipNotTorn ==
  ASSUME NEW h \in Seq(Commit), Ascending(h), NEW k \in Packages
  PROVE  Absent <= Tip(h)[k]
<1>1. CASE h = <<>>
  BY <1>1 DEF Tip, EmptyTree, Absent
<1>2. CASE h # <<>>
  <2>1. Len(h) \in 1..Len(h)
    BY <1>2
  <2> QED BY <1>2, <2>1 DEF Tip, Last, Ascending
<1> QED BY <1>1, <1>2

(* A commit on top that takes no package back keeps a branch ascending.    *)
LEMMA CommitAscends ==
  ASSUME NEW h \in Seq(Commit), Ascending(h), NEW c \in Commit,
         \A k \in Packages : Tip(h)[k] <= c.tree[k]
  PROVE  Ascending(Append(h, c))
<1> DEFINE g == Append(h, c)
<1>1. Len(g) = Len(h) + 1 /\ g[Len(g)] = c /\ Len(h) \in Nat
      /\ \A n \in 1..Len(h) : g[n] = h[n]
  OBVIOUS
<1>2. SUFFICES ASSUME NEW k \in Packages, NEW n \in 1..Len(g)
               PROVE  /\ Absent <= g[n].tree[k]
                      /\ \A m \in n..Len(g) : g[n].tree[k] <= g[m].tree[k]
  BY DEF Ascending
<1>t. c.tree \in Tree /\ Tip(h) \in Tree /\ \A m \in 1..Len(h) : h[m].tree \in Tree
  <2>1. \A m \in 1..Len(h) : h[m] \in Commit
    OBVIOUS
  <2>2. Tip(h) \in Tree
    BY TipType
  <2> QED BY <2>1, <2>2 DEF Commit
<1>v. /\ c.tree[k] \in Int /\ Tip(h)[k] \in Int
      /\ \A m \in 1..Len(h) : h[m].tree[k] \in Int
  BY <1>t, TreeValues
<1> HIDE DEF g
<1>3. CASE n = Len(g)
  <2>1. Absent <= c.tree[k]
    BY <1>v, TipNotTorn DEF Absent
  <2> QED BY <1>1, <1>3, <1>v, <2>1
<1>4. CASE n # Len(g)
  <2>1. n \in 1..Len(h) /\ h # <<>> /\ Tip(h) = h[Len(h)].tree
    BY <1>1, <1>4 DEF Tip, Last
  <2>2. Absent <= g[n].tree[k]
    BY <1>1, <2>1 DEF Ascending
  <2>3. h[n].tree[k] <= c.tree[k]
    <3>1. h[n].tree[k] <= h[Len(h)].tree[k]
      BY <2>1 DEF Ascending
    <3>2. h[n].tree[k] \in Int /\ h[Len(h)].tree[k] \in Int
      BY <1>v, <2>1
    <3> QED BY <1>v, <2>1, <3>1, <3>2
  <2>4. ASSUME NEW m \in n..Len(g) PROVE g[n].tree[k] <= g[m].tree[k]
    <3>1. CASE m = Len(g)
      BY <1>1, <2>1, <2>3, <3>1
    <3>2. CASE m # Len(g)
      <4>1. m \in n..Len(h) /\ m \in 1..Len(h)
        BY <1>1, <2>1, <3>2
      <4> QED BY <1>1, <2>1, <4>1 DEF Ascending
    <3> QED BY <3>1, <3>2
  <2> QED BY <2>2, <2>4
<1> QED BY <1>3, <1>4

-----------------------------------------------------------------------------
(* Types *)

(* The publisher keeps its types.                                          *)
LEMMA RepoStepType ==
  ASSUME RepoTypeOK, RepoNext
  PROVE  RepoTypeOK'
<1> USE RepoAssumption
<1>0. /\ remote \in Seq(Commit) /\ Tip(remote) \in Tree
      /\ job.pod \in Pods /\ job.pkg \in Packages /\ job.version \in 1..MaxVersion
      /\ repo[job.pod] \in Repo /\ repo[job.pod].head \in Seq(Commit)
      /\ repo[job.pod].tree \in Tree
  <2>1. Tip(remote) \in Tree
    BY TipType DEF RepoTypeOK
  <2> QED BY <2>1 DEF RepoTypeOK, Job, Repo
<1>j. ASSUME NEW from, NEW to \in PublishSteps \cup PublishResults, Step(from, to)
      PROVE  job' \in Job
  BY <1>j DEF RepoTypeOK, Job, Step
<1>f. Fault => faults' \in Nat
  BY DEF Fault, RepoTypeOK
<1>1. CASE EnsureWorktree
  <2>1. job' \in Job
    BY <1>1, <1>j DEF EnsureWorktree, PublishSteps
  <2>2. [cloned |-> TRUE, head |-> remote, tree |-> Tip(remote)] \in Repo
    BY <1>0 DEF Repo
  <2> QED BY <1>0, <1>1, <2>1, <2>2 DEF EnsureWorktree, RepoTypeOK
<1>2. CASE CleanPackage \/ WriteArtifacts
  <2>1. job' \in Job
    BY <1>2, <1>j DEF CleanPackage, WriteArtifacts, PublishSteps
  <2>2. PICK v \in {Torn} \cup 1..MaxVersion :
          repo' = [repo EXCEPT ![job.pod].tree[job.pkg] = v]
    BY <1>0, <1>2 DEF CleanPackage, WriteArtifacts
  <2> DEFINE t == [repo[job.pod].tree EXCEPT ![job.pkg] = v]
  <2>3. t \in Tree
    BY <1>0 DEF Tree
  <2>4. repo' = [repo EXCEPT ![job.pod] = [repo[job.pod] EXCEPT !.tree = t]]
    BY <2>2
  <2> HIDE DEF t
  <2>5. [repo[job.pod] EXCEPT !.tree = t] \in Repo
    BY <1>0, <2>3 DEF Repo
  <2>6. repo' \in [Pods -> Repo]
    BY <1>0, <2>4, <2>5 DEF RepoTypeOK
  <2> QED BY <1>0, <1>2, <2>1, <2>6 DEF CleanPackage, WriteArtifacts, RepoTypeOK
<1>3. CASE CommitChanges
  <2>1. job' \in Job
    BY <1>3, <1>j DEF CommitChanges, PublishSteps
  <2> DEFINE c == [by |-> job.pod, tree |-> repo[job.pod].tree]
  <2>2. c \in Commit
    BY <1>0 DEF Commit, Authors
  <2> HIDE DEF c
  <2>3. Append(repo[job.pod].head, c) \in Seq(Commit)
    BY <1>0, <2>2, TipAppend
  <2> DEFINE h == Append(repo[job.pod].head, c)
  <2>4. repo' = repo \/ repo' = [repo EXCEPT ![job.pod] = [repo[job.pod] EXCEPT !.head = h]]
    BY <1>3 DEF CommitChanges, c
  <2> HIDE DEF h
  <2>5. [repo[job.pod] EXCEPT !.head = h] \in Repo
    BY <1>0, <2>3 DEF Repo, h
  <2>6. repo' \in [Pods -> Repo]
    BY <1>0, <2>4, <2>5 DEF RepoTypeOK
  <2> QED BY <1>0, <1>3, <2>1, <2>6 DEF CommitChanges, RepoTypeOK
<1>4. CASE Push
  <2>1. job' \in Job
    BY <1>4, <1>j DEF Push, PublishResults
  <2> QED BY <1>0, <1>4, <2>1 DEF Push, RepoTypeOK
<1>5. CASE RemoteFails
  <2>1. job' \in Job
    BY <1>5, <1>j DEF RemoteFails, PublishResults
  <2>2. remote' \in Seq(Commit)
    BY <1>0, <1>5 DEF RemoteFails
  <2> QED BY <1>f, <1>5, <2>1, <2>2 DEF RemoteFails, RepoTypeOK
<1>6. CASE LocalFails \/ CurrentCommitFails
  <2>1. job' \in Job
    BY <1>6, <1>j DEF LocalFails, CurrentCommitFails, PublishResults
  <2> QED BY <1>f, <1>6, <2>1 DEF LocalFails, CurrentCommitFails, RepoTypeOK
<1>7. CASE OperatorCommits
  <2>1. [by |-> "operator", tree |-> Tip(remote)] \in Commit
    BY <1>0 DEF Commit, Authors
  <2>2. remote' \in Seq(Commit)
    BY <1>0, <1>7, <2>1, TipAppend DEF OperatorCommits
  <2> QED BY <1>f, <1>7, <2>2 DEF OperatorCommits, RepoTypeOK
<1> QED BY <1>1, <1>2, <1>3, <1>4, <1>5, <1>6, <1>7 DEF RepoNext, PublishStep

(* The initial state is well typed.                                        *)
LEMMA InitType == Init => TypeOK
<1> USE RepoAssumption
<1> SUFFICES ASSUME Init PROVE TypeOK
  OBVIOUS
<1>0. 1 \in 1..MaxVersion /\ 0 \in 0..MaxVersion
  OBVIOUS
<1>1. NoRepo \in Repo
  BY DEF NoRepo, Repo, EmptyTree, Tree, Absent
<1>2. RepoTypeOK
  <2>1. PICK q \in Pods, k \in Packages : job = [pc |-> "off", pod |-> q, pkg |-> k, version |-> 1]
    BY DEF Init, RepoInit
  <2>2. job \in Job
    BY <1>0, <2>1 DEF Job
  <2>3. remote = <<>> /\ repo = [o \in Pods |-> NoRepo] /\ faults = 0
    BY DEF Init, RepoInit
  <2> QED BY <1>1, <2>2, <2>3 DEF RepoTypeOK
<1>3. status \in [Instances -> Status]
  <2>1. [phase |-> "", version |-> 0, placed |-> FALSE] \in Status
    BY <1>0 DEF Status, PhasesOf
  <2> QED BY <2>1 DEF Init
<1>4. worker \in Worker
  <2>1. PICK i \in Instances : worker = [pc |-> "idle", inst |-> i, client |-> "management"]
    BY DEF Init
  <2> QED BY <2>1 DEF Worker
<1>5. target \in [Instances -> BOOLEAN]
  BY DEF Init
<1>6. runtime \in [Instances -> {Torn, Absent} \cup 1..MaxVersion]
  BY DEF Init
<1>7. desired \in [Instances -> 1..MaxVersion] /\ life \in [Instances -> Lives]
      /\ queue \in [Instances -> BOOLEAN] /\ app \in [Instances -> BOOLEAN] /\ leader \in Pods
  BY <1>0 DEF Init, Lives
<1> QED BY <1>2, <1>3, <1>4, <1>5, <1>6, <1>7 DEF TypeOK

(* What an action does to the status, the queue and the worker when it     *)
(* ends a reconcile.                                                       *)
LEMMA PersistType ==
  ASSUME TypeOK, NEW i \in Instances, NEW new \in Status, NEW requeue \in BOOLEAN,
         PersistStatus(i, new, requeue)
  PROVE  /\ status' \in [Instances -> Status] /\ queue' \in [Instances -> BOOLEAN]
         /\ worker' \in Worker /\ worker'.pc = "idle" /\ status'[i] = new
         /\ \A j \in Instances \ {i} : status'[j] = status[j]
<1>1. status' \in [Instances -> Status] /\ status'[i] = new
      /\ \A j \in Instances \ {i} : status'[j] = status[j]
  BY DEF PersistStatus, TypeOK
<1>2. worker' \in Worker /\ worker'.pc = "idle"
  BY DEF PersistStatus, Goto, TypeOK, Worker
<1>3. (queue[i] \/ requeue \/ new # status[i]) \in BOOLEAN
  OBVIOUS
<1>4. queue' \in [Instances -> BOOLEAN]
  BY <1>3, Zenon DEF PersistStatus, TypeOK
<1> QED BY <1>1, <1>2, <1>4

(* Each step keeps the types.                                              *)
LEMMA NextType == TypeOK /\ [Next]_vars => TypeOK'
<1> USE RepoAssumption
<1> SUFFICES ASSUME TypeOK, [Next]_vars PROVE TypeOK'
  OBVIOUS
<1>r. UNCHANGED repoVars => RepoTypeOK'
  BY DEF TypeOK, RepoTypeOK, repoVars
<1>w. ASSUME NEW pc \in {"idle", "publish", "argo", "persist", "delete", "finalize"}, Goto(pc)
      PROVE  worker' \in Worker
  BY <1>w DEF Goto, TypeOK, Worker
<1>o. RepoTypeOK /\ job \in Job /\ worker.inst \in Instances /\ worker \in Worker
      /\ \A i \in Instances : status[i] \in Status
  BY DEF TypeOK, RepoTypeOK, Worker
<1>j. ASSUME remote' = remote, faults' = faults \/ Fault, job' = [job EXCEPT !.pc = "off"],
             repo' \in [Pods -> Repo]
      PROVE  RepoTypeOK'
  <2>1. job' \in Job
    BY <1>j, <1>o DEF Job
  <2> QED BY <1>j, <1>o, <2>1 DEF RepoTypeOK, Fault
<1>q. [i \in Instances |-> TRUE] \in [Instances -> BOOLEAN]
  OBVIOUS
<1>1. ASSUME NEW i \in Instances, Update(i) PROVE TypeOK'
  <2>1. desired' \in [Instances -> 1..MaxVersion]
    BY <1>1 DEF Update, TypeOK
  <2>2. queue' \in [Instances -> BOOLEAN]
    BY <1>1 DEF Update, TypeOK
  <2> QED BY <1>r, <1>1, <2>1, <2>2 DEF Update, TypeOK
<1>2. ASSUME NEW i \in Instances, Delete(i) PROVE TypeOK'
  <2>1. life' \in [Instances -> Lives]
    BY <1>2 DEF Delete, TypeOK, Lives
  <2>2. queue' \in [Instances -> BOOLEAN]
    BY <1>2 DEF Delete, TypeOK
  <2> QED BY <1>r, <1>2, <2>1, <2>2 DEF Delete, TypeOK
<1>3. ASSUME NEW i \in Instances, TargetChanges(i) PROVE TypeOK'
  <2>1. target' \in [Instances -> BOOLEAN]
    BY <1>3, Zenon DEF TargetChanges, TypeOK
  <2> QED BY <1>r, <1>3, <2>1 DEF TargetChanges, TypeOK
<1>4. ASSUME NEW i \in Instances, Resync(i) PROVE TypeOK'
  <2>1. queue' \in [Instances -> BOOLEAN]
    BY <1>4 DEF Resync, TypeOK
  <2> QED BY <1>r, <1>4, <2>1 DEF Resync, TypeOK
<1>5. ASSUME NEW i \in Instances, ArgoSync(i) PROVE TypeOK'
  <2>1. Tip(remote)[i] \in {Torn, Absent} \cup 1..MaxVersion
    BY <1>o, TipType DEF RepoTypeOK, Tree, Instances
  <2>2. runtime' \in [Instances -> {Torn, Absent} \cup 1..MaxVersion]
    BY <1>5, <2>1 DEF ArgoSync, TypeOK
  <2> QED BY <1>r, <1>5, <2>2 DEF ArgoSync, TypeOK
<1>6. ASSUME NEW i \in Instances, Begin(i) PROVE TypeOK'
  <2>1. worker' \in Worker
    BY <1>6 DEF Begin, Worker
  <2>2. queue' \in [Instances -> BOOLEAN]
    BY <1>6 DEF Begin, TypeOK
  <2>3. life' \in [Instances -> Lives]
    BY <1>6 DEF Begin, TypeOK, Lives
  <2>4. status' \in [Instances -> Status]
    <3>1. [status[i] EXCEPT !.phase = "Failed"] \in Status
      BY <1>o DEF Status, PhasesOf
    <3>2. status' = status \/ status' = [status EXCEPT ![i] = [status[i] EXCEPT !.phase = "Failed"]]
      BY <1>6 DEF Begin
    <3> QED BY <3>1, <3>2 DEF TypeOK
  <2>5. job' \in Job
    <3>1. job' = job \/ Publish(leader, i, desired[i])
      BY <1>6 DEF Begin
    <3>2. Publish(leader, i, desired[i]) => job' \in Job
      BY DEF Publish, Job, PublishSteps, TypeOK, Instances
    <3> QED BY <1>o, <3>1, <3>2
  <2>6. RepoTypeOK'
    BY <1>6, <1>o, <2>5 DEF Begin, RepoTypeOK
  <2> QED BY <1>6, <2>1, <2>2, <2>3, <2>4, <2>6 DEF Begin, TypeOK
<1>7. CASE PublishDone
  <2> DEFINE s == [status[worker.inst] EXCEPT !.placed = TRUE]
  <2>1. RepoTypeOK'
    BY <1>7, <1>j, <1>o DEF PublishDone, RepoTypeOK
  <2>2. [s EXCEPT !.phase = "Failed"] \in Status /\ [s EXCEPT !.phase = "Degraded"] \in Status
    BY <1>o DEF Status, PhasesOf
  <2> HIDE DEF s
  <2>3. /\ status' \in [Instances -> Status] /\ queue' \in [Instances -> BOOLEAN]
        /\ worker' \in Worker
    <3>1. CASE Goto("argo") /\ UNCHANGED <<status, queue>>
      BY <1>w, <3>1 DEF TypeOK
    <3>2. CASE \E new \in Status, requeue \in BOOLEAN : PersistStatus(worker.inst, new, requeue)
      BY <1>o, <3>2, PersistType
    <3>3. \/ Goto("argo") /\ UNCHANGED <<status, queue>>
          \/ PersistStatus(worker.inst, [s EXCEPT !.phase = "Failed"], FALSE)
          \/ PersistStatus(worker.inst, [s EXCEPT !.phase = "Degraded"], TRUE)
      BY <1>7 DEF PublishDone, s
    <3> QED BY <2>2, <3>1, <3>2, <3>3
  <2> QED BY <1>7, <2>1, <2>3 DEF PublishDone, TypeOK
<1>8. CASE ensureArgoApplication
  <2>1. app' \in [Instances -> BOOLEAN] /\ worker' \in Worker
    BY <1>8, <1>o, <1>w DEF ensureArgoApplication, TypeOK
  <2> QED BY <1>r, <1>8, <2>1 DEF ensureArgoApplication, TypeOK
<1>9. CASE RecordDelivery
  <2>1. PICK phase \in {"Ready", "Provisioning"}, requeue \in BOOLEAN :
          PersistStatus(worker.inst, [phase |-> phase, version |-> job.version,
                                      placed |-> TRUE], requeue)
    BY <1>9 DEF RecordDelivery, applyObservedStatus
  <2>2. [phase |-> phase, version |-> job.version, placed |-> TRUE] \in Status
    <3>1. job.version \in 0..MaxVersion
      BY <1>o DEF Job
    <3> QED BY <3>1 DEF Status, PhasesOf
  <2>3. /\ status' \in [Instances -> Status] /\ queue' \in [Instances -> BOOLEAN]
        /\ worker' \in Worker
    BY <1>o, <2>1, <2>2, PersistType
  <2> QED BY <1>r, <1>9, <2>3 DEF RecordDelivery, TypeOK
<1>10. CASE DeleteRuntime
  <2>1. runtime' \in [Instances -> {Torn, Absent} \cup 1..MaxVersion] /\ worker' \in Worker
    BY <1>10, <1>o, <1>w DEF DeleteRuntime, TypeOK
  <2> QED BY <1>r, <1>10, <2>1 DEF DeleteRuntime, TypeOK
<1>11. CASE RemoveFinalizer
  <2>1. life' \in [Instances -> Lives] /\ worker' \in Worker
    BY <1>11, <1>o, <1>w DEF RemoveFinalizer, TypeOK, Lives
  <2> QED BY <1>r, <1>11, <2>1 DEF RemoveFinalizer, TypeOK
<1>12. CASE RepoNext /\ UNCHANGED instanceVars
  <2>1. RepoTypeOK'
    BY <1>12, <1>o, RepoStepType
  <2> QED BY <1>12, <2>1 DEF instanceVars, TypeOK
<1>13. CASE ApiError
  <2>1. RepoTypeOK'
    BY <1>13, <1>o DEF ApiError, RepoTypeOK, Fault
  <2>2. [status[worker.inst] EXCEPT !.phase = "Failed", !.placed = TRUE] \in Status
    BY <1>o DEF Status, PhasesOf
  <2>3. /\ status' \in [Instances -> Status] /\ queue' \in [Instances -> BOOLEAN]
        /\ worker' \in Worker
    <3>1. CASE PersistStatus(worker.inst, [status[worker.inst] EXCEPT !.phase = "Failed",
                                             !.placed = TRUE], FALSE)
      BY <1>o, <2>2, <3>1, PersistType
    <3>2. CASE Goto("idle") /\ queue' = [queue EXCEPT ![worker.inst] = TRUE] /\ UNCHANGED status
      BY <1>o, <1>w, <3>2 DEF TypeOK
    <3> QED BY <1>13, <3>1, <3>2 DEF ApiError
  <2> QED BY <1>13, <2>1, <2>3 DEF ApiError, TypeOK
<1>14. ASSUME NEW p \in Pods, LeaderChange(p) PROVE TypeOK'
  <2>1. RepoTypeOK'
    BY <1>14, <1>j, <1>o DEF LeaderChange, RepoTypeOK
  <2> QED BY <1>q, <1>w, <1>14, <2>1 DEF LeaderChange, TypeOK
<1>15. ASSUME NEW p \in Pods, ReplacePod(p) PROVE TypeOK'
  <2>1. NoRepo \in Repo
    BY DEF NoRepo, Repo, EmptyTree, Tree, Absent
  <2>2. repo' \in [Pods -> Repo] /\ remote' = remote /\ Fault
    BY <1>15, <1>o, <2>1 DEF ReplacePod, RepoTypeOK
  <2>3. CASE p = leader
    <3>1. RepoTypeOK'
      BY <1>15, <1>j, <2>2, <2>3 DEF ReplacePod
    <3> QED BY <1>q, <1>w, <1>15, <2>3, <3>1 DEF ReplacePod, TypeOK
  <2>4. CASE p # leader
    <3>1. RepoTypeOK'
      BY <1>15, <1>o, <2>2, <2>4 DEF ReplacePod, RepoTypeOK, Fault
    <3> QED BY <1>15, <2>4, <3>1 DEF ReplacePod, TypeOK
  <2> QED BY <2>3, <2>4
<1>16. CASE UNCHANGED vars
  BY <1>r, <1>16 DEF vars, instanceVars, TypeOK
<1> QED BY <1>1, <1>2, <1>3, <1>4, <1>5, <1>6, <1>7, <1>8, <1>9, <1>10, <1>11, <1>12,
           <1>13, <1>14, <1>15, <1>16 DEF Next, Reconcile

-----------------------------------------------------------------------------
(* The versions in the repositories *)

(* The parts of the invariant that are about the repositories.             *)
RepoInv == BranchInv /\ WorktreeInv /\ VersionInv

(* The numbers and sequences of a well-typed state.                        *)
LEMMA Values ==
  ASSUME TypeOK
  PROVE  /\ job.pod \in Pods /\ job.pkg \in Packages /\ job.version \in Int
         /\ remote \in Seq(Commit) /\ Tip(remote) \in Tree
         /\ \A k \in Packages : Tip(remote)[k] \in Int /\ desired[k] \in Int
         /\ \A p \in Pods : /\ repo[p] \in Repo /\ repo[p].head \in Seq(Commit)
                            /\ repo[p].tree \in Tree /\ Tip(repo[p].head) \in Tree
         /\ \A p \in Pods, k \in Packages :
              Tip(repo[p].head)[k] \in Int /\ repo[p].tree[k] \in Int
<1>1. job.pod \in Pods /\ job.pkg \in Packages /\ job.version \in Int
  BY RepoAssumption DEF TypeOK, RepoTypeOK, Job
<1>2. remote \in Seq(Commit) /\ Tip(remote) \in Tree
  BY TipType DEF TypeOK, RepoTypeOK
<1>3. \A k \in Packages : Tip(remote)[k] \in Int /\ desired[k] \in Int
  BY <1>2, TreeValues, RepoAssumption DEF TypeOK, Instances
<1>4. \A p \in Pods : /\ repo[p] \in Repo /\ repo[p].head \in Seq(Commit)
                      /\ repo[p].tree \in Tree /\ Tip(repo[p].head) \in Tree
  <2>1. \A p \in Pods : repo[p] \in Repo /\ repo[p].head \in Seq(Commit) /\ repo[p].tree \in Tree
    BY DEF TypeOK, RepoTypeOK, Repo
  <2> QED BY <2>1, TipType
<1>5. \A p \in Pods, k \in Packages :
        Tip(repo[p].head)[k] \in Int /\ repo[p].tree[k] \in Int
  BY <1>4, TreeValues
<1> QED BY <1>1, <1>2, <1>3, <1>4, <1>5

(* Nothing happens to the repositories and to the job: a spec may still be *)
(* updated.                                                                *)
LEMMA QuietStep ==
  ASSUME TypeOK, TypeOK', RepoInv, UNCHANGED <<remote, repo, job>>,
         \A k \in Packages : desired[k] <= desired'[k]
  PROVE  RepoInv'
<1>1. BranchInv' /\ WorktreeInv'
  BY DEF RepoInv, BranchInv, WorktreeInv
<1>2. ASSUME NEW k \in Packages PROVE AtMost(k, desired[k])'
  <2>1. desired[k] \in Int /\ desired'[k] \in Int /\ desired[k] <= desired'[k]
        /\ Tip(remote)[k] \in Int /\ AtMost(k, desired[k])
        /\ \A p \in Pods : Tip(repo[p].head)[k] \in Int /\ repo[p].tree[k] \in Int
    <3>1. desired'[k] \in Int
      BY RepoAssumption DEF TypeOK, Instances
    <3> QED BY <3>1, Values DEF RepoInv, VersionInv
  <2> QED BY <2>1 DEF AtMost
<1>3. (job.version <= desired[job.pkg])'
  <2>1. /\ job.version \in Int /\ desired[job.pkg] \in Int /\ desired'[job.pkg] \in Int
        /\ job.pkg \in Packages
    BY Values, RepoAssumption DEF TypeOK, Instances
  <2> QED BY <2>1 DEF RepoInv, VersionInv
<1>4. (job.pc \in PublishSteps => AtMost(job.pkg, job.version))'
  BY DEF RepoInv, VersionInv, AtMost
<1> QED BY <1>1, <1>2, <1>3, <1>4 DEF RepoInv, VersionInv

(* A Publish call moves on or ends without a change to a repository.       *)
LEMMA JobStep ==
  ASSUME TypeOK, RepoInv, UNCHANGED <<remote, repo, desired>>, job.pc # "write",
         NEW to, job' = [job EXCEPT !.pc = to],
         to \in PublishSteps => job.pc \in PublishSteps
  PROVE  RepoInv'
<1>1. /\ job'.pc = to /\ job'.pkg = job.pkg /\ job'.pod = job.pod
      /\ job'.version = job.version
  BY DEF TypeOK, RepoTypeOK, Job
<1>2. BranchInv' /\ WorktreeInv'
  BY DEF RepoInv, BranchInv, WorktreeInv
<1>3. VersionInv'
  BY <1>1 DEF RepoInv, VersionInv, AtMost
<1> QED BY <1>2, <1>3 DEF RepoInv

(* A clone takes over the remote's branch.                                 *)
LEMMA CloneStep ==
  ASSUME TypeOK, RepoInv, EnsureWorktree, desired' = desired
  PROVE  RepoInv'
<1>1. /\ job.pc = "ensure" /\ job'.pc = "clean" /\ job'.pkg = job.pkg
      /\ job'.pod = job.pod /\ job'.version = job.version /\ remote' = remote
      /\ job' = [job EXCEPT !.pc = "clean"]
  BY DEF EnsureWorktree, Step, TypeOK, RepoTypeOK, Job
<1>2. CASE repo' = repo
  BY <1>1, <1>2, JobStep DEF PublishSteps
<1>3. CASE repo' = [repo EXCEPT ![job.pod] = [cloned |-> TRUE, head |-> remote,
                                              tree |-> Tip(remote)]]
  <2>1. \A p \in Pods : repo'[p] = repo[p]
                        \/ (repo'[p].head = remote /\ repo'[p].tree = Tip(remote))
    BY <1>3, Values DEF TypeOK, RepoTypeOK
  <2>2. BranchInv'
    BY <1>1, <2>1 DEF RepoInv, BranchInv
  <2>3. WorktreeInv'
    <3> SUFFICES ASSUME NEW p \in Pods, NEW k \in Packages
                 PROVE  Tip(repo'[p].head)[k] <= repo'[p].tree[k]
      BY DEF WorktreeInv
    <3>1. CASE repo'[p] = repo[p]
      BY <1>1, <3>1 DEF RepoInv, WorktreeInv
    <3>2. CASE repo'[p].head = remote /\ repo'[p].tree = Tip(remote)
      BY <3>2, Values
    <3> QED BY <2>1, <3>1, <3>2
  <2>4. ASSUME NEW k, NEW v, AtMost(k, v) PROVE AtMost(k, v)'
    BY <1>1, <2>1, <2>4 DEF AtMost
  <2>5. VersionInv'
    BY <1>1, <2>4 DEF RepoInv, VersionInv, PublishSteps
  <2> QED BY <2>2, <2>3, <2>5 DEF RepoInv
<1> QED BY <1>2, <1>3 DEF EnsureWorktree

(* The directory of a package is emptied, or filled with the version.      *)
LEMMA FileStep ==
  ASSUME TypeOK, RepoInv, CleanPackage \/ WriteArtifacts, desired' = desired
  PROVE  RepoInv'
<1>1. /\ job'.pkg = job.pkg /\ job'.pod = job.pod /\ job'.version = job.version
      /\ remote' = remote /\ job.pc \in {"clean", "write"}
      /\ job.pc = "clean" => job'.pc = "write"
      /\ job.pc = "write" => job'.pc = "commit"
  BY DEF CleanPackage, WriteArtifacts, Step, TypeOK, RepoTypeOK, Job
<1>2. PICK v \in Int : /\ repo' = [repo EXCEPT ![job.pod].tree[job.pkg] = v]
                       /\ \/ v = Torn /\ job.pc = "clean"
                          \/ v = job.version /\ job.pc = "write"
  <2>1. CASE CleanPackage
    <3>1. Torn \in Int
      BY DEF Torn
    <3> QED BY <2>1, <3>1 DEF CleanPackage, Step
  <2>2. CASE WriteArtifacts
    BY <2>2, Values DEF WriteArtifacts, Step
  <2> QED BY <2>1, <2>2
<1>3. \A p \in Pods : repo'[p].head = repo[p].head
  BY <1>2, Values DEF TypeOK, RepoTypeOK, Repo
<1>4. \A p \in Pods, k \in Packages :
        repo'[p].tree[k] = IF p = job.pod /\ k = job.pkg THEN v ELSE repo[p].tree[k]
  BY <1>2, Values DEF TypeOK, RepoTypeOK, Repo, Tree
<1>5. BranchInv'
  BY <1>1, <1>3 DEF RepoInv, BranchInv
<1>6. AtMost(job.pkg, job.version) /\ job.version \in Int
  BY <1>1, Values DEF RepoInv, VersionInv, PublishSteps
<1>7. WorktreeInv'
  <2> SUFFICES ASSUME NEW p \in Pods, NEW k \in Packages
               PROVE  \/ Tip(repo[p].head)[k] <= repo'[p].tree[k]
                      \/ job'.pc = "write" /\ job'.pod = p /\ job'.pkg = k
    BY <1>3 DEF WorktreeInv
  <2>1. CASE p = job.pod /\ k = job.pkg
    BY <1>1, <1>2, <1>4, <1>6, <2>1 DEF AtMost
  <2>2. CASE ~(p = job.pod /\ k = job.pkg)
    <3>1. repo'[p].tree[k] = repo[p].tree[k]
      BY <1>4, <2>2
    <3> QED BY <2>2, <3>1 DEF RepoInv, WorktreeInv
  <2> QED BY <2>1, <2>2
<1>8. v <= job.version
  BY <1>2, RepoAssumption DEF Torn, TypeOK, RepoTypeOK, Job
<1>9. ASSUME NEW k \in Packages, NEW w \in Int, AtMost(k, w),
             k = job.pkg => job.version <= w
      PROVE  AtMost(k, w)'
  <2>1. \A p \in Pods : repo'[p].tree[k] <= w
    <3> SUFFICES ASSUME NEW p \in Pods PROVE repo'[p].tree[k] <= w
      OBVIOUS
    <3>1. CASE p = job.pod /\ k = job.pkg
      BY <1>4, <1>6, <1>8, <1>9, <3>1
    <3>2. CASE ~(p = job.pod /\ k = job.pkg)
      BY <1>4, <1>9, <3>2 DEF AtMost
    <3> QED BY <3>1, <3>2
  <2> QED BY <1>1, <1>3, <1>9, <2>1 DEF AtMost
<1>10. VersionInv'
  <2>1. \A k \in Packages : AtMost(k, desired[k])'
    BY <1>9, Values DEF RepoInv, VersionInv
  <2>2. AtMost(job.pkg, job.version)'
    <3>1. AtMost(job.pkg, job.version)
      BY <1>6
    <3>2. PICK k \in Packages, w \in Int : k = job.pkg /\ w = job.version
      BY Values
    <3>3. AtMost(k, w)'
      BY <1>9, <3>1, <3>2
    <3> QED BY <1>1, <3>2, <3>3
  <2> QED BY <1>1, <2>1, <2>2 DEF RepoInv, VersionInv
<1> QED BY <1>5, <1>7, <1>10 DEF RepoInv

(* A commit takes over the files of the worktree.                          *)
LEMMA CommitStep ==
  ASSUME TypeOK, RepoInv, CommitChanges, desired' = desired
  PROVE  RepoInv'
<1>1. /\ job.pc = "commit" /\ job'.pc = "push" /\ job'.pkg = job.pkg
      /\ job'.pod = job.pod /\ job'.version = job.version /\ remote' = remote
      /\ job' = [job EXCEPT !.pc = "push"]
  BY DEF CommitChanges, Step, TypeOK, RepoTypeOK, Job
<1>2. CASE repo' = repo
  BY <1>1, <1>2, JobStep DEF PublishSteps
<1>3. CASE repo' = [repo EXCEPT ![job.pod].head =
                      Append(@, [by |-> job.pod, tree |-> repo[job.pod].tree])]
  <2> DEFINE c == [by |-> job.pod, tree |-> repo[job.pod].tree]
             h == Append(repo[job.pod].head, c)
  <2>1. c \in Commit /\ c.tree = repo[job.pod].tree
    BY Values DEF Commit, Authors
  <2>2. \A p \in Pods : repo'[p].tree = repo[p].tree
                        /\ repo'[p].head = IF p = job.pod THEN h ELSE repo[p].head
    BY <1>3, Values DEF TypeOK, RepoTypeOK, Repo
  <2> HIDE DEF c
  <2>3. Tip(h) = repo[job.pod].tree
    BY <2>1, Values, TipAppend
  <2>4. Ascending(h)
    <3>1. \A k \in Packages : Tip(repo[job.pod].head)[k] <= c.tree[k]
      BY <1>1, <2>1, Values DEF RepoInv, WorktreeInv
    <3> QED BY <2>1, <3>1, Values, CommitAscends DEF RepoInv, BranchInv
  <2> HIDE DEF h
  <2>5. BranchInv'
    BY <1>1, <2>2, <2>4 DEF RepoInv, BranchInv
  <2>6. WorktreeInv'
    <3> SUFFICES ASSUME NEW p \in Pods, NEW k \in Packages
                 PROVE  Tip(repo'[p].head)[k] <= repo'[p].tree[k]
      BY DEF WorktreeInv
    <3>1. CASE p = job.pod
      BY <2>2, <2>3, <3>1, Values
    <3>2. CASE p # job.pod
      BY <1>1, <2>2, <3>2 DEF RepoInv, WorktreeInv
    <3> QED BY <3>1, <3>2
  <2>7. ASSUME NEW k, NEW v, AtMost(k, v) PROVE AtMost(k, v)'
    BY <1>1, <2>2, <2>3, <2>7 DEF AtMost
  <2>8. VersionInv'
    BY <1>1, <2>7 DEF RepoInv, VersionInv, PublishSteps
  <2> QED BY <2>5, <2>6, <2>8 DEF RepoInv
<1> QED BY <1>2, <1>3 DEF CommitChanges

(* The remote takes a fast-forward, from the worktree that publishes or by *)
(* the operator, who changes no file.                                      *)
LEMMA RemoteStep ==
  ASSUME TypeOK, RepoInv, UNCHANGED <<repo, desired>>, job.pc # "write",
         NEW to \in PublishSteps \cup PublishResults \cup {"off"},
         job' = [job EXCEPT !.pc = to],
         to \in PublishSteps => job.pc \in PublishSteps,
         remote' \in Seq(Commit), Ascending(remote'),
         Tip(remote') \in {Tip(remote), Tip(repo[job.pod].head)}
  PROVE  RepoInv'
<1>1. /\ job'.pc = to /\ job'.pkg = job.pkg /\ job'.pod = job.pod
      /\ job'.version = job.version
  BY DEF TypeOK, RepoTypeOK, Job
<1>2. BranchInv' /\ WorktreeInv'
  BY DEF RepoInv, BranchInv, WorktreeInv
<1>3. ASSUME NEW k, NEW v, AtMost(k, v) PROVE AtMost(k, v)'
  BY <1>3, Values DEF AtMost
<1>4. VersionInv'
  BY <1>1, <1>3 DEF RepoInv, VersionInv
<1> QED BY <1>2, <1>4 DEF RepoInv

(* A commit of the operator changes no file.                               *)
LEMMA OperatorStep ==
  ASSUME TypeOK, RepoInv, OperatorCommits
  PROVE  Tip(remote') = Tip(remote) /\ Ascending(remote')
<1> DEFINE c == [by |-> "operator", tree |-> Tip(remote)]
<1>1. c \in Commit /\ c.tree = Tip(remote)
  BY Values DEF Commit, Authors
<1>2. remote' = Append(remote, c)
  BY DEF OperatorCommits
<1> HIDE DEF c
<1>3. \A k \in Packages : Tip(remote)[k] <= c.tree[k]
  BY <1>1, Values
<1> QED BY <1>1, <1>2, <1>3, Values, TipAppend, CommitAscends DEF RepoInv, BranchInv

(* What can happen to the branch of the delivery repository.               *)
LEMMA RemoteChanges ==
  ASSUME TypeOK, RepoInv, [Next]_vars
  PROVE  \/ remote' = remote
         \/ /\ remote' = repo[job.pod].head /\ IsPrefix(remote, repo[job.pod].head)
            /\ Ascending(remote') /\ \A k \in Packages : Tip(remote)[k] <= Tip(remote')[k]
         \/ /\ OperatorCommits /\ Tip(remote') = Tip(remote) /\ Ascending(remote')
<1>1. ASSUME remote' = repo[job.pod].head, IsPrefix(remote, repo[job.pod].head)
      PROVE  Ascending(remote') /\ \A k \in Packages : Tip(remote)[k] <= Tip(remote')[k]
  <2>1. /\ remote \in Seq(Commit) /\ repo[job.pod].head \in Seq(Commit)
        /\ Ascending(repo[job.pod].head)
    BY Values DEF RepoInv, BranchInv
  <2> QED BY <1>1, <2>1, FastForward
<1>2. OperatorCommits => Tip(remote') = Tip(remote) /\ Ascending(remote')
  BY OperatorStep
<1>3. CASE RepoNext
  <2>1. \/ remote' = remote
        \/ remote' = repo[job.pod].head /\ IsPrefix(remote, repo[job.pod].head)
        \/ OperatorCommits
    BY <1>3 DEF RepoNext, PublishStep, EnsureWorktree, CleanPackage, WriteArtifacts,
       CommitChanges, Push, RemoteFails, LocalFails, CurrentCommitFails
  <2> QED BY <1>1, <1>2, <2>1
<1>4. CASE ~RepoNext
  <2>1. remote' = remote
    BY <1>4 DEF Next, vars, repoVars, Update, Delete, TargetChanges, Resync, Begin, ArgoSync,
       Reconcile, PublishDone, ensureArgoApplication, RecordDelivery, DeleteRuntime,
       RemoveFinalizer, ApiError, LeaderChange, ReplacePod
  <2> QED BY <2>1
<1> QED BY <1>3, <1>4

(* Each step of the publisher keeps the repositories' invariant, unless it *)
(* is interrupted while it writes.                                         *)
LEMMA PublisherStep ==
  ASSUME TypeOK, TypeOK', RepoInv, RepoNext, UNCHANGED instanceVars, "torn" \notin Disturbances
  PROVE  RepoInv'
<1>0. desired' = desired /\ job = [job EXCEPT !.pc = job.pc]
      /\ job.pc \in PublishSteps \cup PublishResults \cup {"off"} /\ remote' \in Seq(Commit)
  BY DEF instanceVars, TypeOK, RepoTypeOK, Job
<1>1. CASE EnsureWorktree
  BY <1>0, <1>1, CloneStep
<1>2. CASE CleanPackage \/ WriteArtifacts
  BY <1>0, <1>2, FileStep
<1>3. CASE CommitChanges
  BY <1>0, <1>3, CommitStep
<1>4. CASE LocalFails \/ CurrentCommitFails \/ (remote' = remote /\ (Push \/ RemoteFails))
  <2>1. PICK to \in PublishResults : job.pc # "write" /\ job' = [job EXCEPT !.pc = to]
    BY <1>4 DEF LocalFails, CurrentCommitFails, Push, RemoteFails, Step, PublishResults
  <2>2. repo' = repo /\ remote' = remote
    BY <1>4 DEF LocalFails, CurrentCommitFails, Push, RemoteFails
  <2>3. to \notin PublishSteps
    BY DEF PublishSteps, PublishResults
  <2> QED BY <1>0, <2>1, <2>2, <2>3, JobStep
<1>5. CASE remote' # remote /\ (Push \/ RemoteFails)
  <2>1. PICK to \in PublishResults : job.pc # "write" /\ job' = [job EXCEPT !.pc = to]
    BY <1>5 DEF Push, RemoteFails, Step, PublishResults
  <2>2. repo' = repo /\ remote' = repo[job.pod].head /\ IsPrefix(remote, repo[job.pod].head)
    BY <1>5 DEF Push, RemoteFails
  <2>3. to \notin PublishSteps
    BY DEF PublishSteps, PublishResults
  <2>4. Ascending(remote')
    BY <2>2, Values DEF RepoInv, BranchInv
  <2> QED BY <1>0, <2>1, <2>2, <2>3, <2>4, RemoteStep
<1>6. CASE OperatorCommits
  <2>1. repo' = repo /\ job' = job
    BY <1>6 DEF OperatorCommits
  <2>2. Tip(remote') = Tip(remote) /\ Ascending(remote')
    BY <1>6, OperatorStep
  <2>3. BranchInv' /\ WorktreeInv'
    BY <2>1, <2>2 DEF RepoInv, BranchInv, WorktreeInv
  <2>4. VersionInv'
    BY <1>0, <2>1, <2>2 DEF RepoInv, VersionInv, AtMost
  <2> QED BY <2>3, <2>4 DEF RepoInv
<1> QED BY <1>1, <1>2, <1>3, <1>4, <1>5, <1>6 DEF RepoNext, PublishStep

(* A new pod starts with an empty worktree.                                *)
LEMMA ReplaceStep ==
  ASSUME TypeOK, RepoInv, ProgressInv, NEW p \in Pods, ReplacePod(p)
  PROVE  RepoInv'
<1>1. /\ remote' = remote /\ desired' = desired
      /\ job'.pkg = job.pkg /\ job'.pod = job.pod /\ job'.version = job.version
      /\ job' = job \/ job'.pc = "off"
      /\ job' # job => p = leader
  BY DEF ReplacePod, TypeOK, RepoTypeOK, Job
<1>2. /\ repo'[p].head = <<>> /\ \A k \in Packages : repo'[p].tree[k] = 0
      /\ \A q \in Pods \ {p} : repo'[q] = repo[q]
  BY DEF ReplacePod, TypeOK, RepoTypeOK, NoRepo, EmptyTree, Absent
<1>3. \A k \in Packages : Tip(<<>>)[k] = 0
  BY DEF Tip, EmptyTree, Absent
<1>4. BranchInv'
  <2>1. Ascending(<<>>)
    BY DEF Ascending
  <2> QED BY <1>1, <1>2, <2>1 DEF RepoInv, BranchInv
<1>5. WorktreeInv'
  <2> SUFFICES ASSUME NEW q \in Pods, NEW k \in Packages
               PROVE  \/ Tip(repo'[q].head)[k] <= repo'[q].tree[k]
                      \/ job'.pc = "write" /\ job'.pod = q /\ job'.pkg = k
    BY DEF WorktreeInv
  <2>1. CASE q = p
    BY <1>2, <1>3, <2>1
  <2>2. CASE q # p
    <3>1. repo'[q] = repo[q]
      BY <1>2, <2>2
    <3>2. CASE job' = job
      BY <3>1, <3>2 DEF RepoInv, WorktreeInv
    <3>3. CASE job' # job
      <4>1. ~(job.pc = "write" /\ job.pod = q)
        BY <1>1, <2>2, <3>3 DEF ProgressInv
      <4> QED BY <3>1, <4>1 DEF RepoInv, WorktreeInv
    <3> QED BY <3>2, <3>3
  <2> QED BY <2>1, <2>2
<1>6. ASSUME NEW k \in Packages, NEW v \in Int, AtMost(k, v)
      PROVE  AtMost(k, v)'
  <2>1. 0 <= v
    <3>1. Absent <= Tip(remote)[k]
      BY Values, TipNotTorn DEF RepoInv, BranchInv
    <3> QED BY <1>6, <3>1, Values DEF AtMost, Absent
  <2> QED BY <1>1, <1>2, <1>3, <1>6, <2>1 DEF AtMost
<1>7. VersionInv'
  <2>1. \A k \in Packages : AtMost(k, desired[k])'
    BY <1>1, <1>6, Values DEF RepoInv, VersionInv
  <2>2. (job.pc \in PublishSteps => AtMost(job.pkg, job.version))'
    <3> SUFFICES ASSUME job'.pc \in PublishSteps
                 PROVE  AtMost(job.pkg, job.version)'
      OBVIOUS
    <3>1. PICK k \in Packages, v \in Int : k = job.pkg /\ v = job.version
      BY Values
    <3>2. AtMost(k, v)
      BY <1>1, <3>1 DEF RepoInv, VersionInv, PublishSteps
    <3>3. AtMost(k, v)'
      BY <1>6, <3>2
    <3> QED BY <1>1, <3>1, <3>3
  <2> QED BY <1>1, <2>1, <2>2 DEF RepoInv, VersionInv
<1> QED BY <1>4, <1>5, <1>7 DEF RepoInv

(* A reconcile publishes the version its spec has at that moment, and no   *)
(* repository has a newer one.                                             *)
LEMMA BeginStep ==
  ASSUME TypeOK, TypeOK', RepoInv, NEW i \in Instances, Begin(i)
  PROVE  RepoInv'
<1>1. UNCHANGED <<remote, repo, desired>>
  BY DEF Begin
<1>2. CASE job' = job
  <2>1. \A k \in Packages : desired[k] <= desired'[k]
    BY <1>1, Values
  <2> QED BY <1>1, <1>2, <2>1, QuietStep
<1>3. CASE Publish(leader, i, desired[i])
  <2>1. /\ job'.pc = "ensure" /\ job'.pkg = i /\ job'.version = desired[i] /\ job.pc = "off"
        /\ i \in Packages
    BY <1>3 DEF Publish, Instances
  <2>2. BranchInv' /\ WorktreeInv'
    BY <1>1, <2>1 DEF RepoInv, BranchInv, WorktreeInv
  <2>3. \A k \in Packages : AtMost(k, desired[k])'
    BY <1>1 DEF RepoInv, VersionInv, AtMost
  <2>4. (job.version <= desired[job.pkg])'
    BY <1>1, <2>1, Values
  <2>5. AtMost(job.pkg, job.version)'
    BY <1>1, <2>1 DEF RepoInv, VersionInv, AtMost
  <2> QED BY <2>2, <2>3, <2>4, <2>5 DEF RepoInv, VersionInv
<1> QED BY <1>2, <1>3 DEF Begin

(* Each step keeps the repositories' invariant.                            *)
LEMMA NextRepo ==
  ASSUME TypeOK, TypeOK', RepoInv, ProgressInv, [Next]_vars, "torn" \notin Disturbances
  PROVE  RepoInv'
<1>1. CASE \E i \in Instances : Begin(i)
  BY <1>1, BeginStep
<1>2. CASE RepoNext /\ UNCHANGED instanceVars
  BY <1>2, PublisherStep
<1>3. CASE \E p \in Pods : ReplacePod(p)
  BY <1>3, ReplaceStep
<1>4. CASE PublishDone \/ \E p \in Pods : LeaderChange(p)
  <2>1. job.pc # "write" /\ UNCHANGED <<remote, repo, desired>>
        /\ job' = [job EXCEPT !.pc = "off"]
    BY <1>4 DEF PublishDone, LeaderChange, MayStop, PublishResults
  <2> QED BY <2>1, JobStep DEF PublishSteps
<1>5. CASE \/ \E i \in Instances : Update(i) \/ Delete(i) \/ TargetChanges(i)
           \/ \E i \in Instances : Resync(i) \/ ArgoSync(i)
           \/ ensureArgoApplication \/ RecordDelivery \/ DeleteRuntime \/ RemoveFinalizer
           \/ ApiError \/ UNCHANGED vars
  <2>1. UNCHANGED <<remote, repo, job>>
    BY <1>5 DEF Update, Delete, TargetChanges, Resync, ArgoSync, ensureArgoApplication,
       RecordDelivery, DeleteRuntime, RemoveFinalizer, ApiError, vars, repoVars
  <2>2. \A k \in Packages : desired[k] <= desired'[k]
    <3>1. CASE \E i \in Instances : Update(i)
      BY <3>1, Values DEF Update, TypeOK, Instances
    <3>2. CASE ~\E i \in Instances : Update(i)
      <4>1. desired' = desired
        BY <1>5, <3>2 DEF Delete, TargetChanges, Resync, ArgoSync, ensureArgoApplication,
           RecordDelivery, DeleteRuntime, RemoveFinalizer, ApiError, vars, instanceVars
      <4> QED BY <4>1, Values
    <3> QED BY <3>1, <3>2
  <2> QED BY <2>1, <2>2, QuietStep
<1> QED BY <1>1, <1>2, <1>3, <1>4, <1>5 DEF Next, Reconcile

-----------------------------------------------------------------------------
(* What the status tells *)

(* No step takes a package in the delivery repository back.                *)
LEMMA NextGrows ==
  ASSUME TypeOK, RepoInv, [Next]_vars
  PROVE  \A k \in Packages : Tip(remote)[k] \in Int /\ Tip(remote)[k] <= Tip(remote')[k]
<1>1. \A k \in Packages : Tip(remote)[k] \in Int
  BY Values
<1> QED BY <1>1, RemoteChanges

(* Each step of the publisher brings the version one step further.         *)
LEMMA PublisherProgress ==
  ASSUME TypeOK, TypeOK', RepoInv, ProgressInv, RepoNext, UNCHANGED instanceVars
  PROVE  ProgressInv'
<1>0. worker' = worker /\ leader' = leader /\ job.pod \in Pods /\ job.pkg \in Packages
      /\ job.version \in Int
  BY Values DEF instanceVars
<1>1. CASE OperatorCommits
  <2>1. repo' = repo /\ job' = job /\ Tip(remote') = Tip(remote)
    BY <1>1, OperatorStep DEF OperatorCommits
  <2> QED BY <1>0, <2>1 DEF ProgressInv
<1>2. ASSUME NEW from \in PublishSteps, NEW to \in PublishSteps \cup PublishResults,
             Step(from, to),
             (to = "commit" => repo[job.pod].tree[job.pkg] = job.version)',
             (to = "push" => Tip(repo[job.pod].head)[job.pkg] = job.version)',
             (to = "pushed" => job.version <= Tip(remote)[job.pkg])'
      PROVE  ProgressInv'
  <2>1. /\ job.pc = from /\ job'.pc = to /\ job'.pkg = job.pkg /\ job'.pod = job.pod
        /\ job'.version = job.version
    BY <1>2 DEF Step, TypeOK, RepoTypeOK, Job
  <2>2. from # "off" /\ worker.pc = "publish"
    BY <2>1 DEF PublishSteps, ProgressInv
  <2> QED BY <1>0, <1>2, <2>1, <2>2 DEF ProgressInv
<1>j. ASSUME NEW from, NEW to, Step(from, to)
      PROVE  job.pc = from /\ job'.pkg = job.pkg /\ job'.pod = job.pod
             /\ job'.version = job.version
  BY <1>j DEF Step, TypeOK, RepoTypeOK, Job
<1>3. CASE EnsureWorktree
  BY <1>2, <1>3 DEF EnsureWorktree, PublishSteps
<1>4. CASE CleanPackage
  BY <1>2, <1>4 DEF CleanPackage, PublishSteps
<1>5. CASE WriteArtifacts
  <2>1. Step("write", "commit") /\ repo' = [repo EXCEPT ![job.pod].tree[job.pkg] = job.version]
    BY <1>5 DEF WriteArtifacts
  <2>2. repo'[job.pod].tree[job.pkg] = job.version
    BY <1>0, <2>1, Values DEF TypeOK, RepoTypeOK, Repo, Tree
  <2>3. (repo[job.pod].tree[job.pkg] = job.version)'
    BY <1>j, <2>1, <2>2
  <2> QED BY <1>2, <2>1, <2>3 DEF PublishSteps
<1>6. CASE CommitChanges
  <2>1. Step("commit", "push")
    BY <1>6 DEF CommitChanges
  <2>2. Tip(repo'[job.pod].head) = repo[job.pod].tree
    <3> DEFINE c == [by |-> job.pod, tree |-> repo[job.pod].tree]
    <3>1. CASE repo[job.pod].tree = Tip(repo[job.pod].head)
      BY <1>6, <3>1 DEF CommitChanges
    <3>2. CASE repo[job.pod].tree # Tip(repo[job.pod].head)
      <4>1. repo' = [repo EXCEPT ![job.pod].head = Append(@, c)]
        BY <1>6, <3>2 DEF CommitChanges
      <4>2. c \in Commit /\ c.tree = repo[job.pod].tree
        BY Values DEF Commit, Authors
      <4> HIDE DEF c
      <4>3. repo'[job.pod].head = Append(repo[job.pod].head, c)
        BY <1>0, <4>1, Values DEF TypeOK, RepoTypeOK, Repo
      <4> QED BY <1>0, <4>2, <4>3, Values, TipAppend
    <3> QED BY <3>1, <3>2
  <2>3. (Tip(repo[job.pod].head)[job.pkg] = job.version)'
    BY <1>j, <2>1, <2>2 DEF ProgressInv
  <2> QED BY <1>2, <2>1, <2>3 DEF PublishSteps
<1>7. CASE Push
  <2>1. CASE Step("push", "pushed") /\ remote' = repo[job.pod].head
    <3>1. (job.version <= Tip(remote)[job.pkg])'
      <4>1. Tip(remote')[job.pkg] = job.version
        BY <1>j, <2>1 DEF ProgressInv
      <4> QED BY <1>0, <1>j, <2>1, <4>1
    <3> QED BY <1>2, <2>1, <3>1 DEF PublishSteps, PublishResults
  <2>2. CASE Step("push", "failed")
    BY <1>2, <2>2 DEF PublishSteps, PublishResults
  <2> QED BY <1>7, <2>1, <2>2 DEF Push
<1>8. CASE RemoteFails \/ LocalFails \/ CurrentCommitFails
  <2>1. \E from \in PublishSteps, to \in {"failed", "unpushed"} : Step(from, to)
    BY <1>8 DEF RemoteFails, LocalFails, CurrentCommitFails, PublishSteps
  <2> QED BY <1>2, <2>1 DEF PublishResults
<1> QED BY <1>1, <1>3, <1>4, <1>5, <1>6, <1>7, <1>8 DEF RepoNext, PublishStep

(* Each step keeps track of how far the version has come.                  *)
LEMMA NextProgress ==
  ASSUME TypeOK, TypeOK', RepoInv, ProgressInv, [Next]_vars
  PROVE  ProgressInv'
<1>w. worker \in Worker
  BY DEF TypeOK
<1>1. CASE RepoNext /\ UNCHANGED instanceVars
  BY <1>1, PublisherProgress
<1>2. ASSUME NEW i \in Instances, Begin(i) PROVE ProgressInv'
  <2>1. UNCHANGED <<remote, repo, leader>> /\ worker.pc = "idle" /\ job.pc = "off"
    BY <1>2 DEF Begin, ProgressInv
  <2>2. CASE job' = job /\ worker'.pc \in {"idle", "delete"}
    BY <2>1, <2>2 DEF ProgressInv
  <2>3. CASE Publish(leader, i, desired[i])
             /\ worker' = [pc |-> "publish", inst |-> i, client |-> "management"]
    BY <2>1, <2>3 DEF ProgressInv, Publish
  <2> QED BY <1>2, <2>2, <2>3 DEF Begin
<1>3. CASE PublishDone
  <2>1. /\ UNCHANGED <<remote, repo>> /\ job'.pc = "off" /\ job'.pkg = job.pkg
        /\ job'.version = job.version /\ worker.pc = "publish"
    BY <1>3 DEF PublishDone, TypeOK, RepoTypeOK, Job
  <2>2. CASE worker'.pc = "idle"
    BY <2>1, <2>2 DEF ProgressInv
  <2>3. CASE job.pc = "pushed" /\ worker' = [worker EXCEPT !.pc = "argo"]
    BY <1>w, <2>1, <2>3 DEF ProgressInv, Worker
  <2>4. worker'.pc = "idle" \/ (job.pc = "pushed" /\ worker' = [worker EXCEPT !.pc = "argo"])
    BY <1>3, <1>w DEF PublishDone, PersistStatus, Goto, Worker
  <2> QED BY <2>2, <2>3, <2>4
<1>4. CASE ensureArgoApplication
  BY <1>4, <1>w DEF ensureArgoApplication, Goto, ProgressInv, Worker, repoVars
<1>5. CASE RecordDelivery \/ DeleteRuntime \/ RemoveFinalizer \/ ApiError
  <2>1. /\ UNCHANGED <<remote, repo, job, leader>>
        /\ worker.pc \in {"argo", "persist", "delete", "finalize"}
        /\ worker'.pc \in {"idle", "finalize"}
    BY <1>5, <1>w DEF RecordDelivery, DeleteRuntime, RemoveFinalizer, ApiError, PersistStatus,
       Goto, Worker, repoVars
  <2> QED BY <2>1 DEF ProgressInv
<1>6. CASE \E p \in Pods : LeaderChange(p) \/ (ReplacePod(p) /\ p = leader)
  <2>1. job'.pc = "off" /\ worker'.pc = "idle"
    BY <1>6, <1>w DEF LeaderChange, ReplacePod, Goto, Worker, TypeOK, RepoTypeOK, Job
  <2> QED BY <2>1 DEF ProgressInv
<1>7. ASSUME NEW p \in Pods, ReplacePod(p), p # leader PROVE ProgressInv'
  <2>1. UNCHANGED <<remote, job, worker, leader>>
        /\ \A q \in Pods \ {p} : repo'[q] = repo[q]
    BY <1>7 DEF ReplacePod, TypeOK, RepoTypeOK
  <2>2. job.pc # "off" => repo'[job.pod] = repo[job.pod]
    BY <1>7, <2>1, Values DEF ProgressInv
  <2> QED BY <2>1, <2>2 DEF ProgressInv
<1>8. CASE \/ \E i \in Instances : Update(i) \/ Delete(i) \/ TargetChanges(i)
           \/ \E i \in Instances : Resync(i) \/ ArgoSync(i)
           \/ UNCHANGED vars
  <2>1. UNCHANGED <<remote, repo, job, worker, leader>>
    BY <1>8 DEF Update, Delete, TargetChanges, Resync, ArgoSync, vars, repoVars, instanceVars
  <2> QED BY <2>1 DEF ProgressInv
<1> QED BY <1>1, <1>2, <1>3, <1>4, <1>5, <1>6, <1>7, <1>8 DEF Next, Reconcile

(* Each step leaves the status backed by the delivery repository.          *)
LEMMA NextAcked ==
  ASSUME TypeOK, TypeOK', RepoInv, ProgressInv, AckedPublished, [Next]_vars
  PROVE  AckedPublished'
<1>g. \A k \in Packages : /\ Tip(remote)[k] \in Int /\ Tip(remote')[k] \in Int
                          /\ Tip(remote)[k] <= Tip(remote')[k]
  BY NextGrows, TipType, TreeValues DEF TypeOK, RepoTypeOK
<1>v. \A i \in Instances : status[i] \in Status /\ status[i].version \in Int
  BY RepoAssumption DEF TypeOK, Status
<1>k. ASSUME NEW i \in Instances, status'[i] = status[i],
             status'[i].phase \in {"Provisioning", "Ready"}
      PROVE  Tip(remote')[i] >= status'[i].version
  BY <1>g, <1>k, <1>v DEF AckedPublished, Instances
<1>n. ASSUME NEW i \in Instances,
             \A j \in Instances \ {i} : status'[j] = status[j],
             status'[i].phase \in {"Provisioning", "Ready"}
               => Tip(remote')[i] >= status'[i].version
      PROVE  AckedPublished'
  BY <1>k, <1>n DEF AckedPublished
<1>u. ASSUME status' = status PROVE AckedPublished'
  BY <1>k, <1>u DEF AckedPublished
<1>i. worker.inst \in Instances /\ job.version \in Int /\ job \in Job
  BY Values DEF TypeOK, Worker, RepoTypeOK
<1>p. ASSUME NEW new \in Status, NEW requeue \in BOOLEAN,
             PersistStatus(worker.inst, new, requeue),
             new.phase \in {"Provisioning", "Ready"}
               => Tip(remote')[worker.inst] >= new.version
      PROVE  AckedPublished'
  <2>1. /\ status'[worker.inst] = new
        /\ \A j \in Instances \ {worker.inst} : status'[j] = status[j]
    BY <1>i, <1>p, PersistType
  <2>2. PICK i \in Instances : i = worker.inst
    BY <1>i
  <2> QED BY <1>n, <1>p, <2>1, <2>2
<1>1. ASSUME NEW i \in Instances, Begin(i) PROVE AckedPublished'
  <2>1. CASE status' = status
    BY <1>u, <2>1
  <2>2. CASE status' = [status EXCEPT ![i].phase = "Failed"]
    <3>1. status'[i].phase = "Failed" /\ \A j \in Instances \ {i} : status'[j] = status[j]
      BY <1>v, <2>2 DEF TypeOK, Status
    <3> QED BY <1>n, <3>1
  <2> QED BY <1>1, <2>1, <2>2 DEF Begin
<1>2. CASE PublishDone
  <2>1. CASE status' = status
    BY <1>u, <2>1
  <2>2. CASE status' # status
    <3> DEFINE s == [status[worker.inst] EXCEPT !.placed = TRUE]
               failed == [s EXCEPT !.phase = "Failed"]
               degraded == [s EXCEPT !.phase = "Degraded"]
    <3>1. /\ failed \in Status /\ degraded \in Status
          /\ failed.phase = "Failed" /\ degraded.phase = "Degraded"
      BY <1>i, <1>v DEF Status, PhasesOf
    <3>2. PersistStatus(worker.inst, failed, FALSE) \/ PersistStatus(worker.inst, degraded, TRUE)
      BY <1>2, <2>2 DEF PublishDone
    <3> HIDE DEF failed, degraded
    <3> QED BY <1>p, <3>1, <3>2
  <2> QED BY <2>1, <2>2
<1>3. CASE RecordDelivery
  <2>1. PICK phase \in {"Ready", "Provisioning"}, requeue \in BOOLEAN :
          PersistStatus(worker.inst, [phase |-> phase, version |-> job.version,
                                      placed |-> TRUE], requeue)
    BY <1>3 DEF RecordDelivery, applyObservedStatus
  <2>2. [phase |-> phase, version |-> job.version, placed |-> TRUE] \in Status
    <3>1. job.version \in 0..MaxVersion
      BY <1>i, RepoAssumption DEF Job
    <3> QED BY <3>1 DEF Status, PhasesOf
  <2>3. job.version <= Tip(remote)[worker.inst] /\ remote' = remote
    BY <1>3 DEF RecordDelivery, repoVars, ProgressInv
  <2>4. Tip(remote')[worker.inst] >= job.version
    BY <1>g, <1>i, <2>3 DEF Instances
  <2> QED BY <1>p, <2>1, <2>2, <2>4
<1>4. CASE ApiError
  <2>1. CASE status' = status
    BY <1>u, <2>1
  <2>2. CASE status' # status
    <3> DEFINE failed == [status[worker.inst] EXCEPT !.phase = "Failed", !.placed = TRUE]
    <3>1. failed \in Status /\ failed.phase = "Failed"
      BY <1>i, <1>v DEF Status, PhasesOf
    <3>2. PersistStatus(worker.inst, failed, FALSE)
      BY <1>4, <2>2 DEF ApiError
    <3> HIDE DEF failed
    <3> QED BY <1>p, <3>1, <3>2
  <2> QED BY <2>1, <2>2
<1>5. CASE \/ \E i \in Instances : Update(i) \/ Delete(i) \/ TargetChanges(i)
           \/ \E i \in Instances : Resync(i) \/ ArgoSync(i)
           \/ ensureArgoApplication \/ DeleteRuntime \/ RemoveFinalizer
           \/ RepoNext /\ UNCHANGED instanceVars
           \/ \E p \in Pods : LeaderChange(p) \/ ReplacePod(p)
           \/ UNCHANGED vars
  <2>1. status' = status
    BY <1>5 DEF Update, Delete, TargetChanges, Resync, ArgoSync, ensureArgoApplication,
       DeleteRuntime, RemoveFinalizer, LeaderChange, ReplacePod, vars, instanceVars
  <2> QED BY <1>u, <2>1
<1> QED BY <1>1, <1>2, <1>3, <1>4, <1>5 DEF Next, Reconcile

-----------------------------------------------------------------------------
(* Theorems *)

(* The initial state satisfies the invariant.                              *)
LEMMA InitInv == Init => Inv
<1> SUFFICES ASSUME Init PROVE Inv
  OBVIOUS
<1>1. TypeOK
  BY InitType
<1>2. PICK q \in Pods, i \in Packages : job = [pc |-> "off", pod |-> q, pkg |-> i, version |-> 1]
  BY DEF Init, RepoInit
<1>3. remote = <<>> /\ \A p \in Pods : repo[p] = NoRepo
  BY DEF Init, RepoInit
<1>4. Ascending(<<>>) /\ \A k \in Packages : Tip(<<>>)[k] = 0
  BY DEF Ascending, Tip, EmptyTree, Absent
<1>5. \A p \in Pods : repo[p].head = <<>> /\ \A k \in Packages : repo[p].tree[k] = 0
  BY <1>3 DEF NoRepo, EmptyTree, Absent
<1>6. BranchInv /\ WorktreeInv
  BY <1>3, <1>4, <1>5 DEF BranchInv, WorktreeInv
<1>7. VersionInv
  <2>1. \A k \in Packages : desired[k] = 1
    BY DEF Init, Instances
  <2>2. \A k \in Packages : AtMost(k, 1)
    BY <1>3, <1>4, <1>5 DEF AtMost
  <2>3. job.pc \notin PublishSteps /\ job.version <= desired[job.pkg]
    BY <1>2, <2>1 DEF PublishSteps
  <2> QED BY <2>1, <2>2, <2>3 DEF VersionInv
<1>8. ProgressInv
  <2>1. PICK j \in Instances : worker = [pc |-> "idle", inst |-> j, client |-> "management"]
    BY DEF Init
  <2> QED BY <1>2, <2>1 DEF ProgressInv
<1>9. AckedPublished
  BY DEF Init, AckedPublished
<1> QED BY <1>1, <1>6, <1>7, <1>8, <1>9 DEF Inv

(* Every reachable state is well typed.                                    *)
THEOREM DeliveryTypeCorrect == Spec => []TypeOK
BY InitType, NextType, PTL DEF Spec

(* Every reachable state satisfies the invariant.                          *)
LEMMA Invariance ==
  ASSUME "torn" \notin Disturbances
  PROVE  Spec => []Inv
<1>1. Inv /\ [Next]_vars => Inv'
  <2> SUFFICES ASSUME Inv, [Next]_vars PROVE Inv'
    OBVIOUS
  <2>1. TypeOK'
    BY NextType DEF Inv
  <2> QED BY <2>1, NextRepo, NextProgress, NextAcked DEF Inv, RepoInv
<1> QED BY InitInv, <1>1, PTL DEF Spec

(* A status that shows an instance provisioning or ready at a version is   *)
(* backed by the delivery repository, for any number of pods, failing      *)
(* pushes, failovers of the leader and replaced pods.                      *)
THEOREM AckedIsPublished ==
  ASSUME "torn" \notin Disturbances
  PROVE  Spec => []AckedPublished
<1>1. Inv => AckedPublished
  BY DEF Inv
<1> QED BY Invariance, <1>1, PTL

(* What Argo CD deploys never goes back to an earlier version: whichever   *)
(* worktree pushes, the remote takes only its fast-forwards, and along     *)
(* every branch the versions ascend.                                       *)
THEOREM RepositoryNeverRollsBack ==
  ASSUME "torn" \notin Disturbances
  PROVE  Spec => NeverRollsBack
<1>1. Inv /\ [Next]_vars => [\A k \in Packages : Tip(remote)[k] <= Tip(remote')[k]]_remote
  BY NextGrows DEF Inv, RepoInv
<1>2. Spec => [][\A k \in Packages : Tip(remote)[k] <= Tip(remote')[k]]_remote
  BY Invariance, <1>1, PTL DEF Spec
<1> QED BY <1>2 DEF NeverRollsBack

-----------------------------------------------------------------------------
(* Delivery as its users see it *)

(* No status, whatever its phase, is ahead of the delivery repository or   *)
(* of the version that is being delivered.                                 *)
AckInv ==
  /\ \A i \in Instances : status[i].version <= Tip(remote)[i]
  /\ worker.pc \in {"publish", "argo", "persist"}
     => status[worker.inst].version <= job.version

(* The version in a status changes only where a delivery is recorded.      *)
LEMMA StatusVersions ==
  ASSUME TypeOK, TypeOK', [Next]_vars
  PROVE  \/ \A i \in Instances : status'[i].version = status[i].version
         \/ /\ RecordDelivery /\ worker'.pc = "idle"
            /\ status'[worker.inst].version = job.version
            /\ \A i \in Instances \ {worker.inst} : status'[i].version = status[i].version
<1> DEFINE Same == \A i \in Instances : status'[i].version = status[i].version
<1>i. worker.inst \in Instances /\ job \in Job /\ job.version \in Int
      /\ \A i \in Instances : status[i] \in Status
  BY Values DEF TypeOK, Worker, RepoTypeOK
<1>p. ASSUME NEW new \in Status, NEW requeue \in BOOLEAN,
             PersistStatus(worker.inst, new, requeue),
             new.version = status[worker.inst].version
      PROVE  Same
  <2>1. /\ status'[worker.inst] = new
        /\ \A j \in Instances \ {worker.inst} : status'[j] = status[j]
    BY <1>i, <1>p, PersistType
  <2>2. PICK i \in Instances : i = worker.inst
    BY <1>i
  <2> QED BY <1>p, <2>1, <2>2
<1>1. ASSUME NEW i \in Instances, Begin(i) PROVE Same
  <2>1. CASE status' = status
    BY <2>1
  <2>2. CASE status' = [status EXCEPT ![i].phase = "Failed"]
    <3>1. /\ status'[i].version = status[i].version
          /\ \A j \in Instances \ {i} : status'[j] = status[j]
      BY <1>i, <2>2 DEF TypeOK, Status
    <3> QED BY <3>1
  <2> QED BY <1>1, <2>1, <2>2 DEF Begin
<1>2. CASE PublishDone
  <2>1. CASE status' = status
    BY <2>1
  <2>2. CASE status' # status
    <3> DEFINE s == [status[worker.inst] EXCEPT !.placed = TRUE]
               failed == [s EXCEPT !.phase = "Failed"]
               degraded == [s EXCEPT !.phase = "Degraded"]
    <3>1. /\ failed \in Status /\ degraded \in Status
          /\ failed.version = status[worker.inst].version
          /\ degraded.version = status[worker.inst].version
      BY <1>i DEF Status, PhasesOf
    <3>2. PersistStatus(worker.inst, failed, FALSE) \/ PersistStatus(worker.inst, degraded, TRUE)
      BY <1>2, <2>2 DEF PublishDone
    <3> HIDE DEF failed, degraded
    <3> QED BY <1>p, <3>1, <3>2
  <2> QED BY <2>1, <2>2
<1>3. CASE RecordDelivery
  <2>1. PICK phase \in {"Ready", "Provisioning"}, requeue \in BOOLEAN :
          PersistStatus(worker.inst, [phase |-> phase, version |-> job.version,
                                      placed |-> TRUE], requeue)
    BY <1>3 DEF RecordDelivery, applyObservedStatus
  <2> DEFINE new == [phase |-> phase, version |-> job.version, placed |-> TRUE]
  <2>2. new \in Status /\ new.version = job.version
    <3>1. job.version \in 0..MaxVersion
      BY <1>i, RepoAssumption DEF Job
    <3> QED BY <3>1 DEF Status, PhasesOf
  <2>3. PersistStatus(worker.inst, new, requeue)
    BY <2>1
  <2> HIDE DEF new
  <2>4. /\ worker'.pc = "idle" /\ status'[worker.inst] = new
        /\ \A j \in Instances \ {worker.inst} : status'[j] = status[j]
    BY <1>i, <2>2, <2>3, PersistType
  <2> QED BY <1>3, <2>2, <2>4
<1>4. CASE ApiError
  <2>1. CASE status' = status
    BY <2>1
  <2>2. CASE status' # status
    <3> DEFINE failed == [status[worker.inst] EXCEPT !.phase = "Failed", !.placed = TRUE]
    <3>1. failed \in Status /\ failed.version = status[worker.inst].version
      BY <1>i DEF Status, PhasesOf
    <3>2. PersistStatus(worker.inst, failed, FALSE)
      BY <1>4, <2>2 DEF ApiError
    <3> HIDE DEF failed
    <3> QED BY <1>p, <3>1, <3>2
  <2> QED BY <2>1, <2>2
<1>5. CASE \/ \E i \in Instances : Update(i) \/ Delete(i) \/ TargetChanges(i)
           \/ \E i \in Instances : Resync(i) \/ ArgoSync(i)
           \/ ensureArgoApplication \/ DeleteRuntime \/ RemoveFinalizer
           \/ RepoNext /\ UNCHANGED instanceVars
           \/ \E p \in Pods : LeaderChange(p) \/ ReplacePod(p)
           \/ UNCHANGED vars
  <2>1. status' = status
    BY <1>5 DEF Update, Delete, TargetChanges, Resync, ArgoSync, ensureArgoApplication,
       DeleteRuntime, RemoveFinalizer, LeaderChange, ReplacePod, vars, instanceVars
  <2> QED BY <2>1
<1> QED BY <1>1, <1>2, <1>3, <1>4, <1>5 DEF Next, Reconcile

(* A delivery in progress began with its instance's spec or goes on.       *)
LEMMA DeliverySteps ==
  ASSUME TypeOK, [Next]_vars, worker'.pc \in {"publish", "argo", "persist"}
  PROVE  \/ /\ worker.pc \in {"publish", "argo", "persist"}
            /\ worker'.inst = worker.inst /\ job'.version = job.version
         \/ \E i \in Instances : worker'.inst = i /\ job'.version = desired[i]
<1>w. worker \in Worker /\ job \in Job
  BY DEF TypeOK, RepoTypeOK
<1>1. CASE RepoNext /\ UNCHANGED instanceVars
  <2>1. worker' = worker
    BY <1>1 DEF instanceVars
  <2>2. job'.version = job.version
    <3>1. job' = job \/ \E from, to : Step(from, to)
      BY <1>1 DEF RepoNext, PublishStep, EnsureWorktree, CleanPackage, WriteArtifacts,
         CommitChanges, Push, RemoteFails, LocalFails, CurrentCommitFails, OperatorCommits
    <3> QED BY <1>w, <3>1 DEF Step, Job
  <2> QED BY <2>1, <2>2
<1>2. ASSUME NEW i \in Instances, Begin(i)
      PROVE  worker'.inst = i /\ job'.version = desired[i]
  <2>1. \/ worker'.pc \in {"idle", "delete"}
        \/ /\ Publish(leader, i, desired[i])
           /\ worker' = [pc |-> "publish", inst |-> i, client |-> "management"]
    BY <1>2 DEF Begin
  <2> QED BY <2>1 DEF Publish
<1>3. CASE PublishDone
  <2>1. /\ job'.version = job.version /\ worker.pc = "publish" /\ worker'.inst = worker.inst
    BY <1>3, <1>w DEF PublishDone, PersistStatus, Goto, Worker, Job
  <2> QED BY <2>1
<1>4. CASE ensureArgoApplication
  BY <1>4, <1>w DEF ensureArgoApplication, Goto, Worker, repoVars
<1>5. CASE RecordDelivery \/ DeleteRuntime \/ RemoveFinalizer \/ ApiError
  <2>1. worker'.pc \in {"idle", "finalize"}
    BY <1>5, <1>w DEF RecordDelivery, DeleteRuntime, RemoveFinalizer, ApiError, PersistStatus,
       Goto, Worker
  <2> QED BY <2>1
<1>6. CASE \E p \in Pods : LeaderChange(p) \/ ReplacePod(p)
  <2>1. worker'.pc = "idle" \/ UNCHANGED <<worker, job>>
    BY <1>6, <1>w DEF LeaderChange, ReplacePod, Goto, Worker
  <2> QED BY <2>1
<1>7. CASE \/ \E i \in Instances : Update(i) \/ Delete(i) \/ TargetChanges(i)
           \/ \E i \in Instances : Resync(i) \/ ArgoSync(i)
           \/ UNCHANGED vars
  <2>1. UNCHANGED <<worker, job>>
    BY <1>7 DEF Update, Delete, TargetChanges, Resync, ArgoSync, vars, repoVars, instanceVars
  <2> QED BY <2>1
<1> QED BY <1>1, <1>2, <1>3, <1>4, <1>5, <1>6, <1>7 DEF Next, Reconcile

(* Each step keeps every status behind the delivery repository.            *)
LEMMA NextAhead ==
  ASSUME Inv, TypeOK', AckInv, [Next]_vars
  PROVE  AckInv'
<1>0. TypeOK /\ RepoInv /\ ProgressInv /\ worker.inst \in Packages /\ Instances = Packages
  BY DEF Inv, RepoInv, TypeOK, Worker, Instances
<1>g. \A k \in Packages : /\ Tip(remote)[k] \in Int /\ Tip(remote')[k] \in Int
                          /\ Tip(remote)[k] <= Tip(remote')[k]
                          /\ desired[k] \in Int /\ Tip(remote)[k] <= desired[k]
                          /\ status[k].version \in Int /\ status[k].version <= Tip(remote)[k]
  <2>1. \A k \in Packages : Tip(remote)[k] \in Int /\ Tip(remote')[k] \in Int
                            /\ Tip(remote)[k] <= Tip(remote')[k] /\ desired[k] \in Int
    BY <1>0, NextGrows, Values, TipType, TreeValues DEF TypeOK, RepoTypeOK
  <2>2. \A k \in Packages : status[k].version \in Int
    BY <1>0, RepoAssumption DEF TypeOK, Status
  <2> QED BY <1>0, <2>1, <2>2 DEF AckInv, RepoInv, VersionInv, AtMost
<1>1. \A i \in Packages : status'[i].version <= Tip(remote')[i]
  <2>1. CASE \A i \in Packages : status'[i].version = status[i].version
    BY <1>g, <2>1
  <2>2. CASE /\ RecordDelivery /\ status'[worker.inst].version = job.version
             /\ \A i \in Packages \ {worker.inst} : status'[i].version = status[i].version
    <3>1. job.version <= Tip(remote)[worker.inst] /\ job.version \in Int
      BY <1>0, <2>2, Values DEF RecordDelivery, ProgressInv
    <3>2. PICK k \in Packages : k = worker.inst
      BY <1>0
    <3> QED BY <1>g, <2>2, <3>1, <3>2
  <2> QED BY <1>0, <2>1, <2>2, StatusVersions
<1>2. ASSUME worker'.pc \in {"publish", "argo", "persist"}
      PROVE  status'[worker'.inst].version <= job'.version
  <2>0. \A i \in Packages : status'[i].version = status[i].version
    BY <1>0, <1>2, StatusVersions
  <2>1. CASE /\ worker.pc \in {"publish", "argo", "persist"}
             /\ worker'.inst = worker.inst /\ job'.version = job.version
    BY <1>0, <2>0, <2>1 DEF AckInv
  <2>2. ASSUME NEW i \in Packages, worker'.inst = i, job'.version = desired[i]
        PROVE  status'[worker'.inst].version <= job'.version
    BY <1>g, <2>0, <2>2
  <2> QED BY <1>0, <1>2, <2>1, <2>2, DeliverySteps
<1> QED BY <1>0, <1>1, <1>2 DEF AckInv

(* The initial states of the controller are those of the promise.          *)
LEMMA PromiseInit == Init => Promise!Init
<1> SUFFICES ASSUME Init PROVE Promise!Init
  OBVIOUS
<1>1. desired = [k \in Packages |-> 1]
  BY DEF Init, Instances
<1>2. Tip(remote) = [k \in Packages |-> 0]
  BY DEF Init, RepoInit, Tip, EmptyTree, Absent
<1>3. [i \in Instances |-> status[i].version] = [k \in Packages |-> 0]
  BY DEF Init, Instances
<1>4. runtime = [k \in Packages |-> 0]
  BY DEF Init, Instances, Absent
<1> QED BY <1>1, <1>2, <1>3, <1>4 DEF Promise!Init

(* Each step of the controller, the publisher, Argo CD, the users or a     *)
(* fault is a step of the promise or changes nothing a user sees.          *)
LEMMA PromiseStep ==
  ASSUME Inv, Inv', AckInv, AckInv', [Next]_vars
  PROVE  [Promise!Next]_Promise!deliveryVars
<1> DEFINE acked == [i \in Instances |-> status[i].version]
<1>0. TypeOK /\ TypeOK' /\ RepoInv /\ ProgressInv /\ Instances = Packages
      /\ worker.inst \in Packages /\ VersionInv' /\ BranchInv'
  BY DEF Inv, RepoInv, TypeOK, Worker, Instances
<1>a. ASSUME \A i \in Packages : status'[i].version = status[i].version
      PROVE  acked' = acked
  BY <1>a, <1>0 DEF Instances
<1>1. ASSUME NEW i \in Packages, Update(i) PROVE Promise!Next
  <2>1. /\ desired' = [desired EXCEPT ![i] = @ + 1]
        /\ remote' = remote /\ runtime' = runtime /\ status' = status
    BY <1>1 DEF Update, repoVars
  <2>2. Promise!Want(i)
    BY <2>1 DEF Promise!Want
  <2> QED BY <2>2 DEF Promise!Next
<1>2. CASE RepoNext /\ UNCHANGED instanceVars
  <2>1. desired' = desired /\ runtime' = runtime /\ status' = status
    BY <1>2 DEF instanceVars
  <2>2. Tip(remote') \in Tree /\ remote' \in Seq(Commit)
    BY <1>0, TipType DEF TypeOK, RepoTypeOK
  <2>3. \A k \in Packages : Tip(remote')[k] \in Nat
    <3>1. \A k \in Packages : Tip(remote')[k] \in Int
      BY <2>2, TreeValues
    <3>2. \A k \in Packages : Absent <= Tip(remote')[k]
      BY <1>0, <2>2, TipNotTorn DEF BranchInv
    <3> QED BY <3>1, <3>2 DEF Absent
  <2>4. Tip(remote') \in [Packages -> Nat]
    BY <2>2, <2>3 DEF Tree
  <2>5. \A k \in Packages : Tip(remote)[k] <= Tip(remote')[k]
    BY <1>0, NextGrows
  <2>6. \A k \in Packages : Tip(remote')[k] <= desired[k]
    BY <1>0, <2>1 DEF VersionInv, AtMost
  <2>7. Promise!Publish
    BY <2>1, <2>4, <2>5, <2>6 DEF Promise!Publish
  <2> QED BY <2>7 DEF Promise!Next
<1>3. ASSUME NEW i \in Packages, ArgoSync(i) PROVE Promise!Next
  <2>1. /\ runtime' = [runtime EXCEPT ![i] = Tip(remote)[i]]
        /\ remote' = remote /\ desired' = desired /\ status' = status
    BY <1>3 DEF ArgoSync, repoVars
  <2>2. Promise!Deploy(i)
    BY <2>1 DEF Promise!Deploy
  <2> QED BY <2>2 DEF Promise!Next
<1>4. CASE DeleteRuntime
  <2>1. remote' = remote /\ desired' = desired /\ status' = status
    BY <1>4 DEF DeleteRuntime, repoVars
  <2>2. CASE runtime' = runtime
    BY <2>1, <2>2 DEF Promise!deliveryVars
  <2>3. CASE runtime' = [runtime EXCEPT ![worker.inst] = Absent]
    <3>1. PICK k \in Packages : k = worker.inst
      BY <1>0
    <3>2. Promise!Undeploy(k)
      BY <2>1, <2>3, <3>1 DEF Promise!Undeploy, Absent
    <3> QED BY <3>2 DEF Promise!Next
  <2> QED BY <1>4, <2>2, <2>3 DEF DeleteRuntime
<1>5. CASE RecordDelivery
  <2>1. remote' = remote /\ desired' = desired /\ runtime' = runtime
    BY <1>5 DEF RecordDelivery, repoVars
  <2>2. CASE \A i \in Packages : status'[i].version = status[i].version
    BY <1>a, <2>1, <2>2 DEF Promise!deliveryVars
  <2>3. CASE /\ status'[worker.inst].version = job.version
             /\ \A i \in Packages \ {worker.inst} : status'[i].version = status[i].version
    <3>1. PICK k \in Packages : k = worker.inst
      BY <1>0
    <3>2. PICK v : v = job.version
      OBVIOUS
    <3>3. status[k].version <= v /\ v <= Tip(remote)[k]
      BY <1>0, <1>5, <3>1, <3>2 DEF RecordDelivery, AckInv, ProgressInv
    <3>4. status[k].version \in Int /\ v \in Int /\ Tip(remote)[k] \in Int
      BY <1>0, <3>2, Values, RepoAssumption DEF TypeOK, Status
    <3>5. v \in acked[k]..Tip(remote)[k]
      BY <1>0, <3>3, <3>4
    <3>6. acked' = [acked EXCEPT ![k] = v]
      BY <1>0, <2>3, <3>1, <3>2 DEF Instances
    <3> HIDE DEF acked
    <3>7. Promise!Acknowledge(k)
      BY <2>1, <3>5, <3>6 DEF Promise!Acknowledge, acked
    <3> QED BY <3>7 DEF Promise!Next
  <2> QED BY <1>0, <2>2, <2>3, StatusVersions
<1>6. CASE \/ \E i \in Instances : Delete(i) \/ TargetChanges(i) \/ Resync(i) \/ Begin(i)
           \/ PublishDone \/ ensureArgoApplication \/ RemoveFinalizer \/ ApiError
           \/ \E p \in Pods : LeaderChange(p) \/ ReplacePod(p)
           \/ UNCHANGED vars
  <2>1. remote' = remote /\ desired' = desired /\ runtime' = runtime
    BY <1>6 DEF Delete, TargetChanges, Resync, Begin, PublishDone, ensureArgoApplication,
       RemoveFinalizer, ApiError, LeaderChange, ReplacePod, vars, repoVars, instanceVars
  <2>2. CASE \A i \in Packages : status'[i].version = status[i].version
    BY <1>a, <2>1, <2>2 DEF Promise!deliveryVars
  <2>3. CASE RecordDelivery
    BY <1>5, <2>3
  <2> QED BY <1>0, <2>2, <2>3, StatusVersions
<1> QED BY <1>0, <1>1, <1>2, <1>3, <1>4, <1>5, <1>6 DEF Next, Reconcile

(* The ServiceInstance controller, with the publisher's worktrees, pushes  *)
(* and faults, implements what VersionedDelivery promises: what is         *)
(* published follows the specs, what a status acknowledges follows what is *)
(* published, neither goes back, and what runs was published.              *)
THEOREM DeliveryKeepsItsPromise ==
  ASSUME "torn" \notin Disturbances
  PROVE  Spec => ImplementsVersionedDelivery
<1>1. Init => AckInv
  <2> SUFFICES ASSUME Init PROVE AckInv
    OBVIOUS
  <2>1. PICK j \in Instances : worker = [pc |-> "idle", inst |-> j, client |-> "management"]
    BY DEF Init
  <2>2. \A i \in Instances : status[i].version = 0 /\ Tip(remote)[i] = 0
    BY DEF Init, RepoInit, Tip, EmptyTree, Absent, Instances
  <2> QED BY <2>1, <2>2 DEF AckInv
<1>2. Inv /\ Inv' /\ AckInv /\ [Next]_vars => AckInv'
  BY NextAhead DEF Inv
<1>3. Spec => []AckInv
  BY Invariance, <1>1, <1>2, PTL DEF Spec
<1>4. Inv /\ Inv' /\ AckInv /\ AckInv' /\ [Next]_vars => [Promise!Next]_Promise!deliveryVars
  BY PromiseStep
<1> QED BY Invariance, PromiseInit, <1>3, <1>4, PTL DEF Spec, Promise!Spec,
   ImplementsVersionedDelivery

=============================================================================
