----------------------------- MODULE DeliveryRepo -----------------------------
(***************************************************************************)
(* The Git publisher (internal/deliveryrepo/publisher.go): how one manager *)
(* pod turns the artifacts of a package into a commit of its worktree and  *)
(* a push to the delivery repository. Every pod has a worktree of its own, *)
(* on a volume that outlives the container and not the pod, clones into it *)
(* once and never fetches again.                                           *)
(***************************************************************************)
EXTENDS Integers, Sequences, SequencesExt

CONSTANTS
  Packages,      \* the package paths, one per ServiceInstance
  Pods,          \* the replicas of the manager
  MaxVersion,    \* bound on the versions of a package
  MaxFaults,     \* bound on faults of any kind
  Disturbances   \* which faults happen besides lost calls and restarts

(* A step interrupted between RemoveAll and the last file it writes, and a *)
(* commit that somebody else pushes to the delivery repository.            *)
DisturbanceKinds == {"torn", "operator"}

ASSUME RepoAssumption ==
  /\ MaxVersion \in Nat \ {0}
  /\ MaxFaults \in Nat
  /\ Disturbances \subseteq DisturbanceKinds

VARIABLES
  remote,   \* the commits on the branch of the delivery repository
  repo,     \* each pod's worktree: is it cloned, its commits and its files
  job,      \* the Publish call in progress
  faults    \* faults so far

repoVars == <<remote, repo, job, faults>>

-----------------------------------------------------------------------------
(* What the files of a package are: none, the version they were rendered   *)
(* from, or a directory that was emptied and not completely rewritten.     *)
Absent == 0
Torn == -1
Tree == [Packages -> {Torn, Absent} \cup 1..MaxVersion]
EmptyTree == [k \in Packages |-> Absent]

(* Commits of two authors are different even if they hold the same files.  *)
Authors == Pods \cup {"operator"}
Commit == [by : Authors, tree : Tree]
Tip(commits) == IF commits = <<>> THEN EmptyTree ELSE Last(commits).tree

Repo == [cloned : BOOLEAN, head : Seq(Commit), tree : Tree]
NoRepo == [cloned |-> FALSE, head |-> <<>>, tree |-> EmptyTree]

PublishSteps == {"ensure", "clean", "write", "commit", "push"}
PublishResults == {"pushed", "unpushed", "failed"}
Job == [pc : PublishSteps \cup PublishResults \cup {"off"}, pod : Pods,
        pkg : Packages, version : 1..MaxVersion]

RepoInit ==
  /\ remote = <<>>
  /\ repo = [p \in Pods |-> NoRepo]
  /\ \E p \in Pods, k \in Packages :
       job = [pc |-> "off", pod |-> p, pkg |-> k, version |-> 1]
  /\ faults = 0

-----------------------------------------------------------------------------
(* Publish *)

Publish(p, k, v) ==
  /\ job.pc = "off"
  /\ job' = [pc |-> "ensure", pod |-> p, pkg |-> k, version |-> v]

Step(from, to) == job.pc = from /\ job' = [job EXCEPT !.pc = to]
Fault == faults < MaxFaults /\ faults' = faults + 1

(* A worktree that has a .git directory is used as it is.                  *)
EnsureWorktree ==
  /\ Step("ensure", "clean")
  /\ repo' = IF repo[job.pod].cloned THEN repo
             ELSE [repo EXCEPT ![job.pod] = [cloned |-> TRUE, head |-> remote,
                                             tree |-> Tip(remote)]]
  /\ UNCHANGED <<remote, faults>>

CleanPackage ==
  /\ Step("clean", "write")
  /\ repo' = [repo EXCEPT ![job.pod].tree[job.pkg] = Torn]
  /\ UNCHANGED <<remote, faults>>

WriteArtifacts ==
  /\ Step("write", "commit")
  /\ repo' = [repo EXCEPT ![job.pod].tree[job.pkg] = job.version]
  /\ UNCHANGED <<remote, faults>>

(* Mutant: a worktree without changes has nothing to push.                 *)
CommitChangesOnly ==
  LET local == repo[job.pod]
  IN  /\ IF local.tree = Tip(local.head)
         THEN Step("commit", "pushed") /\ UNCHANGED repo
         ELSE /\ Step("commit", "push")
              /\ repo' = [repo EXCEPT ![job.pod].head =
                            Append(@, [by |-> job.pod, tree |-> local.tree])]
      /\ UNCHANGED <<remote, faults>>

(* git add --all and git commit: every difference in the worktree goes in, *)
(* whichever package it belongs to. Without one, HEAD is pushed again.     *)
CommitChanges ==
  LET local == repo[job.pod]
  IN  /\ Step("commit", "push")
      /\ repo' = IF local.tree = Tip(local.head) THEN repo
                 ELSE [repo EXCEPT ![job.pod].head =
                         Append(@, [by |-> job.pod, tree |-> local.tree])]
      /\ UNCHANGED <<remote, faults>>

(* Mutant: git push --force.                                               *)
PushForced ==
  /\ Step("push", "pushed")
  /\ remote' = repo[job.pod].head
  /\ UNCHANGED <<repo, faults>>

(* The remote takes a fast-forward and rejects everything else.            *)
Push ==
  LET head == repo[job.pod].head
  IN  /\ \/ IsPrefix(remote, head) /\ Step("push", "pushed") /\ remote' = head
         \/ ~IsPrefix(remote, head) /\ Step("push", "failed") /\ UNCHANGED remote
      /\ UNCHANGED <<repo, faults>>

-----------------------------------------------------------------------------
(* Faults *)

(* The clone or the push does not reach the remote, or its answer is lost. *)
RemoteFails ==
  /\ Fault
  /\ \/ /\ ~repo[job.pod].cloned
        /\ Step("ensure", "failed")
        /\ UNCHANGED remote
     \/ /\ Step("push", "failed")
        /\ \/ UNCHANGED remote
           \/ /\ IsPrefix(remote, repo[job.pod].head)
              /\ remote' = repo[job.pod].head
  /\ UNCHANGED repo

(* A file or git operation on the worktree fails and leaves it as it is.   *)
LocalFails ==
  /\ Fault
  /\ \/ Step("clean", "failed")
     \/ "torn" \in Disturbances /\ Step("write", "failed")
     \/ Step("commit", "failed")
  /\ UNCHANGED <<remote, repo>>

(* Nothing to commit, and git rev-parse fails: a result without a commit.  *)
CurrentCommitFails ==
  /\ Fault
  /\ repo[job.pod].tree = Tip(repo[job.pod].head)
  /\ Step("commit", "unpushed")
  /\ UNCHANGED <<remote, repo>>

OperatorCommits ==
  /\ "operator" \in Disturbances
  /\ Fault
  /\ remote' = Append(remote, [by |-> "operator", tree |-> Tip(remote)])
  /\ UNCHANGED <<repo, job>>

(* The process may stop here: the worktree has no half-written package, or *)
(* the run is about those.                                                 *)
MayStop == job.pc = "write" => "torn" \in Disturbances

PublishStep ==
  EnsureWorktree \/ CleanPackage \/ WriteArtifacts \/ CommitChanges \/ Push

RepoNext ==
  PublishStep \/ RemoteFails \/ LocalFails \/ CurrentCommitFails \/ OperatorCommits

-----------------------------------------------------------------------------
(* Properties *)

RepoTypeOK ==
  /\ remote \in Seq(Commit)
  /\ repo \in [Pods -> Repo]
  /\ job \in Job
  /\ faults \in Nat

(* What Argo CD deploys from the delivery repository never goes back to an *)
(* earlier version of a package, whichever pods publish and however many   *)
(* pushes fail: a worktree that misses commits cannot push.                *)
NeverRollsBack ==
  [][\A k \in Packages : Tip(remote)[k] <= Tip(remote')[k]]_remote

=============================================================================
