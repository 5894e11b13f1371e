------------------------------ MODULE Failover ------------------------------
(***************************************************************************)
(* Which cluster of a multi-cluster database is the primary, and who says  *)
(* so. A failover, a rollback or a resync request is executed by the       *)
(* ActionRequest controller: for MySQL it updates spec.parameters, for     *)
(* Valkey it patches status.cacheTopology. The ServiceInstance controller  *)
(* renders what it read, and for Valkey writes the topology it computed    *)
(* from that read back into the same status. Both run in one manager, on   *)
(* one informer cache.                                                     *)
(***************************************************************************)
EXTENDS Integers, Sequences, SequencesExt, FiniteSets

CONSTANTS
  Clusters,      \* the clusters of the instance
  Home,          \* the primary its parameters ask for at first
  Products,      \* the products looked at
  MaxActions,    \* bound on the actions requested
  MaxEdits,      \* bound on updates of the parameters by users
  MaxLag,        \* bound on the versions the cache may be behind by
  MaxFaults      \* bound on restarts of the manager

None == "none"

ASSUME FailoverAssumption ==
  /\ IsFiniteSet(Clusters) /\ Home \in Clusters /\ Cardinality(Clusters) > 1
  /\ None \notin Clusters
  /\ Products \subseteq {"mysql", "valkey"}
  /\ MaxActions \in Nat /\ MaxEdits \in Nat /\ MaxFaults \in Nat
  /\ MaxLag \in Nat \ {0}

VARIABLES
  product,     \* the product of the instance
  server,      \* the instance at the API server
  cache,       \* the version of it in the informer cache
  pend,        \* the versions the watch has not delivered
  queue,       \* is the instance in its controller's work queue
  inst,        \* the ServiceInstance reconcile in progress
  act,         \* the action in progress
  published,   \* the cluster the delivered packages make the primary
  promoted,    \* the cluster the last promotion that was written chose
  count        \* actions, edits and restarts so far

vars == <<product, server, cache, pend, queue, inst, act, published, promoted,
          count>>

-----------------------------------------------------------------------------
Lags == {"unknown", "low", "high"}
Standby == [cluster : Clusters, ready : BOOLEAN, resync : BOOLEAN, lag : Lags]

(* The parameters of MySQL and the cacheTopology of Valkey share their     *)
(* fields; previous and rest (the other parameters) are MySQL's, and lag   *)
(* is the replication lag that Valkey's parameters report.                 *)
Instance == [primary : Clusters \cup {None}, standbys : Seq(Standby),
             previous : Clusters \cup {None}, rest : BOOLEAN,
             lag : [Clusters -> Lags]]

Kinds == {"failover", "rollback", "resync"}
Action == [pc : {"idle", "resolve", "execute", "record"}, kind : Kinds,
           target : Clusters \cup {None}, read : Instance, fresh : BOOLEAN]
Worker == [pc : {"idle", "publish", "persist"}, read : Instance]

Names(standbys) == [i \in 1..Len(standbys) |-> standbys[i].cluster]
NewStandby(c) == [cluster |-> c, ready |-> FALSE, resync |-> FALSE, lag |-> "unknown"]

(* Mutant: an entry without the lag field.                                 *)
DemotedWithoutLag(c) == [cluster |-> c, ready |-> FALSE, resync |-> TRUE]

Demoted(c) == [NewStandby(c) EXCEPT !.resync = TRUE]
Others == SetToSeq(Clusters \ {Home})
MapStandbys(f(_), standbys) == [i \in 1..Len(standbys) |-> f(standbys[i])]
Configured == [i \in 1..Len(Others) |-> NewStandby(Others[i])]

(* The list without the entries of some clusters, in its order.            *)
Without(standbys, gone) ==
  LET kept == {i \in 1..Len(standbys) : standbys[i].cluster \notin gone}
      place(i) == Cardinality({k \in kept : k <= i})
  IN  [j \in 1..Cardinality(kept) |-> standbys[CHOOSE i \in kept : place(i) = j]]

(* No entry before this one has its name.                                  *)
First(standbys, i) == \A k \in 1..(i - 1) : standbys[k].cluster # standbys[i].cluster

(* MySQL's parameters name primary and standbys; Valkey's topology is      *)
(* empty until it is observed.                                             *)
Created ==
  [primary |-> IF product = "mysql" THEN Home ELSE None,
   standbys |-> IF product = "mysql" THEN Configured ELSE <<>>,
   previous |-> None, rest |-> TRUE,
   lag |-> [c \in Clusters |-> IF c = Home THEN "unknown" ELSE "low"]]

Init ==
  /\ product \in Products
  /\ server = Created
  /\ cache = Created
  /\ pend = <<>>
  /\ queue = TRUE
  /\ inst = [pc |-> "idle", read |-> Created]
  /\ act = [pc |-> "idle", kind |-> "failover", target |-> None,
            read |-> Created, fresh |-> FALSE]
  /\ published = None
  /\ promoted = None
  /\ count = [actions |-> 0, edits |-> 0, faults |-> 0]

-----------------------------------------------------------------------------
(* Writes *)

(* A new version at the server makes every copy read before it old.        *)
Store(new) ==
  \/ new = server /\ UNCHANGED <<server, pend>>
  \/ /\ new # server
     /\ Len(pend) < MaxLag
     /\ server' = new
     /\ pend' = Append(pend, new)

(* A status merge patch: the fields in which the new status differs from   *)
(* the cached one. A list is one field.                                    *)
PatchStatus(new) ==
  Store([server EXCEPT
           !.primary = IF new.primary = cache.primary THEN @ ELSE new.primary,
           !.standbys = IF new.standbys = cache.standbys THEN @ ELSE new.standbys])

Deliver ==
  /\ pend # <<>>
  /\ cache' = Head(pend)
  /\ pend' = Tail(pend)
  /\ queue' = TRUE
  /\ UNCHANGED <<product, server, inst, act, published, promoted, count>>

(* The informer's periodic resync.                                         *)
Resync ==
  /\ ~queue
  /\ queue' = TRUE
  /\ UNCHANGED <<product, server, cache, pend, inst, act, published, promoted, count>>

(* A user updates the parameters: the observed lag of a standby changes.   *)
EditParameters ==
  /\ count.edits < MaxEdits
  /\ product = "valkey"
  /\ \E c \in Clusters : \E l \in Lags \ {server.lag[c]} :
       Store([server EXCEPT !.lag[c] = l])
  /\ act' = [act EXCEPT !.fresh = FALSE]
  /\ count' = [count EXCEPT !.edits = @ + 1]
  /\ UNCHANGED <<product, cache, queue, inst, published, promoted>>

-----------------------------------------------------------------------------
(* The ServiceInstance controller *)

PrimaryOf(o) == IF o.primary # None THEN o.primary ELSE Home
StandbysOf(o) == IF o.standbys # <<>> THEN o.standbys ELSE Configured

(* Mutant: a standby that waits for a resync is judged by its lag alone.   *)
ObservedByLag(o, s) ==
  LET lag == IF o.lag[s.cluster] # "unknown" THEN o.lag[s.cluster] ELSE s.lag
  IN  [s EXCEPT !.lag = lag, !.ready = lag = "low"]

ObservedStandby(o, s) ==
  LET lag == IF o.lag[s.cluster] # "unknown" THEN o.lag[s.cluster] ELSE s.lag
  IN  [s EXCEPT !.lag = lag, !.ready = lag = "low" /\ ~s.resync]

(* What the Valkey adapter observes, from the status it was given.         *)
cacheTopologyStatus(o) ==
  LET observed(s) == ObservedStandby(o, s)
  IN  [o EXCEPT
         !.primary = PrimaryOf(o),
         !.standbys = MapStandbys(observed, Without(StandbysOf(o), {PrimaryOf(o)}))]

InstanceBegin ==
  /\ inst.pc = "idle"
  /\ queue
  /\ queue' = FALSE
  /\ inst' = [pc |-> "publish", read |-> cache]
  /\ UNCHANGED <<product, server, cache, pend, act, published, promoted, count>>

(* Mutant: the packages are rendered for the primary of the parameters.    *)
InstancePublishRequested ==
  /\ inst.pc = "publish"
  /\ published' = Home
  /\ inst' = [inst EXCEPT !.pc = "persist"]
  /\ UNCHANGED <<product, server, cache, pend, queue, act, promoted, count>>

(* Render and publish one package per cluster, with the primary's role     *)
(* for one of them.                                                        *)
InstancePublish ==
  /\ inst.pc = "publish"
  /\ published' = PrimaryOf(inst.read)
  /\ inst' = [inst EXCEPT !.pc = "persist"]
  /\ UNCHANGED <<product, server, cache, pend, queue, act, promoted, count>>

(* The status of the read is written back, whatever the server has now. A  *)
(* MySQL status holds no topology, and still is a new version.             *)
PersistStatus(status, changed) ==
  /\ \/ product = "valkey" /\ changed /\ PatchStatus(status)
     \/ (product = "mysql" \/ ~changed) /\ UNCHANGED <<server, pend>>
  /\ \/ ~changed /\ server' = server /\ UNCHANGED act
     \/ changed /\ act' = [act EXCEPT !.fresh = FALSE]
  /\ inst' = [inst EXCEPT !.pc = "idle"]

(* changed: the status differs from the one that was read, in its topology *)
(* or in another field.                                                    *)
InstancePersist ==
  LET status == cacheTopologyStatus(inst.read)
  IN  /\ inst.pc = "persist"
      /\ \E changed \in BOOLEAN :
           /\ product = "valkey" /\ status # inst.read => changed
           /\ PersistStatus(status, changed)
      /\ UNCHANGED <<product, cache, queue, published, promoted, count>>

(* A gate closes or the publish fails: the status that was read, with      *)
(* another phase, and a retry.                                             *)
InstanceFails ==
  /\ count.faults < MaxFaults
  /\ count' = [count EXCEPT !.faults = @ + 1]
  /\ inst.pc = "publish"
  /\ PersistStatus(inst.read, TRUE)
  /\ queue' = TRUE
  /\ UNCHANGED <<product, cache, published, promoted>>

-----------------------------------------------------------------------------
(* The ActionRequest controller *)

Request(kind, target) ==
  /\ act.pc = "idle"
  /\ count.actions < MaxActions
  /\ kind \in {"failover", "resync"} => target # None
  /\ kind = "resync" => product = "valkey"
  /\ act' = [act EXCEPT !.pc = "resolve", !.kind = kind, !.target = target]
  /\ count' = [count EXCEPT !.actions = @ + 1]
  /\ UNCHANGED <<product, server, cache, pend, queue, inst, published, promoted>>

(* resolveAction reads the instance from the cache.                        *)
Resolve ==
  /\ act.pc = "resolve"
  /\ act' = [act EXCEPT !.pc = "execute", !.read = cache, !.fresh = pend = <<>>]
  /\ UNCHANGED <<product, server, cache, pend, queue, inst, published, promoted,
                 count>>

(* An explicit target, or the first standby that requires a resync, or the *)
(* previous primary of MySQL's parameters.                                 *)
rollbackTarget ==
  IF act.target # None THEN act.target
  ELSE IF product = "mysql" THEN act.read.previous
  ELSE LET old == {i \in 1..Len(act.read.standbys) : act.read.standbys[i].resync}
       IN  IF old = {} THEN None ELSE act.read.standbys[Min(old)].cluster

Goal == IF act.kind = "rollback" THEN rollbackTarget ELSE act.target

(* applyValkeyFailoverPreflight: the first entry of that name is ready.    *)
Preflight(o, c) ==
  /\ o.primary \notin {None, c}
  /\ \E i \in 1..Len(o.standbys) :
       o.standbys[i].cluster = c /\ First(o.standbys, i) /\ o.standbys[i].ready

(* promoteValkeyPrimary renames the candidate's entry to the old primary,  *)
(* and appends the old primary unless an entry had its name before.        *)
Promote(o, c) ==
  LET rename(s) == IF s.cluster = c THEN Demoted(o.primary) ELSE s
      renamed == MapStandbys(rename, o.standbys)
  IN  [o EXCEPT !.primary = c,
                !.standbys = IF o.primary \in Range(Names(o.standbys)) THEN renamed
                             ELSE Append(renamed, Demoted(o.primary))]

FinishAction == act' = [act EXCEPT !.pc = "record", !.fresh = FALSE]

ValkeyPromote ==
  /\ act.pc = "execute"
  /\ product = "valkey" /\ act.kind \in {"failover", "rollback"}
  /\ \/ /\ Goal # None /\ cache.primary = Goal
        /\ UNCHANGED <<server, pend, promoted>>
     \/ /\ Goal # None /\ cache.primary # Goal /\ Preflight(cache, Goal)
        /\ PatchStatus(Promote(cache, Goal))
        /\ promoted' = Goal
     \/ /\ Goal # None => cache.primary # Goal /\ ~Preflight(cache, Goal)
        /\ UNCHANGED <<server, pend, promoted>>
  /\ FinishAction
  /\ UNCHANGED <<product, cache, queue, inst, published, count>>

(* markValkeyStandbyResyncRequested on the first entry of that name.       *)
ResyncRequested(o, c) ==
  [o EXCEPT !.standbys =
     [i \in 1..Len(o.standbys) |->
        IF o.standbys[i].cluster = c /\ First(o.standbys, i) THEN Demoted(c)
        ELSE o.standbys[i]]]

ValkeyResync ==
  /\ act.pc = "execute"
  /\ product = "valkey" /\ act.kind = "resync"
  /\ \/ /\ act.target \in Range(Names(cache.standbys)) \ {cache.primary}
        /\ PatchStatus(ResyncRequested(cache, act.target))
     \/ /\ act.target \notin Range(Names(cache.standbys)) \ {cache.primary}
        /\ UNCHANGED <<server, pend>>
  /\ FinishAction
  /\ UNCHANGED <<product, cache, queue, inst, published, promoted, count>>

(* Mutant: the promoted cluster stays among the standbys.                  *)
SwapKeepingStandby(o, c) ==
  [o EXCEPT !.primary = c, !.previous = o.primary, !.rest = FALSE,
            !.standbys = Append(@, NewStandby(o.primary))]

(* The new parameters: the old primary joins the standbys. Only the four   *)
(* replication parameters are marshalled, the others are gone.             *)
Swap(o, c) ==
  [o EXCEPT !.primary = c, !.previous = o.primary, !.rest = FALSE,
            !.standbys = Append(Without(@, {c, o.primary}), NewStandby(o.primary))]

(* Mutant: a conflict is taken for success.                                *)
UpdateIgnoringConflict(new) ==
  \/ act.fresh /\ Store(new) /\ promoted' = Goal
  \/ ~act.fresh /\ promoted' = Goal /\ UNCHANGED <<server, pend>>

(* r.Update of the instance that was read: a conflict fails the action.    *)
UpdateParameters(new) ==
  \/ act.fresh /\ Store(new) /\ promoted' = Goal
  \/ ~act.fresh /\ UNCHANGED <<server, pend, promoted>>

MySQLPromote ==
  LET o == act.read
      allowed == \/ act.kind = "rollback" /\ Goal # None
                 \/ act.kind = "failover" /\ Goal \in Range(Names(o.standbys))
  IN  /\ act.pc = "execute"
      /\ product = "mysql"
      /\ \/ /\ o.primary = Goal
            /\ UNCHANGED <<server, pend, promoted>>
         \/ /\ o.primary # Goal /\ allowed
            /\ UpdateParameters(Swap(o, Goal))
         \/ /\ o.primary # Goal /\ ~allowed
            /\ UNCHANGED <<server, pend, promoted>>
      /\ FinishAction
      /\ UNCHANGED <<product, cache, queue, inst, published, count>>

RecordResult ==
  /\ act.pc = "record"
  /\ act' = [act EXCEPT !.pc = "idle"]
  /\ UNCHANGED <<product, server, cache, pend, queue, inst, published, promoted,
                 count>>

(* The manager restarts: a prepared action is executed again.              *)
Restart ==
  /\ count.faults < MaxFaults
  /\ count' = [count EXCEPT !.faults = @ + 1]
  /\ cache' = server
  /\ pend' = <<>>
  /\ queue' = TRUE
  /\ inst' = [inst EXCEPT !.pc = "idle"]
  /\ act' = [act EXCEPT !.pc = IF @ = "idle" THEN @ ELSE "resolve"]
  /\ UNCHANGED <<product, server, published, promoted>>

-----------------------------------------------------------------------------
InstanceStep == InstancePublish \/ InstancePersist
ActionStep ==
  Resolve \/ ValkeyPromote \/ ValkeyResync \/ MySQLPromote \/ RecordResult

Next ==
  \/ \E kind \in Kinds, target \in Clusters \cup {None} : Request(kind, target)
  \/ Deliver \/ Resync \/ EditParameters
  \/ InstanceBegin \/ InstanceStep \/ InstanceFails
  \/ ActionStep
  \/ Restart

Spec == Init /\ [][Next]_vars

(* The watch delivers and both controllers work on what they have.         *)
Fairness ==
  /\ WF_vars(Deliver) /\ WF_vars(InstanceBegin)
  /\ WF_vars(InstanceStep) /\ WF_vars(ActionStep)

FairSpec == Spec /\ Fairness

-----------------------------------------------------------------------------
(* Properties *)

TypeOK ==
  /\ product \in Products
  /\ {server, cache} \subseteq Instance
  /\ pend \in Seq(Instance)
  /\ queue \in BOOLEAN
  /\ inst \in Worker
  /\ act \in Action
  /\ {published, promoted} \subseteq Clusters \cup {None}

(* A standby that waits for a resync is not offered for promotion, however *)
(* the two controllers' patches are mixed: the preflight looks at ready    *)
(* only.                                                                   *)
ResyncBlocksPromotion ==
  \A i \in 1..Len(server.standbys) :
    ~(server.standbys[i].ready /\ server.standbys[i].resync)

(* MySQL's parameters keep every cluster, each once, with one primary      *)
(* ("One writable primary cluster and one or more standby clusters").      *)
OnePrimary ==
  product = "mysql" =>
    /\ server.primary \notin Range(Names(server.standbys))
    /\ IsInjective(Names(server.standbys))
    /\ Range(Names(server.standbys)) \cup {server.primary} = Clusters

Kept == promoted # None => server.primary = promoted

(* A MySQL failover or rollback that was carried out stays until the next  *)
(* one: no other writer of the instance undoes it.                         *)
MySQLPromotionKept == product = "mysql" => Kept

(* The same of Valkey, whose topology lives in the status. The code does   *)
(* not keep this: see section 5 of the README.                             *)
ValkeyPromotionKept == product = "valkey" => Kept

(* The primary that is delivered is the one MySQL's parameters end up with *)
(* ("relies on normal reconciliation to materialize the updated topology").*)
(* Valkey's two writers can replace each other's topology for ever.        *)
EventuallyMaterialized ==
  product = "mysql" => <>[](published = PrimaryOf(server))

=============================================================================
