------------------------- MODULE RepositoriesProofs -------------------------
(* Proofs that what the repository API acknowledged is what is stored and   *)
(* mirrored, and that a registration in use is not removed, for any number  *)
(* of concurrent requests, faults, projects, tenants and instances.         *)
EXTENDS Repositories, TLAPS

-----------------------------------------------------------------------------
(* The requests that reach the API server and the registrations they make. *)
Valid == {r \in CreateRequests : validateRepositoryRequest(r)}
CreateReq ==
  {[op |-> "create", scope |-> r.scope, name |-> r.name, raw |-> r.raw, cred |-> r.cred] :
     r \in Valid}
DeleteReq == {[op |-> "delete", scope |-> d[1], name |-> d[2]] : d \in DeleteRequests}
Registration == {repositorySecret(r) : r \in Valid}

(* Where a handler stands.                                                  *)
Storing == {"getMirror", "writeMirror", "rollback"}
Held == {"dependencies", "others", "deleteMirror", "deleteSecret"}
Stored(h) == pc[h] \in Storing
Creating(h) == pc[h] \in {"create"} \cup Storing
Holding(h) == pc[h] \in Held
Deleting(h) == pc[h] \in {"get"} \cup Held

own(h) == repositorySecret(req[h])

(* The shape of the state.                                                  *)
StoreType ==
  /\ secrets \in [SecretNames -> Registration \cup {None}]
  /\ \A n \in SecretNames : secrets[n] # None => target(secrets[n]) = n
  /\ DOMAIN mirrors = Mirrors
  /\ ledger \subseteq Registration
  /\ disturbed \subseteq Mirrors
  /\ served \in 0..MaxRequests /\ faults \in 0..MaxFaults
  /\ live \subseteq Instances

HandlerType ==
  /\ pc \in [Handlers -> {"idle", "create", "get"} \cup Storing \cup Held]
  /\ req \in [Handlers -> CreateReq \cup DeleteReq \cup {None}]
  /\ seen = [g \in Handlers |-> seen[g]]
  /\ before \in [Handlers -> SUBSET Instances]
  /\ \A h \in Handlers :
       /\ Creating(h) => req[h] \in CreateReq
       /\ Deleting(h) => req[h] \in DeleteReq
       /\ pc[h] \in {"idle", "get"} => seen[h] = None
       /\ Holding(h) => seen[h] \in Registration /\ target(seen[h]) = target(req[h])

(* A Secret that a create has stored is its own and not yet acknowledged,   *)
(* unless a delete or a failure has come between.                           *)
Alone(h) ==
  /\ secrets[target(req[h])] = own(h)
  /\ mirrorOf(own(h)) \notin disturbed => own(h) \notin ledger
  /\ \A g \in Handlers \ {h} : Stored(g) => target(req[g]) # target(req[h])

Upset(h) ==
  LET n == target(req[h]) IN
  /\ mirrorOf(own(h)) \in disturbed
  /\ secrets[n] # None => mirrorOf(secrets[n]) \in disturbed
  /\ \A g \in Handlers : Creating(g) /\ target(req[g]) = n => mirrorOf(own(g)) \in disturbed

StoredInv == \A h \in Handlers : Stored(h) => Alone(h) \/ Upset(h)

(* A create and a delete of one Secret have disturbed the create's mirror.  *)
RaceInv ==
  \A c, d \in Handlers :
    Creating(c) /\ Deleting(d) /\ target(req[c]) = target(req[d])
      => mirrorOf(own(c)) \in disturbed

(* What a delete has read is what is still stored, unless it is disturbed.  *)
SeenInv ==
  \A d \in Handlers :
    Holding(d) /\ secrets[target(req[d])] # None
      /\ mirrorOf(secrets[target(req[d])]) \notin disturbed
      => seen[d] = secrets[target(req[d])]

(* The mirrors a request in flight is about: what inFlight names.           *)
About(h, m) ==
  \/ Creating(h) /\ m = mirrorOf(own(h))
  \/ secrets[target(req[h])] # None /\ m = mirrorOf(secrets[target(req[h])])
  \/ Holding(h) /\ m = mirrorOf(seen[h])

(* Beside a delete, an undisturbed mirror sees only deletes of that Secret. *)
ApartInv ==
  \A d, g \in Handlers : \A m \in Mirrors \ disturbed :
    Deleting(d) /\ pc[g] # "idle" /\ About(d, m) /\ About(g, m)
      => Deleting(g) /\ target(req[g]) = target(req[d])

(* The ledger, the Secrets and the mirrors agree on undisturbed mirrors.    *)
LedgerStored ==
  \A s \in ledger : mirrorOf(s) \notin disturbed => secrets[target(s)] = s

StoredLedger ==
  \A n \in SecretNames :
    secrets[n] # None /\ mirrorOf(secrets[n]) \notin disturbed =>
      \/ secrets[n] \in ledger
      \/ \E h \in Handlers : Stored(h) /\ target(req[h]) = n /\ own(h) = secrets[n]

MirrorLedger ==
  \A m \in Mirrors \ disturbed : mirrors[m] # None => \E s \in ledger : mirrorOf(s) = m

LedgerMirror ==
  \A s \in ledger : mirrorOf(s) \notin disturbed =>
    \/ mirrors[mirrorOf(s)] # None
    \/ \E d \in Handlers :
         pc[d] = "deleteSecret" /\ mirrorOf(seen[d]) = mirrorOf(s)
           /\ target(req[d]) = target(s)

(* A delete about to remove its Secret has removed the mirror or leaves it  *)
(* to another registration; one about to remove the mirror is its last.     *)
RemovedInv ==
  \A d \in Handlers :
    pc[d] = "deleteSecret" /\ mirrorOf(seen[d]) \notin disturbed
      /\ secrets[target(req[d])] = seen[d]
      => \/ mirrors[mirrorOf(seen[d])] = None
         \/ \E s \in ledger : mirrorOf(s) = mirrorOf(seen[d]) /\ target(s) # target(req[d])

LastInv ==
  \A d \in Handlers :
    pc[d] = "deleteMirror" /\ mirrorOf(seen[d]) \notin disturbed
      => \A n \in registered : mirrorOf(secrets[n]) = mirrorOf(seen[d]) => n = target(req[d])

HandlersInv == StoredInv /\ RaceInv /\ SeenInv /\ ApartInv /\ RemovedInv /\ LastInv
LedgerInv == LedgerStored /\ StoredLedger /\ MirrorLedger /\ LedgerMirror
TypeInv == StoreType /\ HandlerType

Inv == TypeInv /\ HandlersInv /\ LedgerInv

(* What used the registration all along is what the dependency check saw.  *)
UseInv ==
  \A h \in Handlers :
    /\ before[h] \subseteq live
    /\ pc[h] \in {"others", "deleteMirror", "deleteSecret"}
         => \A i \in before[h] : ~uses(i, seen[h])

-----------------------------------------------------------------------------
(* Facts about the data *)

(* What the handlers' requests and the registrations are made of: the      *)
(* Secret a create registers lies at the create's own name.                *)
LEMMA CreateData ==
  ASSUME NEW q \in CreateReq
  PROVE  /\ q.op = "create"
         /\ repositorySecret(q) \in Registration
         /\ target(repositorySecret(q)) = target(q)
         /\ target(q) \in SecretNames
         /\ argoRepoSecretName(canonicalRepositoryURL(q.raw), q.scope)
              = mirrorOf(repositorySecret(q))
<1>1. PICK r \in Valid : q = [op |-> "create", scope |-> r.scope, name |-> r.name,
                              raw |-> r.raw, cred |-> r.cred]
  BY DEF CreateReq
<1>2. q.op = "create" /\ q.scope = r.scope /\ q.name = r.name /\ q.raw = r.raw
      /\ q.cred = r.cred
  BY <1>1
<1>3. repositorySecret(q) = repositorySecret(r)
  BY <1>2 DEF repositorySecret
<1>4. target(repositorySecret(q)) = target(q)
  BY DEF target, repositorySecret
<1>5. target(q) \in SecretNames
  BY <1>2 DEF target, SecretNames, Valid
<1>6. argoRepoSecretName(canonicalRepositoryURL(q.raw), q.scope)
        = mirrorOf(repositorySecret(q))
  BY DEF mirrorOf, repositorySecret
<1> QED BY <1>2, <1>3, <1>4, <1>5, <1>6 DEF Registration

(* The same for the requests of deletes.                                   *)
LEMMA DeleteData ==
  ASSUME NEW q \in DeleteReq
  PROVE  q.op = "delete" /\ target(q) \in SecretNames
<1>1. PICK d \in DeleteRequests : q = [op |-> "delete", scope |-> d[1], name |-> d[2]]
  BY DEF DeleteReq
<1>2. q.op = "delete" /\ q.scope = d[1] /\ q.name = d[2]
  BY <1>1
<1> QED BY <1>2 DEF target, SecretNames

(* A registration is a Secret, with a name and a mirror of the system's.   *)
LEMMA RegistrationData ==
  ASSUME NEW s \in Registration
  PROVE  s # None /\ mirrorOf(s) \in Mirrors /\ target(s) \in SecretNames
<1>1. PICK r \in Valid : s = repositorySecret(r)
  BY DEF Registration
<1>2. s.scope = r.scope /\ s.name = r.name /\ s.url = canonicalRepositoryURL(r.raw)
  BY <1>1 DEF repositorySecret
<1>3. s # None
  BY <1>1, NoneIsNoSecret DEF Valid
<1>4. mirrorOf(s) \in Mirrors
  BY <1>2 DEF mirrorOf, Mirrors, Valid
<1>5. target(s) \in SecretNames
  BY <1>2 DEF target, SecretNames, Valid
<1> QED BY <1>3, <1>4, <1>5

(* A mirror that was written exists.                                       *)
LEMMA MirrorData ==
  ASSUME NEW q \in CreateReq, served \in 0..MaxRequests, NEW h \in Handlers
  PROVE  mirrorSecret(repositorySecret(q), h) # None
<1>1. PICK r \in Valid : q = [op |-> "create", scope |-> r.scope, name |-> r.name,
                              raw |-> r.raw, cred |-> r.cred]
  BY DEF CreateReq
<1>2. repositorySecret(q).cred = r.cred /\ r \in CreateRequests
  BY <1>1 DEF repositorySecret, Valid
<1> QED BY <1>2, NoneIsNoSecret DEF mirrorSecret

(* The mirrors a request touches when it arrives.                          *)
LEMMA TouchedIs ==
  ASSUME StoreType, NEW q \in CreateReq \cup DeleteReq, NEW m
  PROVE  /\ m \in mirrorsTouched(q) <=>
              \/ q \in CreateReq /\ m = mirrorOf(repositorySecret(q))
              \/ secrets[target(q)] # None /\ m = mirrorOf(secrets[target(q)])
         /\ m \in mirrorsTouched(q) => m \in Mirrors
<1>1. target(q) \in SecretNames /\ (q \in CreateReq <=> q.op = "create")
  BY CreateData, DeleteData
<1>2. m \in {mirrorOf(secrets[n]) : n \in registered \cap {target(q)}} <=>
        secrets[target(q)] # None /\ m = mirrorOf(secrets[target(q)])
  BY <1>1 DEF registered
<1>3. q \in CreateReq => argoRepoSecretName(canonicalRepositoryURL(q.raw), q.scope)
                           = mirrorOf(repositorySecret(q))
  BY CreateData
<1>4. m \in mirrorsTouched(q) <=>
        \/ q \in CreateReq /\ m = mirrorOf(repositorySecret(q))
        \/ secrets[target(q)] # None /\ m = mirrorOf(secrets[target(q)])
  BY <1>1, <1>2, <1>3 DEF mirrorsTouched
<1>5. secrets[target(q)] # None => mirrorOf(secrets[target(q)]) \in Mirrors
  BY <1>1, RegistrationData DEF StoreType
<1>6. q \in CreateReq => mirrorOf(repositorySecret(q)) \in Mirrors
  BY CreateData, RegistrationData
<1> QED BY <1>4, <1>5, <1>6

(* The mirrors a request in flight is about.                               *)
LEMMA InFlightIs ==
  ASSUME TypeInv, NEW h \in Handlers, pc[h] # "idle", NEW m
  PROVE  /\ m \in inFlight(h) <=> About(h, m)
         /\ About(h, m) => m \in Mirrors
<1>1. /\ Creating(h) => req[h] \in CreateReq
      /\ Deleting(h) => req[h] \in DeleteReq
      /\ Creating(h) \/ Deleting(h)
      /\ Creating(h) => ~Holding(h)
      /\ Deleting(h) /\ ~Holding(h) => seen[h] = None
      /\ Holding(h) => seen[h] \in Registration /\ Deleting(h)
  BY DEF TypeInv, HandlerType, Creating, Deleting, Holding, Storing, Held
<1>2. /\ m \in mirrorsTouched(req[h]) <=>
           \/ req[h] \in CreateReq /\ m = mirrorOf(repositorySecret(req[h]))
           \/ secrets[target(req[h])] # None /\ m = mirrorOf(secrets[target(req[h])])
      /\ m \in mirrorsTouched(req[h]) => m \in Mirrors
  <2>1. PICK q \in CreateReq \cup DeleteReq : q = req[h]
    BY <1>1
  <2> QED BY <2>1, TouchedIs DEF TypeInv
<1>3. (req[h].op = "delete" <=> Deleting(h)) /\ (req[h] \in CreateReq <=> Creating(h))
  BY <1>1, CreateData, DeleteData
<1>4. Holding(h) => seen[h] # None /\ mirrorOf(seen[h]) \in Mirrors
  BY <1>1, RegistrationData
<1> QED BY <1>1, <1>2, <1>3, <1>4 DEF inFlight, About, own

-----------------------------------------------------------------------------
(* The steps of one handler *)

(* A step of h leaves the other requests where they are; h may finish.     *)
Others(h) ==
  \A g \in Handlers \ {h} : pc'[g] = pc[g] /\ req'[g] = req[g] /\ seen'[g] = seen[g]
Gone(h) == Others(h) /\ pc'[h] = "idle"

(* A handler that answers keeps the handlers well formed.                  *)
LEMMA DoneIs ==
  ASSUME HandlerType, NEW h \in Handlers, Done(h)
  PROVE  HandlerType' /\ Gone(h)
<1>1. Gone(h) /\ req'[h] = None /\ seen'[h] = None
  BY DEF HandlerType, Done, Gone, Others
<1>2. /\ pc' \in [Handlers -> {"idle", "create", "get"} \cup Storing \cup Held]
      /\ req' \in [Handlers -> CreateReq \cup DeleteReq \cup {None}]
      /\ seen' = [g \in Handlers |-> seen'[g]]
      /\ before' \in [Handlers -> SUBSET Instances]
  BY DEF HandlerType, Done
<1>3. ASSUME NEW g \in Handlers
      PROVE  /\ Creating(g)' => req'[g] \in CreateReq
             /\ Deleting(g)' => req'[g] \in DeleteReq
             /\ pc'[g] \in {"idle", "get"} => seen'[g] = None
             /\ Holding(g)' => seen'[g] \in Registration /\ target(seen'[g]) = target(req'[g])
  <2>1. CASE g = h
    BY <1>1, <2>1 DEF Gone, Creating, Deleting, Holding, Storing, Held
  <2>2. CASE g # h
    BY <1>1, <2>2 DEF Gone, Others, HandlerType, Creating, Deleting, Holding
  <2> QED BY <2>1, <2>2
<1> QED BY <1>1, <1>2, <1>3 DEF HandlerType

(* So does one that goes on, with what it has read.                        *)
LEMMA GotoIs ==
  ASSUME HandlerType, NEW h \in Handlers, NEW l, NEW s,
         Goto(h, l), seen' = [seen EXCEPT ![h] = s],
         \/ pc[h] \in Storing /\ l \in Storing
         \/ pc[h] = "create" /\ l \in Storing
         \/ /\ Deleting(h) /\ l \in Held
            /\ s \in Registration /\ target(s) = target(req[h])
  PROVE  /\ HandlerType' /\ Others(h)
         /\ pc'[h] = l /\ req'[h] = req[h] /\ seen'[h] = s
<1>1. Others(h) /\ pc'[h] = l /\ req'[h] = req[h] /\ seen'[h] = s
  BY DEF HandlerType, Goto, Others
<1>2. /\ pc' \in [Handlers -> {"idle", "create", "get"} \cup Storing \cup Held]
      /\ req' \in [Handlers -> CreateReq \cup DeleteReq \cup {None}]
      /\ seen' = [g \in Handlers |-> seen'[g]]
      /\ before' \in [Handlers -> SUBSET Instances]
  BY DEF HandlerType, Goto
<1>3. ASSUME NEW g \in Handlers
      PROVE  /\ Creating(g)' => req'[g] \in CreateReq
             /\ Deleting(g)' => req'[g] \in DeleteReq
             /\ pc'[g] \in {"idle", "get"} => seen'[g] = None
             /\ Holding(g)' => seen'[g] \in Registration /\ target(seen'[g]) = target(req'[g])
  <2>1. CASE g = h
    BY <1>1, <2>1 DEF HandlerType, Creating, Deleting, Holding, Storing, Held
  <2>2. CASE g # h
    BY <1>1, <2>2 DEF Others, HandlerType, Creating, Deleting, Holding
  <2> QED BY <2>1, <2>2
<1> QED BY <1>1, <1>2, <1>3 DEF HandlerType

(* What a call that ends half way marks.                                   *)
LEMMA MarkIs ==
  ASSUME TypeInv, NEW h \in Handlers, pc[h] # "idle", NEW b \in BOOLEAN, Mark(b, h)
  PROVE  /\ disturbed \subseteq disturbed' /\ disturbed' \subseteq Mirrors
         /\ b => \A m : About(h, m) => m \in disturbed'
         /\ ~b => disturbed' = disturbed
<1>1. disturbed \subseteq Mirrors
  BY DEF TypeInv, StoreType
<1>2. \A m : (m \in inFlight(h) <=> About(h, m)) /\ (About(h, m) => m \in Mirrors)
  BY InFlightIs
<1> QED BY <1>1, <1>2 DEF Mark

(* Every call keeps the count of faults in its bounds.                     *)
LEMMA CallIs ==
  ASSUME faults \in 0..MaxFaults, NEW o, Call(o)
  PROVE  faults' \in 0..MaxFaults
BY RepoConstants DEF Call

(* Where a create and a delete keep their requests, and what they hold.    *)
LEMMA HandlerData ==
  ASSUME TypeInv, NEW h \in Handlers
  PROVE  /\ pc[h] # "idle" => target(req[h]) \in SecretNames
         /\ pc[h] # "idle" <=> Creating(h) \/ Deleting(h)
         /\ ~(Creating(h) /\ Deleting(h))
         /\ Stored(h) => Creating(h)
         /\ Holding(h) => Deleting(h)
         /\ Creating(h) => /\ own(h) \in Registration /\ own(h) # None
                           /\ target(own(h)) = target(req[h])
                           /\ mirrorOf(own(h)) \in Mirrors
         /\ Holding(h) => /\ seen[h] \in Registration /\ seen[h] # None
                          /\ target(seen[h]) = target(req[h])
                          /\ mirrorOf(seen[h]) \in Mirrors
<1>1. /\ pc[h] # "idle" <=> Creating(h) \/ Deleting(h)
      /\ ~(Creating(h) /\ Deleting(h))
      /\ Stored(h) => Creating(h)
      /\ Holding(h) => Deleting(h)
      /\ Creating(h) => req[h] \in CreateReq
      /\ Deleting(h) => req[h] \in DeleteReq
      /\ Holding(h) => seen[h] \in Registration /\ target(seen[h]) = target(req[h])
  BY DEF TypeInv, HandlerType, Creating, Deleting, Stored, Holding, Storing, Held
<1>2. pc[h] # "idle" => target(req[h]) \in SecretNames
  BY <1>1, CreateData, DeleteData
<1>3. Creating(h) => /\ own(h) \in Registration /\ own(h) # None
                     /\ target(own(h)) = target(req[h])
                     /\ mirrorOf(own(h)) \in Mirrors
  <2>1. Creating(h) => own(h) \in Registration /\ target(own(h)) = target(req[h])
    BY <1>1, CreateData DEF own
  <2> QED BY <2>1, RegistrationData
<1>4. Holding(h) => seen[h] # None /\ mirrorOf(seen[h]) \in Mirrors
  BY <1>1, RegistrationData
<1> QED BY <1>1, <1>2, <1>3, <1>4

(* What is stored under a name is a registration of that name.             *)
LEMMA SecretData ==
  ASSUME StoreType, NEW n \in SecretNames, secrets[n] # None
  PROVE  /\ secrets[n] \in Registration /\ target(secrets[n]) = n
         /\ mirrorOf(secrets[n]) \in Mirrors
BY RegistrationData DEF StoreType

-----------------------------------------------------------------------------
(* What each step does to the requests in flight and to the ledger *)

(* A request that ends, its own mirrors marked when it ends half way.      *)
LEMMA LeaveKeeps ==
  ASSUME Inv, NEW h \in Handlers, Gone(h), pc[h] # "idle",
         UNCHANGED <<secrets, mirrors, ledger>>, disturbed \subseteq disturbed',
         Stored(h) \/ pc[h] = "deleteSecret" => \A m : About(h, m) => m \in disturbed'
  PROVE  HandlersInv' /\ LedgerInv'
<1> USE DEF Gone, Others
<1>1. \A g \in Handlers : Creating(g)' \/ Stored(g)' \/ Deleting(g)' \/ Holding(g)' => g # h
  BY DEF Creating, Stored, Deleting, Holding, Storing, Held
<1>2. \A g \in Handlers \ {h} :
        /\ Creating(g)' = Creating(g) /\ Stored(g)' = Stored(g)
        /\ Deleting(g)' = Deleting(g) /\ Holding(g)' = Holding(g)
        /\ own(g)' = own(g)
        /\ \A m : About(g, m)' = About(g, m)
  BY DEF Creating, Stored, Deleting, Holding, own, About
<1>3. StoredInv'
  BY <1>1, <1>2 DEF Inv, HandlersInv, StoredInv, Alone, Upset
<1>4. RaceInv' /\ SeenInv'
  BY <1>1, <1>2 DEF Inv, HandlersInv, RaceInv, SeenInv
<1>5. ApartInv'
  BY <1>1, <1>2 DEF Inv, HandlersInv, ApartInv
<1>6. RemovedInv' /\ LastInv'
  BY <1>1, <1>2 DEF Inv, HandlersInv, RemovedInv, LastInv, registered
<1>7. LedgerStored' /\ MirrorLedger'
  BY DEF Inv, LedgerInv, LedgerStored, MirrorLedger
<1>8. StoredLedger'
  BY <1>2 DEF Inv, LedgerInv, StoredLedger, About
<1>9. LedgerMirror'
  BY <1>2 DEF Inv, LedgerInv, LedgerMirror, About, Holding, Held
<1> QED BY <1>3, <1>4, <1>5, <1>6, <1>7, <1>8, <1>9 DEF HandlersInv, LedgerInv

(* A create that has stored its Secret and goes on.                        *)
LEMMA StoringMoves ==
  ASSUME Inv, NEW h \in Handlers, Others(h), Stored(h), Stored(h)',
         req'[h] = req[h], UNCHANGED <<secrets, mirrors, ledger, disturbed>>
  PROVE  HandlersInv' /\ LedgerInv'
<1> USE DEF Others
<1>1. \A g \in Handlers :
        /\ Creating(g)' = Creating(g) /\ Stored(g)' = Stored(g)
        /\ Deleting(g)' = Deleting(g) /\ Holding(g)' = Holding(g)
        /\ own(g)' = own(g) /\ req'[g] = req[g]
  BY DEF Creating, Stored, Deleting, Holding, own, Storing, Held
<1>2. \A g \in Handlers :
        /\ Deleting(g) => seen'[g] = seen[g] /\ pc'[g] = pc[g]
        /\ (pc'[g] = "deleteSecret") = (pc[g] = "deleteSecret")
        /\ (pc'[g] = "deleteMirror") = (pc[g] = "deleteMirror")
        /\ (pc'[g] = "idle") = (pc[g] = "idle")
        /\ \A m : About(g, m)' = About(g, m)
  BY <1>1 DEF Stored, Deleting, About, Holding, Storing, Held
<1>3. StoredInv' /\ RaceInv'
  BY <1>1 DEF Inv, HandlersInv, StoredInv, Alone, Upset, RaceInv
<1>4. SeenInv' /\ RemovedInv' /\ LastInv'
  BY <1>1, <1>2 DEF Inv, HandlersInv, SeenInv, RemovedInv, LastInv, registered,
                    Holding, Deleting, Held
<1>5. ApartInv'
  BY <1>1, <1>2 DEF Inv, HandlersInv, ApartInv
<1>6. LedgerInv'
  BY <1>1, <1>2 DEF Inv, LedgerInv, LedgerStored, StoredLedger, MirrorLedger, LedgerMirror,
                    Deleting, Held
<1> QED BY <1>3, <1>4, <1>5, <1>6 DEF HandlersInv

(* A delete that goes on reading: it holds the Secret it has found, knows  *)
(* that nothing depends on it, or has looked for other registrations.      *)
LEMMA HoldingMoves ==
  ASSUME Inv, NEW h \in Handlers, Others(h), Deleting(h), Holding(h)', req'[h] = req[h],
         UNCHANGED <<secrets, mirrors, ledger, disturbed>>,
         \/ /\ pc[h] = "get" /\ pc'[h] = "dependencies"
            /\ seen'[h] = secrets[target(req[h])] /\ seen'[h] # None
         \/ pc[h] = "dependencies" /\ pc'[h] = "others" /\ seen'[h] = seen[h]
         \/ /\ pc[h] = "others" /\ seen'[h] = seen[h]
            /\ pc'[h] = IF othersMapped(h) # {} THEN "deleteSecret" ELSE "deleteMirror"
  PROVE  HandlersInv' /\ LedgerInv'
<1> USE DEF Others
<1>1. \A g \in Handlers :
        /\ Creating(g)' = Creating(g) /\ Stored(g)' = Stored(g)
        /\ Deleting(g)' = Deleting(g)
        /\ own(g)' = own(g) /\ req'[g] = req[g]
        /\ (pc'[g] = "idle") = (pc[g] = "idle")
        /\ pc[g] = "deleteSecret" => pc'[g] = "deleteSecret" /\ seen'[g] = seen[g]
  BY DEF Creating, Stored, Deleting, Holding, own, Storing, Held
<1>2. \A g \in Handlers : \A m : About(g, m)' => About(g, m)
  BY <1>1 DEF About, Holding, Held
<1>3. StoredInv' /\ RaceInv'
  BY <1>1 DEF Inv, HandlersInv, StoredInv, Alone, Upset, RaceInv
<1>4. SeenInv'
  BY <1>1 DEF Inv, HandlersInv, SeenInv, Holding, Held
<1>5. ApartInv'
  BY <1>1, <1>2 DEF Inv, HandlersInv, ApartInv
<1>6. LedgerInv'
  BY <1>1 DEF Inv, LedgerInv, LedgerStored, StoredLedger, MirrorLedger, LedgerMirror
<1>7. ASSUME pc'[h] = "deleteSecret", mirrorOf(seen[h]) \notin disturbed
      PROVE  \E s \in ledger : mirrorOf(s) = mirrorOf(seen[h]) /\ target(s) # target(req[h])
  <2>1. pc[h] = "others" /\ Holding(h) /\ othersMapped(h) # {}
    BY <1>7 DEF Holding, Held
  <2>2. PICK n \in SecretNames : /\ n # target(req[h]) /\ secrets[n] # None
                                 /\ mirrorOf(secrets[n]) = mirrorOf(seen[h])
    BY <2>1 DEF othersMapped, registered
  <2>3. mirrorOf(seen[h]) \in Mirrors \ disturbed
    BY <1>7, <2>1, HandlerData DEF Inv
  <2>4. CASE secrets[n] \in ledger
    BY <2>2, <2>4, SecretData DEF Inv, TypeInv
  <2>5. ASSUME NEW g \in Handlers, Stored(g), own(g) = secrets[n]
        PROVE  FALSE
    <3>1. Creating(g) /\ ~Deleting(g) /\ pc[g] # "idle"
      BY <2>5, HandlerData DEF Inv
    <3>2. About(g, mirrorOf(seen[h])) /\ About(h, mirrorOf(seen[h]))
      BY <2>1, <2>2, <2>5, <3>1 DEF About
    <3> QED BY <2>3, <3>1, <3>2 DEF Inv, HandlersInv, ApartInv
  <2> QED BY <1>7, <2>2, <2>4, <2>5 DEF Inv, LedgerInv, StoredLedger
<1>8. RemovedInv'
  BY <1>1, <1>7 DEF Inv, HandlersInv, RemovedInv
<1>9. LastInv'
  BY <1>1 DEF Inv, HandlersInv, LastInv, registered, othersMapped
<1> QED BY <1>3, <1>4, <1>5, <1>6, <1>8, <1>9 DEF HandlersInv

(* A create writes its Secret and goes on, or loses the answer.            *)
LEMMA CreateKeeps ==
  ASSUME Inv, NEW h \in Handlers, Others(h), pc[h] = "create",
         secrets[target(req[h])] = None,
         secrets' = [secrets EXCEPT ![target(req[h])] = own(h)],
         UNCHANGED <<mirrors, ledger>>, disturbed \subseteq disturbed',
         \/ Stored(h)' /\ req'[h] = req[h]
         \/ Gone(h) /\ mirrorOf(own(h)) \in disturbed'
  PROVE  HandlersInv' /\ LedgerInv'
<1> USE DEF Others, Gone
<1> DEFINE n == target(req[h])  s == own(h)  m == mirrorOf(own(h))
<1>1. /\ Creating(h) /\ ~Deleting(h) /\ ~Stored(h) /\ ~Holding(h)
      /\ n \in SecretNames /\ s \in Registration /\ s # None
      /\ target(s) = n /\ m \in Mirrors
  BY HandlerData DEF Inv, Creating, Stored, Holding, Storing, Held
<1>2. /\ secrets'[n] = s
      /\ \A x \in SecretNames \ {n} : secrets'[x] = secrets[x]
  BY <1>1 DEF Inv, TypeInv, StoreType
<1>3. \A g \in Handlers \ {h} :
        /\ Creating(g)' = Creating(g) /\ Stored(g)' = Stored(g)
        /\ Deleting(g)' = Deleting(g) /\ Holding(g)' = Holding(g)
        /\ own(g)' = own(g)
  BY DEF Creating, Stored, Deleting, Holding, own
<1>4. /\ ~Deleting(h)' /\ ~Holding(h)' /\ pc'[h] \notin {"deleteSecret", "deleteMirror"}
      /\ Stored(h)' => Creating(h)' /\ own(h)' = s /\ req'[h] = req[h]
      /\ Creating(h)' => Stored(h)'
      /\ ~Stored(h)' => m \in disturbed'
  BY DEF Creating, Stored, Deleting, Holding, own, Storing, Held
<1>5. \A g \in Handlers : pc[g] # "idle" => target(req[g]) \in SecretNames
  BY HandlerData DEF Inv
<1>6. \A g \in Handlers : Stored(g) /\ target(req[g]) = n => Upset(g) /\ m \in disturbed
  <2>1. \A g \in Handlers : Stored(g) => Creating(g) /\ own(g) # None
    BY HandlerData DEF Inv
  <2> QED BY <1>1, <2>1 DEF Inv, HandlersInv, StoredInv, Alone, Upset
<1>7. \A d \in Handlers : Deleting(d) /\ target(req[d]) = n => m \in disturbed
  BY <1>1 DEF Inv, HandlersInv, RaceInv
<1>8. \A d \in Handlers : Deleting(d) /\ About(d, m) => m \in disturbed
  <2>1. About(h, m)
    BY <1>1 DEF About
  <2> QED BY <1>1, <2>1 DEF Inv, HandlersInv, ApartInv
<1> HIDE DEF n, s, m
<1>9. StoredInv'
  <2>1. ASSUME NEW g \in Handlers, g # h, Stored(g)'
        PROVE  Alone(g)' \/ Upset(g)'
    <3>1. Stored(g) /\ target(req[g]) \in SecretNames
      BY <1>3, <1>5, <2>1 DEF Stored, Storing
    <3>2. CASE target(req[g]) = n
      <4>1. Upset(g) /\ m \in disturbed
        BY <1>6, <3>1, <3>2
      <4> QED BY <1>2, <1>3, <1>4, <2>1, <3>2, <4>1 DEF Upset, s, m
    <3>3. CASE target(req[g]) # n /\ Alone(g)
      BY <1>2, <1>3, <1>4, <2>1, <3>1, <3>3 DEF Alone, n
    <3>4. CASE target(req[g]) # n /\ Upset(g)
      BY <1>2, <1>3, <1>4, <2>1, <3>1, <3>4 DEF Upset, n
    <3> QED BY <3>1, <3>2, <3>3, <3>4 DEF Inv, HandlersInv, StoredInv
  <2>2. ASSUME Stored(h)'
        PROVE  Alone(h)' \/ Upset(h)'
    <3>1. CASE \E g \in Handlers : Stored(g) /\ target(req[g]) = n
      <4>1. PICK g \in Handlers : Upset(g) /\ target(req[g]) = n /\ m \in disturbed
        BY <1>6, <3>1
      <4> QED BY <1>2, <1>3, <1>4, <2>2, <4>1 DEF Upset, n, s, m
    <3>2. CASE \A g \in Handlers : Stored(g) => target(req[g]) # n
      <4>1. m \notin disturbed => s \notin ledger
        BY <1>1 DEF Inv, LedgerInv, LedgerStored, n, s, m
      <4> QED BY <1>2, <1>3, <1>4, <2>2, <3>2, <4>1 DEF Alone, n, s, m
    <3> QED BY <3>1, <3>2
  <2> QED BY <2>1, <2>2 DEF StoredInv
<1>10. RaceInv'
  BY <1>1, <1>3, <1>4 DEF Inv, HandlersInv, RaceInv, n, s
<1>11. SeenInv'
  BY <1>2, <1>3, <1>4, <1>5, <1>7, HandlerData DEF Inv, HandlersInv, SeenInv, s, m
<1>12. ApartInv'
  <2>1. \A g \in Handlers \ {h} : \A x : About(g, x)' =>
          About(g, x) \/ (target(req[g]) = n /\ x = m) \/ pc[g] = "idle"
    BY <1>2, <1>3, <1>5 DEF About, s, m
  <2>2. \A x : About(h, x)' /\ pc'[h] # "idle" => x = m
    BY <1>2, <1>4 DEF About, n, s, m
  <2>3. \A d \in Handlers : Deleting(d)' => d # h /\ Deleting(d) /\ pc[d] # "idle"
    BY <1>3, <1>4, HandlerData DEF Inv
  <2> QED BY <1>3, <1>7, <1>8, <2>1, <2>2, <2>3 DEF Inv, HandlersInv, ApartInv
<1>13. RemovedInv' /\ LastInv'
  <2>1. \A d \in Handlers : pc'[d] \in {"deleteSecret", "deleteMirror"} =>
          /\ d # h /\ Deleting(d) /\ Holding(d) /\ target(req[d]) \in SecretNames
          /\ About(d, mirrorOf(seen[d]))
    BY <1>4, <1>5 DEF Deleting, Holding, About, Held
  <2>2. RemovedInv'
    BY <1>2, <1>3, <1>7, <2>1 DEF Inv, HandlersInv, RemovedInv, s, m
  <2>3. LastInv'
    BY <1>2, <1>3, <1>8, <2>1 DEF Inv, HandlersInv, LastInv, registered, s, m
  <2> QED BY <2>2, <2>3
<1>14. LedgerStored' /\ MirrorLedger' /\ LedgerMirror'
  <2>1. LedgerStored'
    <3>1. \A x \in ledger : x # None /\ target(x) \in SecretNames
      BY RegistrationData DEF Inv, TypeInv, StoreType
    <3> QED BY <1>2, <3>1 DEF Inv, LedgerInv, LedgerStored, n
  <2>2. MirrorLedger' /\ LedgerMirror'
    BY <1>4 DEF Inv, LedgerInv, MirrorLedger, LedgerMirror
  <2> QED BY <2>1, <2>2
<1>15. StoredLedger'
  BY <1>1, <1>2, <1>3, <1>4 DEF Inv, LedgerInv, StoredLedger, n, s, m
<1> QED BY <1>9, <1>10, <1>11, <1>12, <1>13, <1>14, <1>15 DEF HandlersInv, LedgerInv

(* A create writes the mirror: it is acknowledged, or loses the answer.    *)
LEMMA WriteKeeps ==
  ASSUME Inv, NEW h \in Handlers, Others(h), Stored(h),
         NEW v, v # None, mirrors' = [mirrors EXCEPT ![mirrorOf(own(h))] = v],
         UNCHANGED secrets, disturbed \subseteq disturbed',
         \/ Gone(h) /\ ledger' = ledger \cup {own(h)}
         \/ /\ Stored(h)' /\ req'[h] = req[h] /\ ledger' = ledger
            /\ mirrorOf(own(h)) \in disturbed'
  PROVE  HandlersInv' /\ LedgerInv'
<1> USE DEF Others, Gone
<1> DEFINE n == target(req[h])  s == own(h)  m == mirrorOf(own(h))
<1>1. /\ Creating(h) /\ ~Deleting(h) /\ ~Holding(h) /\ pc[h] # "idle"
      /\ n \in SecretNames /\ s \in Registration /\ s # None
      /\ target(s) = n /\ m \in Mirrors
  BY HandlerData DEF Inv
<1>2. /\ mirrors'[m] # None
      /\ \A x \in Mirrors \ {m} : mirrors'[x] = mirrors[x]
  BY <1>1 DEF Inv, TypeInv, StoreType
<1>3. \A g \in Handlers \ {h} :
        /\ Creating(g)' = Creating(g) /\ Stored(g)' = Stored(g)
        /\ Deleting(g)' = Deleting(g) /\ Holding(g)' = Holding(g)
        /\ own(g)' = own(g)
        /\ \A x : About(g, x)' = About(g, x)
  BY DEF Creating, Stored, Deleting, Holding, own, About
<1>4. /\ ~Deleting(h)' /\ ~Holding(h)' /\ pc'[h] \notin {"deleteSecret", "deleteMirror"}
      /\ pc[h] \notin {"deleteSecret", "deleteMirror"}
      /\ Creating(h)' => Stored(h)' /\ own(h)' = s /\ req'[h] = req[h]
      /\ pc'[h] # "idle" => Stored(h)'
      /\ Stored(h)' => Creating(h)' /\ ledger' = ledger /\ m \in disturbed'
      /\ ~Stored(h)' => ledger' = ledger \cup {s}
      /\ ledger \subseteq ledger' /\ ledger' \subseteq ledger \cup {s}
  BY DEF Creating, Stored, Deleting, Holding, own, Storing, Held
<1>5. \A d \in Handlers : Deleting(d) /\ About(d, m) => m \in disturbed
  <2>1. About(h, m)
    BY <1>1 DEF About
  <2> QED BY <1>1, <2>1 DEF Inv, HandlersInv, ApartInv
<1>6. \A d \in Handlers : pc[d] \in {"deleteSecret", "deleteMirror"} =>
        Deleting(d) /\ Holding(d) /\ About(d, mirrorOf(seen[d])) /\ mirrorOf(seen[d]) \in Mirrors
  BY HandlerData DEF Inv, Deleting, Holding, About, Held
<1>7. \A x \in ledger : mirrorOf(x) \in Mirrors
  BY RegistrationData DEF Inv, TypeInv, StoreType
<1>8. m \notin disturbed => Alone(h)
  BY DEF Inv, HandlersInv, StoredInv, Upset
<1> HIDE DEF n, s, m
<1>9. StoredInv'
  <2>1. ASSUME NEW g \in Handlers, g # h, Stored(g)'
        PROVE  Alone(g)' \/ Upset(g)'
    <3>1. Stored(g) /\ target(own(g)) = target(req[g])
      BY <1>3, <2>1, HandlerData DEF Inv, Stored
    <3>2. CASE Alone(g)
      BY <1>1, <1>3, <1>4, <2>1, <3>1, <3>2 DEF Alone, n, s
    <3>3. CASE Upset(g)
      BY <1>1, <1>3, <1>4, <2>1, <3>3 DEF Upset, n, s
    <3> QED BY <3>1, <3>2, <3>3 DEF Inv, HandlersInv, StoredInv
  <2>2. ASSUME Stored(h)'
        PROVE  Alone(h)' \/ Upset(h)'
    BY <1>3, <1>4, <2>2 DEF Inv, HandlersInv, StoredInv, Alone, Upset, n, s, m
  <2> QED BY <2>1, <2>2 DEF StoredInv
<1>10. RaceInv' /\ SeenInv'
  BY <1>1, <1>3, <1>4 DEF Inv, HandlersInv, RaceInv, SeenInv, n, s
<1>11. ApartInv'
  <2>1. \A x : About(h, x)' /\ pc'[h] # "idle" => About(h, x) /\ pc[h] # "idle"
    BY <1>1, <1>4 DEF About, n, s
  <2> QED BY <1>1, <1>3, <1>4, <2>1 DEF Inv, HandlersInv, ApartInv
<1>12. RemovedInv'
  BY <1>2, <1>4, <1>5, <1>6 DEF Inv, HandlersInv, RemovedInv
<1>13. LastInv'
  BY <1>4 DEF Inv, HandlersInv, LastInv, registered
<1>14. LedgerStored'
  BY <1>1, <1>4, <1>8 DEF Inv, LedgerInv, LedgerStored, Alone, n, s, m
<1>15. StoredLedger'
  BY <1>3, <1>4 DEF Inv, LedgerInv, StoredLedger, n, s, m
<1>16. MirrorLedger'
  BY <1>2, <1>4 DEF Inv, LedgerInv, MirrorLedger, s, m
<1>17. LedgerMirror'
  BY <1>2, <1>4, <1>7 DEF Inv, LedgerInv, LedgerMirror, s, m
<1> QED BY <1>9, <1>10, <1>11, <1>12, <1>13, <1>14, <1>15, <1>16, <1>17
        DEF HandlersInv, LedgerInv

(* A create takes its Secret back.                                         *)
LEMMA RollbackKeeps ==
  ASSUME Inv, NEW h \in Handlers, Gone(h), Stored(h),
         secrets' = [secrets EXCEPT ![target(req[h])] = None],
         UNCHANGED <<mirrors, ledger>>, disturbed \subseteq disturbed'
  PROVE  HandlersInv' /\ LedgerInv'
<1> USE DEF Others, Gone
<1> DEFINE n == target(req[h])
<1>1. /\ Creating(h) /\ ~Deleting(h) /\ ~Holding(h) /\ pc[h] # "idle"
      /\ n \in SecretNames /\ own(h) # None /\ target(own(h)) = n
  BY HandlerData DEF Inv
<1>2. /\ secrets'[n] = None
      /\ \A x \in SecretNames \ {n} : secrets'[x] = secrets[x]
  BY <1>1 DEF Inv, TypeInv, StoreType
<1>3. \A g \in Handlers \ {h} :
        /\ Creating(g)' = Creating(g) /\ Stored(g)' = Stored(g)
        /\ Deleting(g)' = Deleting(g) /\ Holding(g)' = Holding(g)
        /\ own(g)' = own(g)
  BY DEF Creating, Stored, Deleting, Holding, own
<1>4. /\ ~Deleting(h)' /\ ~Holding(h)' /\ pc'[h] \notin {"deleteSecret", "deleteMirror"}
      /\ ~Creating(h)' /\ ~Stored(h)' /\ pc[h] \notin {"deleteSecret", "deleteMirror"}
  BY DEF Creating, Stored, Deleting, Holding, Storing, Held
<1>5. \A g \in Handlers : pc[g] # "idle" => target(req[g]) \in SecretNames
  BY HandlerData DEF Inv
<1>6. \A g \in Handlers : Stored(g) \/ Deleting(g) \/ Holding(g) => pc[g] # "idle"
  BY DEF Stored, Deleting, Holding, Storing, Held
<1> HIDE DEF n
<1>7. StoredInv'
  <2>1. ASSUME NEW g \in Handlers, g # h, Stored(g)
        PROVE  Alone(g)' \/ Upset(g)'
    <3>1. target(req[g]) \in SecretNames
      BY <1>5, <1>6, <2>1
    <3>2. CASE Alone(g)
      BY <1>2, <1>3, <1>4, <2>1, <3>1, <3>2 DEF Alone, n
    <3>3. CASE Upset(g)
      BY <1>2, <1>3, <1>4, <2>1, <3>1, <3>3 DEF Upset, n
    <3> QED BY <2>1, <3>2, <3>3 DEF Inv, HandlersInv, StoredInv
  <2> QED BY <1>3, <1>4, <2>1 DEF StoredInv
<1>8. RaceInv' /\ SeenInv'
  BY <1>2, <1>3, <1>4, <1>5, <1>6 DEF Inv, HandlersInv, RaceInv, SeenInv
<1>9. ApartInv'
  <2>1. \A g \in Handlers \ {h} : \A x : About(g, x)' /\ pc'[g] # "idle" => About(g, x)
    BY <1>2, <1>3, <1>5 DEF About
  <2> QED BY <1>3, <1>4, <1>6, <2>1 DEF Inv, HandlersInv, ApartInv
<1>10. RemovedInv'
  <2>1. \A d \in Handlers : pc[d] = "deleteSecret" => seen[d] # None /\ pc[d] # "idle"
    BY HandlerData DEF Inv, Holding, Held
  <2> QED BY <1>2, <1>4, <1>5, <2>1 DEF Inv, HandlersInv, RemovedInv
<1>11. LastInv'
  BY <1>2, <1>4 DEF Inv, HandlersInv, LastInv, registered
<1>12. LedgerStored'
  <2>1. ASSUME NEW s \in ledger, mirrorOf(s) \notin disturbed
        PROVE  target(s) \in SecretNames \ {n} /\ secrets[target(s)] = s
    <3>1. target(s) \in SecretNames /\ s # None
      BY RegistrationData DEF Inv, TypeInv, StoreType
    <3>2. secrets[target(s)] = s
      BY <2>1 DEF Inv, LedgerInv, LedgerStored
    <3> QED BY <2>1, <3>1, <3>2 DEF Inv, HandlersInv, StoredInv, Alone, Upset, n
  <2> QED BY <1>2, <2>1 DEF LedgerStored
<1>13. StoredLedger'
  BY <1>2, <1>3, <1>4 DEF Inv, LedgerInv, StoredLedger, n
<1>14. MirrorLedger' /\ LedgerMirror'
  BY <1>4 DEF Inv, LedgerInv, MirrorLedger, LedgerMirror
<1> QED BY <1>7, <1>8, <1>9, <1>10, <1>11, <1>12, <1>13, <1>14 DEF HandlersInv, LedgerInv

(* A delete removes the mirror and goes on, or loses the answer.           *)
LEMMA DeleteMirrorKeeps ==
  ASSUME Inv, NEW h \in Handlers, Others(h), pc[h] = "deleteMirror",
         mirrors' = [mirrors EXCEPT ![mirrorOf(seen[h])] = None],
         UNCHANGED <<secrets, ledger>>, disturbed \subseteq disturbed',
         \/ pc'[h] = "deleteSecret" /\ req'[h] = req[h] /\ seen'[h] = seen[h]
         \/ Gone(h) /\ mirrorOf(seen[h]) \in disturbed'
  PROVE  HandlersInv' /\ LedgerInv'
<1> USE DEF Others, Gone
<1> DEFINE m == mirrorOf(seen[h])
<1>1. Deleting(h) /\ Holding(h) /\ ~Creating(h) /\ ~Stored(h) /\ m \in Mirrors
  BY HandlerData DEF Inv, Holding, Held
<1>2. /\ mirrors'[m] = None
      /\ \A x \in Mirrors \ {m} : mirrors'[x] = mirrors[x]
  BY <1>1 DEF Inv, TypeInv, StoreType
<1>3. \A g \in Handlers \ {h} :
        /\ Creating(g)' = Creating(g) /\ Stored(g)' = Stored(g)
        /\ Deleting(g)' = Deleting(g) /\ Holding(g)' = Holding(g)
        /\ own(g)' = own(g)
        /\ \A x : About(g, x)' = About(g, x)
  BY DEF Creating, Stored, Deleting, Holding, own, About
<1>4. /\ ~Creating(h)' /\ ~Stored(h)' /\ pc'[h] # "deleteMirror"
      /\ pc'[h] # "deleteSecret" => pc'[h] = "idle" /\ m \in disturbed'
      /\ pc'[h] = "deleteSecret" => /\ Deleting(h)' /\ Holding(h)'
                                    /\ req'[h] = req[h] /\ seen'[h] = seen[h]
      /\ pc'[h] = "idle" => ~Deleting(h)' /\ ~Holding(h)'
      /\ pc[h] # "deleteSecret"
  BY DEF Creating, Stored, Deleting, Holding, Storing, Held
<1>5. \A s \in ledger : mirrorOf(s) \in Mirrors /\ target(s) \in SecretNames /\ s # None
  BY RegistrationData DEF Inv, TypeInv, StoreType
<1> HIDE DEF m
<1>6. StoredInv' /\ RaceInv'
  BY <1>1, <1>3, <1>4 DEF Inv, HandlersInv, StoredInv, Alone, Upset, RaceInv
<1>7. SeenInv'
  BY <1>1, <1>3, <1>4 DEF Inv, HandlersInv, SeenInv
<1>8. ApartInv'
  <2>1. \A x : About(h, x)' /\ pc'[h] # "idle" => About(h, x)
    BY <1>1, <1>4 DEF About
  <2> QED BY <1>1, <1>3, <1>4, <2>1 DEF Inv, HandlersInv, ApartInv
<1>9. RemovedInv'
  <2>1. \A d \in Handlers : pc[d] = "deleteSecret" => mirrorOf(seen[d]) \in Mirrors
    BY HandlerData DEF Inv, Holding, Held
  <2> QED BY <1>2, <1>4, <2>1 DEF Inv, HandlersInv, RemovedInv, m
<1>10. LastInv'
  BY <1>4 DEF Inv, HandlersInv, LastInv, registered
<1>11. LedgerStored' /\ StoredLedger'
  BY <1>1, <1>3, <1>4 DEF Inv, LedgerInv, LedgerStored, StoredLedger
<1>12. MirrorLedger'
  BY <1>2 DEF Inv, LedgerInv, MirrorLedger
<1>13. LedgerMirror'
  <2>1. ASSUME NEW s \in ledger, mirrorOf(s) = m, m \notin disturbed
        PROVE  target(s) = target(req[h])
    BY <1>5, <2>1 DEF Inv, LedgerInv, LedgerStored, HandlersInv, LastInv, registered, m
  <2> QED BY <1>2, <1>4, <1>5, <2>1 DEF Inv, LedgerInv, LedgerMirror, m
<1> QED BY <1>6, <1>7, <1>8, <1>9, <1>10, <1>11, <1>12, <1>13 DEF HandlersInv, LedgerInv

(* A delete removes the Secret: it is acknowledged, or loses the answer.   *)
LEMMA DeleteSecretKeeps ==
  ASSUME Inv, NEW h \in Handlers, Gone(h), pc[h] = "deleteSecret",
         secrets' = [secrets EXCEPT ![target(req[h])] = None],
         UNCHANGED mirrors, disturbed \subseteq disturbed',
         \/ ledger' = {s \in ledger : target(s) # target(req[h])}
         \/ ledger' = ledger /\ \A m : About(h, m) => m \in disturbed'
  PROVE  HandlersInv' /\ LedgerInv'
<1> USE DEF Others, Gone
<1> DEFINE n == target(req[h])
<1>1. /\ Deleting(h) /\ Holding(h) /\ ~Creating(h) /\ ~Stored(h) /\ pc[h] # "idle"
      /\ n \in SecretNames
  BY HandlerData DEF Inv, Holding, Held
<1>2. /\ secrets'[n] = None
      /\ \A x \in SecretNames \ {n} : secrets'[x] = secrets[x]
  BY <1>1 DEF Inv, TypeInv, StoreType
<1>3. \A g \in Handlers \ {h} :
        /\ Creating(g)' = Creating(g) /\ Stored(g)' = Stored(g)
        /\ Deleting(g)' = Deleting(g) /\ Holding(g)' = Holding(g)
        /\ own(g)' = own(g)
  BY DEF Creating, Stored, Deleting, Holding, own
<1>4. /\ ~Deleting(h)' /\ ~Holding(h)' /\ pc'[h] \notin {"deleteSecret", "deleteMirror"}
      /\ ~Creating(h)' /\ ~Stored(h)'
  BY DEF Creating, Stored, Deleting, Holding, Storing, Held
<1>5. \A g \in Handlers : pc[g] # "idle" => target(req[g]) \in SecretNames
  BY HandlerData DEF Inv
<1>6. \A g \in Handlers : Stored(g) \/ Deleting(g) \/ Holding(g) => pc[g] # "idle"
  BY DEF Stored, Deleting, Holding, Storing, Held
<1>7. /\ ledger' \subseteq ledger
      /\ \A s \in ledger : target(s) # n => s \in ledger'
      /\ \/ \A s \in ledger' : target(s) # n
         \/ ledger' = ledger /\ \A m : About(h, m) => m \in disturbed'
  OBVIOUS
<1>8. \A s \in ledger : target(s) \in SecretNames /\ s # None /\ mirrorOf(s) \in Mirrors
  BY RegistrationData DEF Inv, TypeInv, StoreType
<1>9. About(h, mirrorOf(seen[h])) /\ (secrets[n] # None => About(h, mirrorOf(secrets[n])))
  BY <1>1 DEF About
<1>10. \A s \in ledger : mirrorOf(s) \notin disturbed' /\ target(s) = n =>
         secrets[n] = s /\ s \notin ledger' /\ mirrorOf(s) \notin disturbed
  BY <1>7, <1>8, <1>9 DEF Inv, LedgerInv, LedgerStored
<1> HIDE DEF n
<1>11. StoredInv'
  <2>1. ASSUME NEW g \in Handlers, g # h, Stored(g)
        PROVE  Alone(g)' \/ Upset(g)'
    <3>1. target(req[g]) \in SecretNames /\ Creating(g)
      BY <1>5, <1>6, <2>1, HandlerData DEF Inv
    <3>2. CASE target(req[g]) = n
      <4>1. \A c \in Handlers : Creating(c) /\ target(req[c]) = n
                                  => mirrorOf(own(c)) \in disturbed
        BY <1>1 DEF Inv, HandlersInv, RaceInv, n
      <4> QED BY <1>2, <1>3, <1>4, <2>1, <3>1, <3>2, <4>1 DEF Upset
    <3>3. CASE target(req[g]) # n /\ Alone(g)
      BY <1>2, <1>3, <1>4, <1>7, <2>1, <3>1, <3>3 DEF Alone
    <3>4. CASE target(req[g]) # n /\ Upset(g)
      BY <1>2, <1>3, <1>4, <2>1, <3>1, <3>4 DEF Upset
    <3> QED BY <2>1, <3>2, <3>3, <3>4 DEF Inv, HandlersInv, StoredInv
  <2> QED BY <1>3, <1>4, <2>1 DEF StoredInv
<1>12. RaceInv' /\ SeenInv'
  BY <1>2, <1>3, <1>4, <1>5, <1>6 DEF Inv, HandlersInv, RaceInv, SeenInv
<1>13. ApartInv'
  <2>1. \A g \in Handlers \ {h} : \A x : About(g, x)' /\ pc'[g] # "idle" => About(g, x)
    BY <1>2, <1>3, <1>5 DEF About
  <2> QED BY <1>3, <1>4, <1>6, <2>1 DEF Inv, HandlersInv, ApartInv
<1>14. RemovedInv'
  <2>1. ASSUME NEW d \in Handlers, d # h, pc[d] = "deleteSecret",
               mirrorOf(seen[d]) \notin disturbed', secrets'[target(req[d])] = seen[d],
               mirrors[mirrorOf(seen[d])] # None
        PROVE  \E s \in ledger' : mirrorOf(s) = mirrorOf(seen[d]) /\ target(s) # target(req[d])
    <3>1. /\ Holding(d) /\ Deleting(d) /\ pc[d] # "idle" /\ seen[d] # None
          /\ target(req[d]) \in SecretNames /\ mirrorOf(seen[d]) \in Mirrors \ disturbed
      BY <2>1, HandlerData DEF Inv, Holding, Held
    <3>2. target(req[d]) # n /\ secrets[target(req[d])] = seen[d]
      BY <1>2, <2>1, <3>1
    <3>3. PICK s \in ledger : mirrorOf(s) = mirrorOf(seen[d]) /\ target(s) # target(req[d])
      BY <2>1, <3>1, <3>2 DEF Inv, HandlersInv, RemovedInv
    <3>4. target(s) # n
      <4>1. SUFFICES ASSUME target(s) = n PROVE FALSE
        OBVIOUS
      <4>2. secrets[n] = s
        BY <1>10, <2>1, <3>3, <4>1
      <4>3. About(h, mirrorOf(seen[d])) /\ About(d, mirrorOf(seen[d]))
        BY <1>8, <1>9, <3>1, <3>3, <4>2 DEF About
      <4> QED BY <1>1, <3>1, <3>2, <4>3 DEF Inv, HandlersInv, ApartInv, n
    <3> QED BY <1>7, <3>3, <3>4
  <2> QED BY <1>4, <2>1 DEF RemovedInv
<1>15. LastInv'
  BY <1>2, <1>4 DEF Inv, HandlersInv, LastInv, registered
<1>16. LedgerStored'
  BY <1>2, <1>7, <1>8, <1>10 DEF Inv, LedgerInv, LedgerStored
<1>17. StoredLedger'
  <2>1. \A x \in SecretNames : secrets[x] # None => target(secrets[x]) = x
    BY DEF Inv, TypeInv, StoreType
  <2> QED BY <1>1, <1>2, <1>3, <1>7, <2>1 DEF Inv, LedgerInv, StoredLedger
<1>18. MirrorLedger'
  <2>1. ASSUME NEW m \in Mirrors \ disturbed', mirrors[m] # None
        PROVE  \E s \in ledger' : mirrorOf(s) = m
    <3>1. PICK s \in ledger : mirrorOf(s) = m
      BY <2>1 DEF Inv, LedgerInv, MirrorLedger
    <3>2. CASE target(s) # n
      BY <1>7, <3>1, <3>2
    <3>3. CASE target(s) = n
      <4>1. secrets[n] = s /\ s # None /\ m \notin disturbed
        BY <1>8, <1>10, <2>1, <3>1, <3>3
      <4>2. seen[h] = s
        BY <1>1, <3>1, <4>1 DEF Inv, HandlersInv, SeenInv, n
      <4>3. \E x \in ledger : mirrorOf(x) = m /\ target(x) # n
        BY <2>1, <3>1, <4>1, <4>2 DEF Inv, HandlersInv, RemovedInv, n
      <4> QED BY <1>7, <4>3
    <3> QED BY <3>2, <3>3
  <2> QED BY <2>1 DEF MirrorLedger
<1>19. LedgerMirror'
  <2>1. ASSUME NEW s \in ledger', mirrorOf(s) \notin disturbed', mirrors[mirrorOf(s)] = None
        PROVE  \E d \in Handlers \ {h} :
                 pc[d] = "deleteSecret" /\ mirrorOf(seen[d]) = mirrorOf(s)
                   /\ target(req[d]) = target(s)
    <3>1. PICK d \in Handlers : pc[d] = "deleteSecret" /\ mirrorOf(seen[d]) = mirrorOf(s)
                                  /\ target(req[d]) = target(s)
      BY <1>7, <2>1 DEF Inv, LedgerInv, LedgerMirror
    <3>2. target(s) # n
      BY <1>7, <1>10, <2>1
    <3> QED BY <3>1, <3>2 DEF n
  <2> QED BY <2>1 DEF LedgerMirror
<1> QED BY <1>11, <1>12, <1>13, <1>14, <1>15, <1>16, <1>17, <1>18, <1>19
        DEF HandlersInv, LedgerInv

(* A request arrives: what it overlaps with is disturbed.                  *)
LEMMA ArriveIs ==
  ASSUME TypeInv, NEW h \in Handlers, NEW q \in CreateReq \cup DeleteReq, NEW first,
         Arrive(h, q, first)
  PROVE  /\ disturbed \subseteq disturbed' /\ disturbed' \subseteq Mirrors
         /\ \A o \in Handlers : pc[o] # "idle" /\ overlaps(q, o) =>
              /\ \A m \in mirrorsTouched(q) : m \in disturbed'
              /\ \A m : About(o, m) => m \in disturbed'
<1> DEFINE O == {x \in Handlers : pc[x] # "idle" /\ overlaps(q, x)}
           D(o) == mirrorsTouched(q) \cup inFlight(o)
<1>1. disturbed' = disturbed \cup (UNION {D(o) : o \in O})
  BY DEF Arrive
<1>2. \A o \in O : \A m : (m \in inFlight(o) <=> About(o, m)) /\ (About(o, m) => m \in Mirrors)
  BY InFlightIs
<1>3. \A m : m \in mirrorsTouched(q) => m \in Mirrors
  BY TouchedIs DEF TypeInv
<1>4. disturbed \subseteq Mirrors
  BY DEF TypeInv, StoreType
<1>5. \A m : m \in disturbed' <=> m \in disturbed \/ \E o \in O : m \in D(o)
  BY <1>1
<1>6. \A o \in O : \A m : m \in D(o) <=> m \in mirrorsTouched(q) \/ m \in inFlight(o)
  OBVIOUS
<1> HIDE DEF D
<1> QED BY <1>2, <1>3, <1>4, <1>5, <1>6

(* A request arrives.                                                      *)
LEMMA ArriveKeeps ==
  ASSUME Inv, NEW h \in Handlers, NEW q \in CreateReq \cup DeleteReq, NEW first,
         Arrive(h, q, first),
         \/ q \in CreateReq /\ first = "create"
         \/ q \in DeleteReq /\ first = "get"
  PROVE  HandlersInv' /\ LedgerInv'
<1>1. /\ \A g \in Handlers \ {h} : pc'[g] = pc[g] /\ req'[g] = req[g]
      /\ req'[h] = q /\ pc'[h] = first /\ pc[h] = "idle" /\ seen' = seen
      /\ UNCHANGED <<secrets, mirrors, ledger>>
  BY DEF Inv, TypeInv, HandlerType, Arrive
<1>2. /\ disturbed \subseteq disturbed'
      /\ \A o \in Handlers : pc[o] # "idle" /\ overlaps(q, o) =>
              /\ \A m \in mirrorsTouched(q) : m \in disturbed'
              /\ \A m : About(o, m) => m \in disturbed'
  BY ArriveIs DEF Inv
<1>3. \A g \in Handlers \ {h} :
        /\ Creating(g)' = Creating(g) /\ Stored(g)' = Stored(g)
        /\ Deleting(g)' = Deleting(g) /\ Holding(g)' = Holding(g)
        /\ own(g)' = own(g)
        /\ \A m : About(g, m)' = About(g, m)
  BY <1>1 DEF Creating, Stored, Deleting, Holding, own, About
<1>4. /\ Creating(h)' => q \in CreateReq /\ own(h)' = repositorySecret(q)
      /\ Deleting(h)' => q \in DeleteReq
      /\ ~Stored(h)' /\ ~Holding(h)' /\ pc'[h] \notin {"deleteSecret", "deleteMirror"}
      /\ ~Stored(h) /\ pc[h] # "deleteSecret"
      /\ q \in DeleteReq => Deleting(h)'
  BY <1>1, CreateData, DeleteData DEF Creating, Stored, Deleting, Holding, Storing, Held, own
<1>5. /\ q \in CreateReq => q.op = "create"
      /\ q \in DeleteReq => q.op = "delete"
      /\ \A g \in Handlers : /\ Creating(g) => req[g].op = "create"
                             /\ Deleting(g) => req[g].op = "delete"
                             /\ pc[g] # "idle" <=> Creating(g) \/ Deleting(g)
                             /\ Stored(g) => Creating(g)
  BY CreateData, DeleteData, HandlerData DEF Inv, TypeInv, HandlerType
<1>6. /\ \A m : About(h, m)' => m \in mirrorsTouched(q)
      /\ q \in CreateReq => mirrorOf(repositorySecret(q)) \in mirrorsTouched(q)
  <2>1. \A m : m \in mirrorsTouched(q) <=>
          \/ q \in CreateReq /\ m = mirrorOf(repositorySecret(q))
          \/ secrets[target(q)] # None /\ m = mirrorOf(secrets[target(q)])
    BY TouchedIs DEF Inv, TypeInv
  <2> QED BY <1>1, <1>4, <2>1 DEF About
<1>7. \A o \in Handlers : pc[o] # "idle" /\ target(req[o]) = target(q) /\ q.op # req[o].op
        => overlaps(q, o)
  BY DEF overlaps
<1>8. ASSUME NEW o \in Handlers, pc[o] # "idle", target(req[o]) # target(q),
             "delete" \in {q.op, req[o].op}, NEW m \in mirrorsTouched(q), About(o, m)
      PROVE  overlaps(q, o)
  <2>1. m \in inFlight(o)
    BY <1>8, InFlightIs DEF Inv
  <2> QED BY <1>8, <2>1 DEF overlaps
<1>9. StoredInv'
  <2>1. ASSUME NEW g \in Handlers, g # h, Stored(g)
        PROVE  Alone(g)' \/ Upset(g)'
    <3>1. CASE Alone(g)
      BY <1>1, <1>2, <1>3, <1>4, <2>1, <3>1 DEF Alone
    <3>2. CASE Upset(g)
      <4>1. ASSUME q \in CreateReq, target(req[g]) = target(q)
            PROVE  mirrorOf(repositorySecret(q)) \in disturbed'
        <5>1. Creating(g) /\ pc[g] # "idle" /\ q.op = req[g].op
          BY <1>5, <2>1, <4>1
        <5>2. mirrorOf(own(g)) \in inFlight(g) \cap disturbed
          BY <3>2, <5>1, InFlightIs DEF Inv, About, Upset
        <5>3. overlaps(q, g)
          BY <4>1, <5>2 DEF overlaps
        <5> QED BY <1>2, <1>6, <4>1, <5>1, <5>3
      <4> QED BY <1>1, <1>2, <1>3, <1>4, <2>1, <3>2, <4>1 DEF Upset
    <3> QED BY <2>1, <3>1, <3>2 DEF Inv, HandlersInv, StoredInv
  <2> QED BY <1>3, <1>4, <2>1 DEF StoredInv
<1>10. RaceInv'
  <2>1. ASSUME NEW c \in Handlers, NEW d \in Handlers, Creating(c)', Deleting(d)',
               target(req'[c]) = target(req'[d])
        PROVE  mirrorOf(own(c)') \in disturbed'
    <3>1. CASE c # h /\ d # h
      BY <1>1, <1>2, <1>3, <2>1, <3>1 DEF Inv, HandlersInv, RaceInv
    <3>2. CASE c = h /\ d # h
      <4>1. overlaps(q, d) /\ pc[d] # "idle" /\ q \in CreateReq
        BY <1>1, <1>3, <1>4, <1>5, <1>7, <2>1, <3>2
      <4> QED BY <1>2, <1>4, <1>6, <2>1, <3>2, <4>1
    <3>3. CASE c # h /\ d = h
      <4>1. overlaps(q, c) /\ pc[c] # "idle" /\ Creating(c)
        BY <1>1, <1>3, <1>4, <1>5, <1>7, <2>1, <3>3
      <4> QED BY <1>2, <1>3, <3>3, <4>1 DEF About
    <3>4. CASE c = h /\ d = h
      BY <1>4, <1>5, <2>1, <3>4
    <3> QED BY <3>1, <3>2, <3>3, <3>4
  <2> QED BY <2>1 DEF RaceInv
<1>11. SeenInv'
  BY <1>1, <1>2, <1>3, <1>4 DEF Inv, HandlersInv, SeenInv
<1>12. ApartInv'
  <2>1. ASSUME NEW d \in Handlers, NEW g \in Handlers, NEW m \in Mirrors \ disturbed',
               Deleting(d)', pc'[g] # "idle", About(d, m)', About(g, m)'
        PROVE  Deleting(g)' /\ target(req'[g]) = target(req'[d])
    <3>1. CASE d # h /\ g # h
      BY <1>1, <1>2, <1>3, <2>1, <3>1 DEF Inv, HandlersInv, ApartInv
    <3>2. CASE d = h /\ g # h
      <4>1. /\ q \in DeleteReq /\ m \in mirrorsTouched(q) /\ About(g, m) /\ pc[g] # "idle"
            /\ ~overlaps(q, g) /\ q.op = "delete"
        BY <1>1, <1>2, <1>3, <1>4, <1>5, <1>6, <2>1, <3>2
      <4> QED BY <1>1, <1>3, <1>5, <1>7, <1>8, <3>2, <4>1
    <3>3. CASE d # h /\ g = h
      <4>1. /\ Deleting(d) /\ m \in mirrorsTouched(q) /\ About(d, m) /\ pc[d] # "idle"
            /\ ~overlaps(q, d) /\ req[d].op = "delete"
        BY <1>1, <1>2, <1>3, <1>5, <1>6, <2>1, <3>3
      <4>2. target(req[d]) = target(q) /\ q.op = "delete"
        BY <1>7, <1>8, <4>1
      <4> QED BY <1>1, <1>4, <1>5, <3>3, <4>2
    <3>4. CASE d = h /\ g = h
      BY <2>1, <3>4
    <3> QED BY <3>1, <3>2, <3>3, <3>4
  <2> QED BY <2>1 DEF ApartInv
<1>13. RemovedInv' /\ LastInv'
  BY <1>1, <1>2, <1>4 DEF Inv, HandlersInv, RemovedInv, LastInv, registered
<1>14. LedgerStored' /\ MirrorLedger'
  BY <1>1, <1>2 DEF Inv, LedgerInv, LedgerStored, MirrorLedger
<1>15. StoredLedger' /\ LedgerMirror'
  BY <1>1, <1>2, <1>3, <1>4 DEF Inv, LedgerInv, StoredLedger, LedgerMirror
<1> QED BY <1>9, <1>10, <1>11, <1>12, <1>13, <1>14, <1>15 DEF HandlersInv, LedgerInv

-----------------------------------------------------------------------------
(* Every step keeps the invariant *)

(* ReceiveCreate and ReceiveDelete.                                        *)
LEMMA ArriveStep ==
  ASSUME Inv, NEW h \in Handlers, NEW q \in CreateReq \cup DeleteReq, NEW first,
         Arrive(h, q, first), before' \in [Handlers -> SUBSET Instances],
         \/ q \in CreateReq /\ first = "create"
         \/ q \in DeleteReq /\ first = "get"
  PROVE  Inv'
<1>1. HandlersInv' /\ LedgerInv'
  BY ArriveKeeps
<1>2. StoreType'
  <2>1. disturbed' \subseteq Mirrors
    BY ArriveIs DEF Inv
  <2>2. served' \in 0..MaxRequests
    BY RepoConstants DEF Arrive, Inv, TypeInv, StoreType
  <2> QED BY <2>1, <2>2 DEF Arrive, Inv, TypeInv, StoreType
<1>3. HandlerType'
  <2>1. /\ \A g \in Handlers \ {h} : pc'[g] = pc[g] /\ req'[g] = req[g] /\ seen'[g] = seen[g]
        /\ req'[h] = q /\ pc'[h] = first /\ seen'[h] = None
    BY DEF Inv, TypeInv, HandlerType, Arrive
  <2>2. /\ pc' \in [Handlers -> {"idle", "create", "get"} \cup Storing \cup Held]
        /\ req' \in [Handlers -> CreateReq \cup DeleteReq \cup {None}]
        /\ seen' = [g \in Handlers |-> seen'[g]]
    BY DEF Inv, TypeInv, HandlerType, Arrive
  <2>3. ASSUME NEW g \in Handlers
        PROVE  /\ Creating(g)' => req'[g] \in CreateReq
               /\ Deleting(g)' => req'[g] \in DeleteReq
               /\ pc'[g] \in {"idle", "get"} => seen'[g] = None
               /\ Holding(g)' => seen'[g] \in Registration
                                   /\ target(seen'[g]) = target(req'[g])
    <3>1. CASE g = h
      BY <2>1, <3>1 DEF Creating, Deleting, Holding, Storing, Held
    <3>2. CASE g # h
      BY <2>1, <3>2 DEF Inv, TypeInv, HandlerType, Creating, Deleting, Holding
    <3> QED BY <3>1, <3>2
  <2> QED BY <2>2, <2>3 DEF HandlerType
<1> QED BY <1>1, <1>2, <1>3 DEF Inv, TypeInv

(* A request that ends without a change to the stores.                     *)
LEMMA LeaveStep ==
  ASSUME Inv, NEW h \in Handlers, Done(h), pc[h] # "idle", NEW b \in BOOLEAN, Mark(b, h),
         UNCHANGED <<secrets, mirrors, live, served, ledger>>, faults' \in 0..MaxFaults,
         Stored(h) \/ pc[h] = "deleteSecret" => b
  PROVE  Inv'
<1>1. HandlerType' /\ Gone(h)
  BY DoneIs DEF Inv, TypeInv
<1>2. /\ disturbed \subseteq disturbed' /\ disturbed' \subseteq Mirrors
      /\ b => \A m : About(h, m) => m \in disturbed'
  BY MarkIs DEF Inv
<1>3. HandlersInv' /\ LedgerInv'
  BY <1>1, <1>2, LeaveKeeps
<1>4. StoreType'
  BY <1>2 DEF Inv, TypeInv, StoreType
<1> QED BY <1>1, <1>3, <1>4 DEF Inv, TypeInv

(* A step that only moves a handler on.                                    *)
LEMMA StoreUnchanged ==
  ASSUME StoreType, UNCHANGED <<secrets, mirrors, live, served, ledger, disturbed>>,
         faults' \in 0..MaxFaults
  PROVE  StoreType'
BY DEF StoreType

(* Nothing is marked when a call leaves the marks alone.                   *)
LEMMA NoMark ==
  ASSUME NEW h, disturbed' = disturbed
  PROVE  Mark(FALSE, h)
BY DEF Mark

(* CreateSecret.                                                           *)
LEMMA CreateSecretStep ==
  ASSUME Inv, NEW h \in Handlers, NEW o \in Outcomes, CreateSecret(h, o)
  PROVE  Inv'
<1> DEFINE n == target(req[h])  taken == secrets[n] # None
<1>1. faults' \in 0..MaxFaults
  BY CallIs DEF CreateSecret, Inv, TypeInv, StoreType
<1>2. /\ pc[h] = "create" /\ pc[h] # "idle" /\ ~Stored(h) /\ Mark(o = "lost" /\ ~taken, h)
      /\ (o = "lost" /\ ~taken) \in BOOLEAN
      /\ UNCHANGED <<mirrors, live, served, ledger>>
  BY DEF CreateSecret, Stored, Storing
<1>3. CASE taken \/ o = "failed"
  <2>1. Done(h) /\ UNCHANGED secrets
    BY <1>3 DEF CreateSecret
  <2> QED BY <1>1, <1>2, <2>1, LeaveStep
<1>4. CASE ~taken /\ o # "failed"
  <2>1. secrets' = [secrets EXCEPT ![n] = own(h)]
    BY <1>4 DEF CreateSecret, own
  <2>2. /\ disturbed \subseteq disturbed' /\ disturbed' \subseteq Mirrors
        /\ o = "lost" => \A m : About(h, m) => m \in disturbed'
    <3>1. PICK b \in BOOLEAN : b = (o = "lost" /\ ~taken)
      BY <1>2
    <3> QED BY <1>2, <1>4, <3>1, MarkIs DEF Inv
  <2>3. Creating(h) /\ own(h) \in Registration /\ target(own(h)) = n /\ n \in SecretNames
    BY <1>2, HandlerData DEF Inv, Creating
  <2>4. StoreType'
    BY <1>1, <1>2, <2>1, <2>2, <2>3 DEF Inv, TypeInv, StoreType
  <2>5. CASE o = "ok"
    <3>1. Goto(h, "getMirror") /\ UNCHANGED seen
      BY <1>4, <2>5 DEF CreateSecret
    <3>2. seen' = [seen EXCEPT ![h] = seen[h]]
      BY <3>1 DEF Inv, TypeInv, HandlerType
    <3>3. HandlerType' /\ Others(h) /\ pc'[h] = "getMirror" /\ req'[h] = req[h]
      BY <1>2, <3>1, <3>2, GotoIs DEF Inv, TypeInv, Storing
    <3>4. HandlersInv' /\ LedgerInv'
      BY <1>2, <1>4, <2>1, <2>2, <3>3, CreateKeeps DEF Stored, Storing
    <3> QED BY <2>4, <3>3, <3>4 DEF Inv, TypeInv
  <2>6. CASE o = "lost"
    <3>1. HandlerType' /\ Gone(h) /\ Others(h)
      BY <1>4, <2>6, DoneIs DEF CreateSecret, Inv, TypeInv, Gone
    <3>2. mirrorOf(own(h)) \in disturbed'
      BY <2>2, <2>3, <2>6 DEF About
    <3>3. HandlersInv' /\ LedgerInv'
      BY <1>2, <1>4, <2>1, <2>2, <3>1, <3>2, CreateKeeps
    <3> QED BY <2>4, <3>1, <3>3 DEF Inv, TypeInv
  <2> QED BY <1>4, <2>5, <2>6 DEF Outcomes
<1> QED BY <1>3, <1>4

(* GetMirror.                                                              *)
LEMMA GetMirrorStep ==
  ASSUME Inv, NEW h \in Handlers, NEW o \in Outcomes, GetMirror(h, o)
  PROVE  Inv'
<1>1. /\ faults' \in 0..MaxFaults /\ Stored(h)
      /\ UNCHANGED <<secrets, mirrors, live, served, ledger, disturbed>>
  BY CallIs DEF GetMirror, Inv, TypeInv, StoreType, Stored, Storing
<1>2. PICK l \in Storing, s \in {seen[h], mirrors[mirrorOf(repositorySecret(req[h]))]} :
        Goto(h, l) /\ seen' = [seen EXCEPT ![h] = s]
  <2>1. CASE o = "failed"
    <3>1. Goto(h, "rollback") /\ seen' = [seen EXCEPT ![h] = seen[h]]
      BY <2>1 DEF GetMirror, Inv, TypeInv, HandlerType
    <3> QED BY <3>1 DEF Storing
  <2>2. CASE o # "failed"
    BY <2>2 DEF GetMirror, Storing
  <2> QED BY <2>1, <2>2
<1>3. HandlerType' /\ Others(h) /\ pc'[h] = l /\ req'[h] = req[h]
  BY <1>1, <1>2, GotoIs DEF Inv, TypeInv, Stored
<1>4. HandlersInv' /\ LedgerInv'
  BY <1>1, <1>3, StoringMoves DEF Stored
<1> QED BY <1>1, <1>3, <1>4, StoreUnchanged DEF Inv, TypeInv

(* WriteMirror.                                                            *)
LEMMA WriteMirrorStep ==
  ASSUME Inv, NEW h \in Handlers, NEW o \in Outcomes, WriteMirror(h, o)
  PROVE  Inv'
<1> DEFINE s == own(h)  m == mirrorOf(own(h))
<1>1. /\ faults' \in 0..MaxFaults /\ Stored(h) /\ pc[h] # "idle"
      /\ UNCHANGED <<secrets, live, served>>
      /\ Mark(o = "lost" /\ writable(h), h)
      /\ (o = "lost" /\ writable(h)) \in BOOLEAN
  BY CallIs DEF WriteMirror, Inv, TypeInv, StoreType, Stored, Storing
<1>2. /\ disturbed \subseteq disturbed' /\ disturbed' \subseteq Mirrors
      /\ o = "lost" /\ writable(h) => \A x : About(h, x) => x \in disturbed'
      /\ ~(o = "lost" /\ writable(h)) => disturbed' = disturbed
  <2>1. PICK b \in BOOLEAN : b = (o = "lost" /\ writable(h))
    BY <1>1
  <2> QED BY <1>1, <2>1, MarkIs DEF Inv
<1>3. Creating(h) /\ s \in Registration /\ m \in Mirrors
  BY <1>1, HandlerData DEF Inv
<1>4. PICK v : v = mirrorSecret(s, h) /\ v # None
  BY <1>3, MirrorData DEF Inv, TypeInv, StoreType, HandlerType, own
<1>5. ASSUME ~(writable(h) /\ o = "ok")
      PROVE  HandlerType' /\ Others(h) /\ Stored(h)' /\ req'[h] = req[h] /\ ledger' = ledger
  <2>1. /\ Goto(h, "rollback") /\ seen' = [seen EXCEPT ![h] = seen[h]]
        /\ ledger' = ledger
    BY <1>5 DEF WriteMirror, Inv, TypeInv, HandlerType
  <2>2. HandlerType' /\ Others(h) /\ pc'[h] = "rollback" /\ req'[h] = req[h]
    BY <1>1, <2>1, GotoIs DEF Inv, TypeInv, Stored, Storing
  <2> QED BY <2>1, <2>2 DEF Stored, Storing
<1>6. CASE ~writable(h) \/ o = "failed"
  <2>1. UNCHANGED <<mirrors, disturbed, ledger>>
    BY <1>2, <1>5, <1>6 DEF WriteMirror
  <2> QED BY <1>1, <1>5, <1>6, <2>1, StoringMoves, StoreUnchanged DEF Inv, TypeInv
<1>7. CASE writable(h) /\ o # "failed"
  <2>1. mirrors' = [mirrors EXCEPT ![m] = v] /\ DOMAIN mirrors' = Mirrors
    BY <1>4, <1>7 DEF WriteMirror, own, Inv, TypeInv, StoreType
  <2>2. CASE o = "lost"
    <3>1. m \in disturbed'
      BY <1>2, <1>3, <1>7, <2>2 DEF About
    <3>2. HandlerType' /\ Others(h) /\ Stored(h)' /\ req'[h] = req[h] /\ ledger' = ledger
      BY <1>5, <2>2
    <3>3. HandlersInv' /\ LedgerInv'
      BY <1>1, <1>2, <1>4, <2>1, <3>1, <3>2, WriteKeeps
    <3>4. StoreType'
      BY <1>1, <1>2, <2>1, <3>2 DEF Inv, TypeInv, StoreType
    <3> QED BY <3>2, <3>3, <3>4 DEF Inv, TypeInv
  <2>3. CASE o = "ok"
    <3>1. Done(h) /\ ledger' = ledger \cup {s}
      BY <1>7, <2>3 DEF WriteMirror, own
    <3>2. HandlerType' /\ Gone(h) /\ Others(h)
      BY <3>1, DoneIs DEF Inv, TypeInv, Gone
    <3>3. HandlersInv' /\ LedgerInv'
      BY <1>1, <1>2, <1>4, <2>1, <3>1, <3>2, WriteKeeps
    <3>4. StoreType'
      BY <1>1, <1>2, <1>3, <2>1, <3>1 DEF Inv, TypeInv, StoreType
    <3> QED BY <3>2, <3>3, <3>4 DEF Inv, TypeInv
  <2> QED BY <1>7, <2>2, <2>3 DEF Outcomes
<1> QED BY <1>6, <1>7

(* Rollback.                                                               *)
LEMMA RollbackStep ==
  ASSUME Inv, NEW h \in Handlers, NEW o \in Outcomes, Rollback(h, o)
  PROVE  Inv'
<1>1. /\ faults' \in 0..MaxFaults /\ Stored(h) /\ pc[h] # "idle" /\ Done(h)
      /\ UNCHANGED <<mirrors, live, served, ledger>>
      /\ Mark(o = "failed", h) /\ (o = "failed") \in BOOLEAN
  BY CallIs DEF Rollback, Inv, TypeInv, StoreType, Stored, Storing
<1>2. CASE o = "failed"
  <2>1. UNCHANGED secrets
    BY <1>2 DEF Rollback
  <2> QED BY <1>1, <1>2, <2>1, LeaveStep
<1>3. CASE o # "failed"
  <2>1. secrets' = [secrets EXCEPT ![target(req[h])] = None]
    BY <1>3 DEF Rollback
  <2>2. disturbed' = disturbed
    BY <1>1, <1>3 DEF Mark
  <2>3. HandlerType' /\ Gone(h)
    BY <1>1, DoneIs DEF Inv, TypeInv
  <2>4. HandlersInv' /\ LedgerInv'
    BY <1>1, <2>1, <2>2, <2>3, RollbackKeeps
  <2>5. StoreType'
    BY <1>1, <2>1, <2>2 DEF Inv, TypeInv, StoreType
  <2> QED BY <2>3, <2>4, <2>5 DEF Inv, TypeInv
<1> QED BY <1>2, <1>3

(* GetSecret.                                                              *)
LEMMA GetSecretStep ==
  ASSUME Inv, NEW h \in Handlers, NEW o \in Outcomes, GetSecret(h, o)
  PROVE  Inv'
<1>1. /\ faults' \in 0..MaxFaults /\ pc[h] = "get" /\ pc[h] # "idle" /\ ~Stored(h)
      /\ UNCHANGED <<secrets, mirrors, live, served, ledger, disturbed>>
  BY CallIs DEF GetSecret, Inv, TypeInv, StoreType, Stored, Storing
<1>2. CASE Done(h)
  BY <1>1, <1>2, NoMark, LeaveStep
<1>3. CASE ~Done(h)
  <2>1. PICK s : s = secrets[target(req[h])]
    OBVIOUS
  <2>2. Goto(h, "dependencies") /\ seen' = [seen EXCEPT ![h] = s] /\ s # None
    BY <1>3, <2>1 DEF GetSecret
  <2>3. s \in Registration /\ target(s) = target(req[h]) /\ Deleting(h)
    BY <1>1, <2>1, <2>2, HandlerData, SecretData DEF Inv, TypeInv, Deleting
  <2>4. /\ HandlerType' /\ Others(h) /\ pc'[h] = "dependencies" /\ req'[h] = req[h]
        /\ seen'[h] = s
    BY <2>2, <2>3, GotoIs DEF Inv, TypeInv, Held
  <2>5. HandlersInv' /\ LedgerInv'
    BY <1>1, <2>1, <2>2, <2>3, <2>4, HoldingMoves DEF Holding, Held
  <2> QED BY <1>1, <2>4, <2>5, StoreUnchanged DEF Inv, TypeInv
<1> QED BY <1>2, <1>3

(* CheckDependencies and ListOthers.                                       *)
LEMMA ReadStep ==
  ASSUME Inv, NEW h \in Handlers, NEW o \in Outcomes,
         CheckDependencies(h, o) \/ ListOthers(h, o)
  PROVE  Inv'
<1>1. /\ faults' \in 0..MaxFaults /\ pc[h] \in {"dependencies", "others"} /\ pc[h] # "idle"
      /\ UNCHANGED <<secrets, mirrors, live, served, ledger, disturbed>>
      /\ ~Stored(h) /\ pc[h] # "deleteSecret" /\ Holding(h)
  BY CallIs DEF CheckDependencies, ListOthers, Inv, TypeInv, StoreType, Stored, Storing,
                Holding, Held
<1>2. CASE Done(h)
  BY <1>1, <1>2, NoMark, LeaveStep
<1>3. CASE ~Done(h)
  <2>1. PICK l \in {"others", "deleteSecret", "deleteMirror"} :
          /\ Goto(h, l) /\ UNCHANGED seen
          /\ \/ pc[h] = "dependencies" /\ l = "others"
             \/ /\ pc[h] = "others"
                /\ l = IF othersMapped(h) # {} THEN "deleteSecret" ELSE "deleteMirror"
    <3>1. CASE CheckDependencies(h, o)
      BY <1>3, <3>1 DEF CheckDependencies
    <3>2. CASE ListOthers(h, o)
      BY <1>3, <3>2 DEF ListOthers
    <3> QED BY <3>1, <3>2
  <2>2. PICK s : s = seen[h]
    OBVIOUS
  <2>3. seen' = [seen EXCEPT ![h] = s]
    BY <2>1, <2>2 DEF Inv, TypeInv, HandlerType
  <2>4. s \in Registration /\ target(s) = target(req[h]) /\ Deleting(h)
    BY <1>1, <2>2, HandlerData DEF Inv
  <2>5. HandlerType' /\ Others(h) /\ pc'[h] = l /\ req'[h] = req[h] /\ seen'[h] = s
    BY <2>1, <2>3, <2>4, GotoIs DEF Inv, TypeInv, Held
  <2>6. HandlersInv' /\ LedgerInv'
    BY <1>1, <2>1, <2>2, <2>4, <2>5, HoldingMoves DEF Holding, Held
  <2> QED BY <1>1, <2>5, <2>6, StoreUnchanged DEF Inv, TypeInv
<1> QED BY <1>2, <1>3

(* DeleteMirror.                                                           *)
LEMMA DeleteMirrorStep ==
  ASSUME Inv, NEW h \in Handlers, NEW o \in Outcomes, DeleteMirror(h, o)
  PROVE  Inv'
<1>1. /\ faults' \in 0..MaxFaults /\ pc[h] = "deleteMirror" /\ pc[h] # "idle"
      /\ UNCHANGED <<secrets, live, served, ledger>> /\ Mark(o = "lost", h)
      /\ (o = "lost") \in BOOLEAN /\ ~Stored(h) /\ Holding(h)
  BY CallIs DEF DeleteMirror, Inv, TypeInv, StoreType, Stored, Storing, Holding, Held
<1>2. CASE o = "failed"
  <2>1. Done(h) /\ UNCHANGED mirrors
    BY <1>2 DEF DeleteMirror
  <2> QED BY <1>1, <1>2, <2>1, LeaveStep
<1>3. CASE o # "failed"
  <2>1. mirrors' = [mirrors EXCEPT ![mirrorOf(seen[h])] = None] /\ DOMAIN mirrors' = Mirrors
    BY <1>3 DEF DeleteMirror, Inv, TypeInv, StoreType
  <2>2. /\ disturbed \subseteq disturbed' /\ disturbed' \subseteq Mirrors
        /\ o = "lost" => mirrorOf(seen[h]) \in disturbed'
    <3>1. PICK b \in BOOLEAN : b = (o = "lost")
      BY <1>1
    <3>2. About(h, mirrorOf(seen[h]))
      BY <1>1 DEF About
    <3> QED BY <1>1, <3>1, <3>2, MarkIs DEF Inv
  <2>3. StoreType'
    BY <1>1, <2>1, <2>2 DEF Inv, TypeInv, StoreType
  <2>4. CASE o = "lost"
    <3>1. HandlerType' /\ Gone(h) /\ Others(h)
      BY <2>4, DoneIs DEF DeleteMirror, Inv, TypeInv, Gone
    <3>2. HandlersInv' /\ LedgerInv'
      BY <1>1, <2>1, <2>2, <2>4, <3>1, DeleteMirrorKeeps
    <3> QED BY <2>3, <3>1, <3>2 DEF Inv, TypeInv
  <2>5. CASE o = "ok"
    <3>1. PICK s : s = seen[h]
      OBVIOUS
    <3>2. Goto(h, "deleteSecret") /\ seen' = [seen EXCEPT ![h] = s]
      BY <2>5, <3>1 DEF DeleteMirror, Inv, TypeInv, HandlerType
    <3>3. s \in Registration /\ target(s) = target(req[h]) /\ Deleting(h)
      BY <1>1, <3>1, HandlerData DEF Inv
    <3>4. HandlerType' /\ Others(h) /\ pc'[h] = "deleteSecret" /\ req'[h] = req[h]
          /\ seen'[h] = s
      BY <3>2, <3>3, GotoIs DEF Inv, TypeInv, Held
    <3>5. HandlersInv' /\ LedgerInv'
      BY <1>1, <2>1, <2>2, <3>1, <3>4, DeleteMirrorKeeps
    <3> QED BY <2>3, <3>4, <3>5 DEF Inv, TypeInv
  <2> QED BY <1>3, <2>4, <2>5 DEF Outcomes
<1> QED BY <1>2, <1>3

(* DeleteSecret.                                                           *)
LEMMA DeleteSecretStep ==
  ASSUME Inv, NEW h \in Handlers, NEW o \in Outcomes, DeleteSecret(h, o)
  PROVE  Inv'
<1>1. /\ faults' \in 0..MaxFaults /\ pc[h] = "deleteSecret" /\ pc[h] # "idle" /\ Done(h)
      /\ UNCHANGED <<mirrors, live, served>> /\ Mark(o # "ok", h)
      /\ (o # "ok") \in BOOLEAN
  BY CallIs DEF DeleteSecret, Inv, TypeInv, StoreType
<1>2. CASE o = "failed"
  <2>1. UNCHANGED <<secrets, ledger>>
    BY <1>2 DEF DeleteSecret
  <2> QED BY <1>1, <1>2, <2>1, LeaveStep
<1>3. CASE o # "failed"
  <2>1. secrets' = [secrets EXCEPT ![target(req[h])] = None]
    BY <1>3 DEF DeleteSecret
  <2>2. /\ disturbed \subseteq disturbed' /\ disturbed' \subseteq Mirrors
        /\ o # "ok" => \A m : About(h, m) => m \in disturbed'
    <3>1. PICK b \in BOOLEAN : b = (o # "ok")
      BY <1>1
    <3> QED BY <1>1, <3>1, MarkIs DEF Inv
  <2>3. HandlerType' /\ Gone(h)
    BY <1>1, DoneIs DEF Inv, TypeInv
  <2>4. \/ ledger' = {s \in ledger : target(s) # target(req[h])}
        \/ ledger' = ledger /\ \A m : About(h, m) => m \in disturbed'
    BY <2>2 DEF DeleteSecret
  <2>5. HandlersInv' /\ LedgerInv'
    BY <1>1, <2>1, <2>2, <2>3, <2>4, DeleteSecretKeeps
  <2>6. StoreType'
    BY <1>1, <2>1, <2>2, <2>4 DEF Inv, TypeInv, StoreType
  <2> QED BY <2>3, <2>5, <2>6 DEF Inv, TypeInv
<1> QED BY <1>2, <1>3

(* Crash.                                                                  *)
LEMMA CrashStep ==
  ASSUME Inv, NEW h \in Handlers, Crash(h)
  PROVE  Inv'
<1>1. PICK b \in BOOLEAN : b = (pc[h] \notin {"create", "get", "dependencies", "others"})
  OBVIOUS
<1>2. /\ faults' \in 0..MaxFaults /\ pc[h] # "idle" /\ Done(h) /\ Mark(b, h)
      /\ UNCHANGED <<secrets, mirrors, live, served, ledger>>
  BY <1>1, RepoConstants DEF Crash, Inv, TypeInv, StoreType
<1>3. Stored(h) \/ pc[h] = "deleteSecret" => b
  BY <1>1 DEF Stored, Storing
<1> QED BY <1>2, <1>3, LeaveStep

(* RefuseCreate, CreateInstance and DeleteInstance leave Secrets, mirrors  *)
(* and handlers alone.                                                     *)
LEMMA OutsideStep ==
  ASSUME Inv, UNCHANGED <<secrets, mirrors, req, pc, seen, ledger, disturbed>>,
         served' \in 0..MaxRequests, faults' \in 0..MaxFaults, live' \subseteq Instances,
         before' \in [Handlers -> SUBSET Instances]
  PROVE  Inv'
<1>1. StoreType'
  BY DEF Inv, TypeInv, StoreType
<1>2. HandlerType'
  BY DEF Inv, TypeInv, HandlerType, Creating, Deleting, Holding
<1>3. StoredInv' /\ RaceInv' /\ SeenInv'
  BY DEF Inv, HandlersInv, StoredInv, RaceInv, SeenInv, Alone, Upset, own, Creating, Stored,
         Deleting, Holding
<1>4. ApartInv' /\ RemovedInv' /\ LastInv'
  BY DEF Inv, HandlersInv, ApartInv, RemovedInv, LastInv, About, registered, own, Creating,
         Deleting, Holding
<1>5. LedgerInv'
  BY DEF Inv, LedgerInv, LedgerStored, StoredLedger, MirrorLedger, LedgerMirror, own, Stored
<1> QED BY <1>1, <1>2, <1>3, <1>4, <1>5 DEF Inv, TypeInv, HandlersInv

(* Every step keeps the invariant.                                         *)
LEMMA InvStep ==
  ASSUME Inv, [Next]_vars
  PROVE  Inv'
<1>1. ASSUME NEW h \in Handlers, NEW q \in CreateRequests, ReceiveCreate(h, q)
      PROVE  Inv'
  <2>1. PICK c \in CreateReq : Arrive(h, c, "create")
    BY <1>1 DEF ReceiveCreate, CreateReq, Valid
  <2>2. before' \in [Handlers -> SUBSET Instances]
    BY <1>1 DEF ReceiveCreate, Inv, TypeInv, HandlerType
  <2> QED BY <2>1, <2>2, ArriveStep
<1>2. ASSUME NEW h \in Handlers, NEW d \in DeleteRequests, ReceiveDelete(h, d)
      PROVE  Inv'
  <2>1. PICK c \in DeleteReq : Arrive(h, c, "get")
    BY <1>2 DEF ReceiveDelete, DeleteReq
  <2>2. before' \in [Handlers -> SUBSET Instances]
    BY <1>2 DEF ReceiveDelete, Inv, TypeInv, HandlerType, StoreType
  <2> QED BY <2>1, <2>2, ArriveStep
<1>3. ASSUME NEW q \in CreateRequests, RefuseCreate(q)
      PROVE  Inv'
  BY <1>3, RepoConstants, OutsideStep DEF RefuseCreate, Inv, TypeInv, StoreType, HandlerType
<1>4. ASSUME NEW i \in Instances, CreateInstance(i)
      PROVE  Inv'
  BY <1>4, OutsideStep DEF CreateInstance, Inv, TypeInv, StoreType, HandlerType
<1>5. ASSUME NEW i \in Instances, DeleteInstance(i)
      PROVE  Inv'
  BY <1>5, OutsideStep DEF DeleteInstance, Inv, TypeInv, StoreType, HandlerType
<1>6. CASE UNCHANGED vars
  BY <1>6, OutsideStep DEF vars, Inv, TypeInv, StoreType, HandlerType
<1> QED BY <1>1, <1>2, <1>3, <1>4, <1>5, <1>6, CreateSecretStep, GetMirrorStep,
           WriteMirrorStep, RollbackStep, GetSecretStep, ReadStep, DeleteMirrorStep,
           DeleteSecretStep, CrashStep DEF Next

(* Nothing is stored, asked or acknowledged at first.                      *)
LEMMA InvInit == Init => Inv
<1> SUFFICES ASSUME Init PROVE Inv
  OBVIOUS
<1> USE DEF Init
<1>1. \A h \in Handlers : ~Creating(h) /\ ~Stored(h) /\ ~Deleting(h) /\ ~Holding(h)
  BY DEF Creating, Stored, Deleting, Holding, Storing, Held
<1>2. StoreType
  BY RepoConstants DEF StoreType
<1>3. HandlerType
  BY <1>1 DEF HandlerType
<1>4. HandlersInv
  BY <1>1 DEF HandlersInv, StoredInv, RaceInv, SeenInv, ApartInv, RemovedInv, LastInv
<1>5. LedgerInv
  BY DEF LedgerInv, LedgerStored, StoredLedger, MirrorLedger, LedgerMirror
<1> QED BY <1>2, <1>3, <1>4, <1>5 DEF Inv, TypeInv

(* An undisturbed mirror that no request is about agrees with the ledger.  *)
LEMMA InvAcknowledged == Inv => AcknowledgedIsStored
<1> SUFFICES ASSUME Inv, NEW m \in Mirrors \ disturbed, settled(m)
             PROVE  /\ {secrets[n] : n \in {x \in registered : mirrorOf(secrets[x]) = m}}
                         = {s \in ledger : mirrorOf(s) = m}
                    /\ (mirrors[m] # None) = (\E s \in ledger : mirrorOf(s) = m)
  BY DEF AcknowledgedIsStored
<1>1. \A h \in Handlers : pc[h] # "idle" => ~About(h, m)
  BY InFlightIs DEF settled, Inv
<1>2. \A n \in SecretNames : secrets[n] # None /\ mirrorOf(secrets[n]) = m
                               => secrets[n] \in ledger
  <2>1. \A h \in Handlers : Stored(h) => Creating(h) /\ pc[h] # "idle"
    BY HandlerData DEF Inv
  <2> QED BY <1>1, <2>1 DEF Inv, LedgerInv, StoredLedger, About
<1>3. \A s \in ledger : mirrorOf(s) = m =>
        target(s) \in SecretNames /\ s # None /\ secrets[target(s)] = s
  BY RegistrationData DEF Inv, LedgerInv, LedgerStored, TypeInv, StoreType
<1>4. mirrors[m] # None => \E s \in ledger : mirrorOf(s) = m
  BY DEF Inv, LedgerInv, MirrorLedger
<1>5. (\E s \in ledger : mirrorOf(s) = m) => mirrors[m] # None
  <2>1. \A d \in Handlers : pc[d] = "deleteSecret" => Holding(d) /\ pc[d] # "idle"
    BY DEF Holding, Held
  <2> QED BY <1>1, <2>1 DEF Inv, LedgerInv, LedgerMirror, About
<1>6. {secrets[n] : n \in {x \in registered : mirrorOf(secrets[x]) = m}}
        = {s \in ledger : mirrorOf(s) = m}
  BY <1>2, <1>3 DEF registered
<1> QED BY <1>4, <1>5, <1>6

(* The invariant holds in every behaviour.                                 *)
LEMMA Invariant == Spec => []Inv
<1>1. Inv /\ [Next]_vars => Inv'
  BY InvStep
<1> QED BY InvInit, <1>1, PTL DEF Spec

(* What the repository API acknowledged is what is stored and mirrored:    *)
(* unless a delete overlapped another request on a mirror or a call was    *)
(* lost half way, concurrent creates, name clashes, refused mirror writes, *)
(* rollbacks and deletes leave the Secrets of a mirror equal to the        *)
(* acknowledged registrations, and the mirror there just when one is left. *)
THEOREM StoredIsAcknowledged == Spec => []AcknowledgedIsStored
BY Invariant, InvAcknowledged, PTL

-----------------------------------------------------------------------------
(* Registrations in use *)

(* The dependency check sees every instance that uses a registration, by   *)
(* its name or by any spelling of its URL, from any project of the tenant. *)
LEMMA UsesIsReference ==
  ASSUME NEW s \in Registration, NEW i \in Instances, uses(i, s)
  PROVE  i.project \in projectsOf(s.scope) /\ serviceInstanceReferencesRepository(i, s)
<1>1. i.project \in projectsOf(s.scope)
  BY RepoConstants DEF uses, projectsOf
<1>2. PICK r \in Valid : s = repositorySecret(r)
  BY DEF Registration
<1>3. PICK u : u = canonicalRepositoryURL(r.raw)
  OBVIOUS
<1>4. s.url = u
  BY <1>2, <1>3 DEF repositorySecret
<1>5. canonicalURLOK(r.raw)
  BY DEF Valid, validateRepositoryRequest
<1>6. u = [form |-> kindOf(r.raw), user |-> r.raw.user, repo |-> r.raw.repo,
           spelling |-> None, wellFormed |-> TRUE]
  BY <1>3, <1>5 DEF canonicalRepositoryURL
<1>7. CASE i.ref = s.name
  BY <1>1, <1>7 DEF serviceInstanceReferencesRepository
<1>8. CASE i.ref # s.name
  <2>1. /\ i.raw # None /\ i.raw.wellFormed /\ kindOf(i.raw) = u.form
        /\ i.raw.user = u.user /\ i.raw.repo = u.repo
    BY <1>4, <1>8 DEF uses
  <2>2. canonicalURLOK(i.raw)
    BY <1>5, <1>6, <2>1 DEF canonicalURLOK
  <2>3. canonicalRepositoryURL(i.raw) = u
    BY <1>6, <2>1, <2>2 DEF canonicalRepositoryURL
  <2> QED BY <1>1, <1>4, <2>1, <2>3 DEF serviceInstanceReferencesRepository
<1> QED BY <1>7, <1>8

(* What a delete found in use when it came, and is still there, is not     *)
(* used by the registration it holds once the dependency check has passed. *)
LEMMA UseStep ==
  ASSUME Inv, UseInv, [Next]_vars
  PROVE  UseInv'
<1> DEFINE Passed == {"others", "deleteMirror", "deleteSecret"}
<1>0. before \in [Handlers -> SUBSET Instances] /\ live \subseteq Instances
  BY DEF Inv, TypeInv, HandlerType, StoreType
<1>1. ASSUME NEW h \in Handlers, Done(h), UNCHANGED live
      PROVE  UseInv'
  <2>1. /\ \A g \in Handlers \ {h} : pc'[g] = pc[g] /\ seen'[g] = seen[g] /\ before'[g] = before[g]
        /\ before'[h] = {}
    BY <1>1 DEF Done, Inv, TypeInv, HandlerType
  <2> QED BY <1>1, <2>1 DEF UseInv
<1>2. ASSUME NEW h \in Handlers, NEW l, NEW s, Goto(h, l), UNCHANGED live,
             seen' = [seen EXCEPT ![h] = s],
             l \in Passed => \A i \in before[h] : ~uses(i, s)
      PROVE  UseInv'
  <2>1. /\ \A g \in Handlers \ {h} : pc'[g] = pc[g] /\ seen'[g] = seen[g]
        /\ pc'[h] = l /\ seen'[h] = s /\ before' = before
    BY <1>2 DEF Goto, Inv, TypeInv, HandlerType
  <2> QED BY <1>2, <2>1 DEF UseInv
<1>3. ASSUME NEW h \in Handlers, NEW q, NEW first, Arrive(h, q, first), first \notin Passed,
             NEW B \in SUBSET live, before' = [before EXCEPT ![h] = B]
      PROVE  UseInv'
  <2>1. /\ \A g \in Handlers \ {h} : pc'[g] = pc[g] /\ before'[g] = before[g]
        /\ pc'[h] = first /\ before'[h] = B /\ seen' = seen /\ live' = live
    BY <1>3 DEF Arrive, Inv, TypeInv, HandlerType
  <2> QED BY <1>3, <2>1 DEF UseInv
<1> HIDE DEF Passed
<1>4. seen = [g \in Handlers |-> seen[g]]
  BY DEF Inv, TypeInv, HandlerType
<1>5. ASSUME NEW h \in Handlers, NEW q \in CreateRequests, ReceiveCreate(h, q)
      PROVE  UseInv'
  <2>1. PICK c : Arrive(h, c, "create")
    BY <1>5 DEF ReceiveCreate
  <2>2. before' = [before EXCEPT ![h] = before[h]] /\ before[h] \in SUBSET live
    BY <1>0, <1>5 DEF ReceiveCreate, UseInv
  <2> QED BY <1>3, <2>1, <2>2 DEF Passed
<1>6. ASSUME NEW h \in Handlers, NEW d \in DeleteRequests, ReceiveDelete(h, d)
      PROVE  UseInv'
  <2>1. PICK c : Arrive(h, c, "get")
    BY <1>6 DEF ReceiveDelete
  <2>2. \E B \in SUBSET live : before' = [before EXCEPT ![h] = B]
    BY <1>6 DEF ReceiveDelete
  <2> QED BY <1>3, <2>1, <2>2 DEF Passed
<1>7. ASSUME NEW h \in Handlers, NEW o \in Outcomes, CheckDependencies(h, o), ~Done(h)
      PROVE  UseInv'
  <2>1. PICK s : s = seen[h]
    OBVIOUS
  <2>2. /\ Goto(h, "others") /\ UNCHANGED <<seen, live>> /\ repositoryDependencies(s) = {}
        /\ pc[h] = "dependencies"
    BY <1>7, <2>1 DEF CheckDependencies
  <2>3. s \in Registration
    BY <2>1, <2>2, HandlerData DEF Inv, Holding, Held
  <2>4. \A i \in before[h] : ~uses(i, s)
    <3>1. \A i \in before[h] : i \in live /\ i \in Instances
      BY <1>0 DEF UseInv
    <3> QED BY <2>2, <2>3, <3>1, UsesIsReference DEF repositoryDependencies
  <2>5. seen' = [seen EXCEPT ![h] = s]
    BY <1>4, <2>1, <2>2
  <2> QED BY <1>2, <2>2, <2>4, <2>5
<1>8. ASSUME NEW h \in Handlers, NEW o \in Outcomes, ~Done(h),
             ListOthers(h, o) \/ DeleteMirror(h, o)
      PROVE  UseInv'
  <2>1. /\ \E l \in Passed : Goto(h, l)
        /\ UNCHANGED <<seen, live>> /\ pc[h] \in Passed
    BY <1>8 DEF ListOthers, DeleteMirror, Passed
  <2>2. PICK s : s = seen[h]
    OBVIOUS
  <2>3. seen' = [seen EXCEPT ![h] = s]
    BY <1>4, <2>1, <2>2
  <2>4. \A i \in before[h] : ~uses(i, s)
    BY <2>1, <2>2 DEF UseInv, Passed
  <2> QED BY <1>2, <2>1, <2>3, <2>4
<1>9. ASSUME NEW h \in Handlers, NEW o \in Outcomes, ~Done(h),
             CreateSecret(h, o) \/ GetMirror(h, o) \/ WriteMirror(h, o) \/ GetSecret(h, o)
      PROVE  UseInv'
  <2>1. PICK l, s : /\ Goto(h, l) /\ UNCHANGED live /\ l \notin Passed
                    /\ seen' = [seen EXCEPT ![h] = s]
    <3>1. UNCHANGED seen => seen' = [seen EXCEPT ![h] = seen[h]]
      BY <1>4
    <3>2. CASE CreateSecret(h, o)
      BY <1>9, <3>1, <3>2 DEF CreateSecret, Passed
    <3>3. CASE GetMirror(h, o)
      BY <1>9, <3>1, <3>3 DEF GetMirror, Passed
    <3>4. CASE WriteMirror(h, o)
      BY <1>9, <3>1, <3>4 DEF WriteMirror, Passed
    <3>5. CASE GetSecret(h, o)
      BY <1>9, <3>1, <3>5 DEF GetSecret, Passed
    <3> QED BY <1>9, <3>2, <3>3, <3>4, <3>5
  <2> QED BY <1>2, <2>1
<1>10. ASSUME NEW h \in Handlers, NEW o \in Outcomes, Rollback(h, o) \/ DeleteSecret(h, o)
       PROVE  UseInv'
  BY <1>1, <1>10 DEF Rollback, DeleteSecret
<1>11. ASSUME NEW h \in Handlers, Crash(h)
       PROVE  UseInv'
  BY <1>1, <1>11 DEF Crash
<1>12. ASSUME NEW h \in Handlers, NEW o \in Outcomes, Done(h),
              \/ CreateSecret(h, o) \/ GetMirror(h, o) \/ WriteMirror(h, o) \/ GetSecret(h, o)
              \/ CheckDependencies(h, o) \/ ListOthers(h, o) \/ DeleteMirror(h, o)
       PROVE  UseInv'
  <2>1. UNCHANGED live
    BY <1>12 DEF CreateSecret, GetMirror, WriteMirror, GetSecret, CheckDependencies,
                 ListOthers, DeleteMirror
  <2> QED BY <1>1, <1>12, <2>1
<1>13. ASSUME NEW q \in CreateRequests, RefuseCreate(q)
       PROVE  UseInv'
  BY <1>13 DEF RefuseCreate, UseInv
<1>14. ASSUME NEW i \in Instances, CreateInstance(i) \/ DeleteInstance(i)
       PROVE  UseInv'
  BY <1>0, <1>14 DEF CreateInstance, DeleteInstance, UseInv
<1>15. CASE UNCHANGED vars
  BY <1>15 DEF vars, UseInv
<1> QED BY <1>5, <1>6, <1>7, <1>8, <1>9, <1>10, <1>11, <1>12, <1>13, <1>14, <1>15 DEF Next

(* A registration an instance used before the delete request arrived, and  *)
(* has used ever since, is not removed by that request: the dependency     *)
(* check recognises it by its name and by every spelling of its URL, from  *)
(* its project and from any project of its tenant.                         *)
THEOREM UsedIsKept == Spec => InUseIsKept
<1>1. Init => UseInv
  BY DEF Init, UseInv
<1>2. Inv /\ UseInv /\ [Next]_vars => UseInv'
  BY UseStep
<1>3. UseInv /\ [Next]_vars =>
        [\A h \in Handlers :
           (pc[h] = "deleteSecret" /\ secrets'[target(req[h])] = None /\ pc'[h] = "idle"
              /\ seen[h] = secrets[target(req[h])])
             => \A i \in before[h] : ~uses(i, seen[h])]_vars
  BY DEF UseInv
<1> QED BY Invariant, <1>1, <1>2, <1>3, PTL DEF Spec, InUseIsKept

=============================================================================
