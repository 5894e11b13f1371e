---------------------------- MODULE Repositories ----------------------------
(***************************************************************************)
(* Git repository registration in the BFF (internal/bff/repositories.go).  *)
(* A registration is a Secret in servicer-system, labelled with its scope  *)
(* (a project or a tenant), plus a mirror Secret in the argocd namespace   *)
(* whose name is derived from the canonical URL and the scope, so several  *)
(* registrations may share one mirror.  Requests run concurrently, on one  *)
(* pod or on several; every API call of a handler is a step of its own,    *)
(* and any call may fail or apply its effect and lose its answer.  The     *)
(* BFF's client reads the API server directly (no cache).                  *)
(***************************************************************************)
EXTENDS Naturals, FiniteSets

CONSTANTS
  Handlers,        \* concurrently running requests
  CreateRequests,  \* the bodies that clients post, with the path's scope
  DeleteRequests,  \* <<scope, name>> of the paths that clients delete
  Projects, Tenants,
  TenantOf,        \* Project.spec.tenantRef
  Instances,       \* ServiceInstances that may exist: [project, ref, raw]
  MaxRequests,     \* bound on the requests served
  MaxFaults,       \* bound on failed or unanswered API calls and crashes
  None

ASSUME RepoConstants ==
  /\ TenantOf \in [Projects -> Tenants]
  /\ Projects \cap Tenants = {}
  /\ \A i \in Instances : i.project \in Projects
  /\ MaxRequests \in Nat /\ MaxFaults \in Nat

Scopes == Projects \cup Tenants

(***************************************************************************)
(* A URL as typed: its form, an embedded user, the repository it names (host and   *)
(* path), a spelling of the host (case, trailing dot) and whether its host, port,  *)
(* path, query and fragment are acceptable.  What canonicalisation keeps: form (an *)
(* scp-style address becomes ssh), user and repository, not the spelling.          *)
(***************************************************************************)
kindOf(raw) == IF raw.form = "scp" THEN "ssh" ELSE raw.form

canonicalURLOK(raw) ==
  /\ kindOf(raw) \in {"https", "ssh"}
  /\ kindOf(raw) = "https" => raw.user = None
  /\ raw.wellFormed

\* The URL a stored or referenced address stands for; what cannot be
\* canonicalised is compared as it is written.
canonicalRepositoryURL(raw) ==
  IF canonicalURLOK(raw)
    THEN [form |-> kindOf(raw), user |-> raw.user, repo |-> raw.repo,
          spelling |-> None, wellFormed |-> TRUE]
    ELSE raw

\* The credential fields must fit the authType and the authType the URL.
validateRepositoryRequest(req) ==
  /\ req.named
  /\ canonicalURLOK(req.raw)
  /\ \/ req.authType = "none" /\ kindOf(req.raw) = "https" /\ req.cred = None
     \/ req.authType = "http" /\ kindOf(req.raw) = "https" /\ req.cred # None
     \/ req.authType = "ssh"  /\ kindOf(req.raw) = "ssh"   /\ req.cred # None

\* A project repository's Secret is named after the repository alone: two
\* projects cannot both register "web".
secretName(scope, name) ==
  IF scope \in Projects THEN <<"repo", name>> ELSE <<"repo-tenant", scope, name>>

argoRepoSecretName(url, scope) == <<url, scope>>

SecretNames ==
  {secretName(r.scope, r.name) : r \in CreateRequests}
    \cup {secretName(d[1], d[2]) : d \in DeleteRequests}
Mirrors ==
  {argoRepoSecretName(canonicalRepositoryURL(r.raw), r.scope) :
     r \in {c \in CreateRequests : validateRepositoryRequest(c)}}

VARIABLES
  secrets,    \* registration Secrets by name
  mirrors,    \* Argo CD repository Secrets by name, with a resource version
  live,       \* ServiceInstances that exist without a deletion timestamp
  req,        \* what each handler was asked for
  pc,         \* where its handler stands
  seen,       \* what it has read so far
  served, faults,
  \* History.
  ledger,     \* the registrations the API has acknowledged and not removed
  disturbed,  \* mirrors for which a delete overlapped another request, or a
              \* call or a process failed half way
  before      \* instances that used the repository when its delete arrived

vars == <<secrets, mirrors, live, req, pc, seen, served, faults, ledger,
          disturbed, before>>

mirrorOf(s) == argoRepoSecretName(s.url, s.scope)
registered == {n \in SecretNames : secrets[n] # None}

(***************************************************************************)
(* repositoryDependencies: the instances that still use a registration, in its     *)
(* project or in any project of its tenant, by the repository's name or by a URL   *)
(* with the same canonical form.                                                   *)
(***************************************************************************)
projectsOf(scope) ==
  IF scope \in Projects THEN {scope} ELSE {p \in Projects : TenantOf[p] = scope}

\* Mutant: the instance's URL is compared as it is written.
referencesAsWritten(i, s) == i.ref = s.name \/ i.raw = s.url

serviceInstanceReferencesRepository(i, s) ==
  \/ i.ref = s.name
  \/ i.raw # None /\ canonicalRepositoryURL(i.raw) = s.url

repositoryDependencies(s) ==
  {i \in live : i.project \in projectsOf(s.scope)
                  /\ serviceInstanceReferencesRepository(i, s)}

----------------------------------------------------------------------------
Init ==
  /\ secrets = [n \in SecretNames |-> None]
  /\ mirrors = [m \in Mirrors |-> None]
  /\ live = {}
  /\ req = [h \in Handlers |-> None]
  /\ pc = [h \in Handlers |-> "idle"]
  /\ seen = [h \in Handlers |-> None]
  /\ served = 0 /\ faults = 0
  /\ ledger = {} /\ disturbed = {}
  /\ before = [h \in Handlers |-> {}]

\* An instance uses a registration of its project or of its tenant that it
\* names or whose repository it pulls from, however the host is spelled.
uses(i, s) ==
  /\ s.scope \in {i.project, TenantOf[i.project]}
  /\ \/ i.ref = s.name
     \/ i.raw # None /\ i.raw.wellFormed /\ kindOf(i.raw) = s.url.form
          /\ <<i.raw.user, i.raw.repo>> = <<s.url.user, s.url.repo>>

\* The Secret and the mirrors that a request is about.
target(q) == secretName(q.scope, q.name)
mirrorsTouched(q) ==
  (IF q.op = "create" THEN {argoRepoSecretName(canonicalRepositoryURL(q.raw), q.scope)} ELSE {})
    \cup {mirrorOf(secrets[n]) : n \in registered \cap {target(q)}}

inFlight(h) ==
  mirrorsTouched(req[h])
    \cup (IF req[h].op = "delete" /\ seen[h] # None THEN {mirrorOf(seen[h])} ELSE {})

\* Overlaps the code does not order: a delete beside a create of the same
\* Secret, or beside another Secret's request on the same mirror, and
\* whatever then arrives for that Secret.
overlaps(q, o) ==
  IF target(q) = target(req[o])
    THEN q.op # req[o].op \/ inFlight(o) \cap disturbed # {}
    ELSE "delete" \in {q.op, req[o].op} /\ mirrorsTouched(q) \cap inFlight(o) # {}

Arrive(h, q, first) ==
  /\ pc[h] = "idle" /\ served < MaxRequests
  /\ served' = served + 1
  /\ req' = [req EXCEPT ![h] = q]
  /\ pc' = [pc EXCEPT ![h] = first]
  /\ disturbed' = disturbed \cup
       UNION {mirrorsTouched(q) \cup inFlight(o) :
              o \in {x \in Handlers : pc[x] # "idle" /\ overlaps(q, x)}}
  /\ UNCHANGED <<secrets, mirrors, live, seen, faults, ledger>>

\* The answer is written and the handler returns.
Done(h) ==
  /\ pc' = [pc EXCEPT ![h] = "idle"]
  /\ seen' = [seen EXCEPT ![h] = None]
  /\ req' = [req EXCEPT ![h] = None]
  /\ before' = [before EXCEPT ![h] = {}]
Goto(h, l) == pc' = [pc EXCEPT ![h] = l] /\ UNCHANGED <<req, before>>

\* How an API call ends: answered, refused without effect, or applied with
\* its answer lost.
Outcomes == {"ok", "failed", "lost"}
Call(o) ==
  \/ o = "ok" /\ UNCHANGED faults
  \/ o # "ok" /\ faults < MaxFaults /\ faults' = faults + 1
\* What is left half done when the call ends this way is marked.
Mark(b, h) == disturbed' = IF b THEN disturbed \cup inFlight(h) ELSE disturbed

----------------------------------------------------------------------------
(* handleCreateProjectRepository, handleCreateTenantRepository *)

ReceiveCreate(h, q) ==
  /\ validateRepositoryRequest(q)
  /\ Arrive(h, [op |-> "create", scope |-> q.scope, name |-> q.name, raw |-> q.raw,
                cred |-> q.cred], "create")
  /\ UNCHANGED before

\* 400: nothing was touched.
RefuseCreate(q) ==
  /\ served < MaxRequests
  /\ ~validateRepositoryRequest(q)
  /\ served' = served + 1
  /\ UNCHANGED <<secrets, mirrors, live, req, pc, seen, faults, ledger,
                 disturbed, before>>

repositorySecret(q) ==
  [scope |-> q.scope, name |-> q.name, url |-> canonicalRepositoryURL(q.raw), cred |-> q.cred]

\* The mirror as one request writes it, with the resource version it gets.
mirrorSecret(s, h) == [cred |-> s.cred, rv |-> served, by |-> h]

\* None stands for a Secret that is not there.
ASSUME NoneIsNoSecret ==
  /\ \A q \in CreateRequests : repositorySecret(q) # None
  /\ None \notin [cred : {q.cred : q \in CreateRequests}, rv : 0..MaxRequests, by : Handlers]

CreateSecret(h, o) ==
  LET n == target(req[h])  taken == secrets[n] # None IN
  /\ pc[h] = "create"
  /\ Call(o)
  /\ IF taken \/ o = "failed"
       THEN UNCHANGED secrets
       ELSE secrets' = [secrets EXCEPT ![n] = repositorySecret(req[h])]
  /\ IF taken \/ o # "ok" THEN Done(h) ELSE Goto(h, "getMirror") /\ UNCHANGED seen
  /\ Mark(o = "lost" /\ ~taken, h)
  /\ UNCHANGED <<mirrors, live, served, ledger>>

\* ensureArgoCDRepoSecretImpl: read the mirror ...
GetMirror(h, o) ==
  /\ pc[h] = "getMirror" /\ req[h].op = "create"
  /\ o # "lost" /\ Call(o)
  /\ IF o = "failed"
       THEN Goto(h, "rollback") /\ UNCHANGED seen
       ELSE /\ Goto(h, "writeMirror")
            /\ seen' = [seen EXCEPT ![h] = mirrors[mirrorOf(repositorySecret(req[h]))]]
  /\ UNCHANGED <<secrets, mirrors, live, served, ledger, disturbed>>

\* ... and create it, or update it at the resource version that was read.
writable(h) == mirrors[mirrorOf(repositorySecret(req[h]))] = seen[h]
WriteMirror(h, o) ==
  LET s == repositorySecret(req[h])  m == mirrorOf(s) IN
  /\ pc[h] = "writeMirror"
  /\ Call(o)
  /\ IF writable(h) /\ o # "failed"
       THEN mirrors' = [mirrors EXCEPT ![m] = mirrorSecret(s, h)]
       ELSE UNCHANGED mirrors
  /\ IF writable(h) /\ o = "ok"
       THEN Done(h) /\ ledger' = ledger \cup {s}
       ELSE Goto(h, "rollback") /\ UNCHANGED <<seen, ledger>>
  /\ Mark(o = "lost" /\ writable(h), h)
  /\ UNCHANGED <<secrets, live, served>>

\* The mirror failed: the registration is taken back, by name.
Rollback(h, o) ==
  /\ pc[h] = "rollback"
  /\ Call(o)
  /\ secrets' = IF o = "failed" THEN secrets ELSE [secrets EXCEPT ![target(req[h])] = None]
  /\ Mark(o = "failed", h)
  /\ Done(h)
  /\ UNCHANGED <<mirrors, live, served, ledger>>

----------------------------------------------------------------------------
(* handleDeleteProjectRepository, handleDeleteTenantRepository *)

ReceiveDelete(h, d) ==
  LET q == [op |-> "delete", scope |-> d[1], name |-> d[2]]  n == target(q) IN
  /\ Arrive(h, q, "get")
  /\ before' = [before EXCEPT ![h] = IF secrets[n] = None THEN {}
                                     ELSE {i \in live : uses(i, secrets[n])}]

\* 404 when it is not there, 403 when it is another project's.
GetSecret(h, o) ==
  LET s == secrets[target(req[h])] IN
  /\ pc[h] = "get"
  /\ o # "lost" /\ Call(o)
  /\ IF o = "failed" \/ s = None
       THEN Done(h)
       ELSE IF s.scope # req[h].scope
       THEN Done(h)
       ELSE Goto(h, "dependencies") /\ seen' = [seen EXCEPT ![h] = s]
  /\ UNCHANGED <<secrets, mirrors, live, served, ledger, disturbed>>

\* 409 while an instance refers to it.
CheckDependencies(h, o) ==
  /\ pc[h] = "dependencies"
  /\ o # "lost" /\ Call(o)
  /\ IF o = "failed" \/ repositoryDependencies(seen[h]) # {}
       THEN Done(h)
       ELSE Goto(h, "others") /\ UNCHANGED seen
  /\ UNCHANGED <<secrets, mirrors, live, served, ledger, disturbed>>

\* Mutant: the mirror is taken to belong to one registration.
noOthers(h) == {n \in {} : h \in Handlers}

\* cleanupArgoCDRepoSecretIfUnused: another registration keeps the mirror.
othersMapped(h) ==
  {n \in registered \ {target(req[h])} : mirrorOf(secrets[n]) = mirrorOf(seen[h])}
ListOthers(h, o) ==
  /\ pc[h] = "others"
  /\ o # "lost" /\ Call(o)
  /\ IF o = "failed" THEN Done(h)
     ELSE /\ Goto(h, IF othersMapped(h) # {} THEN "deleteSecret" ELSE "deleteMirror")
          /\ UNCHANGED seen
  /\ UNCHANGED <<secrets, mirrors, live, served, ledger, disturbed>>

\* The mirror is read and deleted by name; one that is gone is no error.
DeleteMirror(h, o) ==
  LET m == mirrorOf(seen[h]) IN
  /\ pc[h] = "deleteMirror"
  /\ Call(o)
  /\ mirrors' = IF o = "failed" THEN mirrors ELSE [mirrors EXCEPT ![m] = None]
  /\ IF o = "ok" THEN Goto(h, "deleteSecret") /\ UNCHANGED seen ELSE Done(h)
  /\ Mark(o = "lost", h)
  /\ UNCHANGED <<secrets, live, served, ledger>>

\* By name too, whatever the Secret has become; 404 when it is gone.
DeleteSecret(h, o) ==
  LET n == target(req[h]) IN
  /\ pc[h] = "deleteSecret"
  /\ Call(o)
  /\ secrets' = IF o = "failed" THEN secrets ELSE [secrets EXCEPT ![n] = None]
  /\ ledger' = IF o = "ok" THEN {s \in ledger : target(s) # n} ELSE ledger
  /\ Mark(o # "ok", h)
  /\ Done(h)
  /\ UNCHANGED <<mirrors, live, served>>

----------------------------------------------------------------------------
\* The process ends in the middle of a request.
Crash(h) ==
  /\ pc[h] # "idle" /\ faults < MaxFaults
  /\ faults' = faults + 1
  /\ Mark(pc[h] \notin {"create", "get", "dependencies", "others"}, h)
  /\ Done(h)
  /\ UNCHANGED <<secrets, mirrors, live, served, ledger>>

CreateInstance(i) ==
  /\ live' = live \cup {i} /\ i \notin live
  /\ UNCHANGED <<secrets, mirrors, req, pc, seen, served, faults, ledger,
                 disturbed, before>>
DeleteInstance(i) ==
  /\ live' = live \ {i} /\ i \in live
  /\ before' = [h \in Handlers |-> before[h] \ {i}]
  /\ UNCHANGED <<secrets, mirrors, req, pc, seen, served, faults, ledger, disturbed>>

Next ==
  \/ \E h \in Handlers :
       \/ \E q \in CreateRequests : ReceiveCreate(h, q)
       \/ \E d \in DeleteRequests : ReceiveDelete(h, d)
       \/ \E o \in Outcomes :
            \/ CreateSecret(h, o) \/ GetMirror(h, o) \/ WriteMirror(h, o) \/ Rollback(h, o)
            \/ GetSecret(h, o) \/ CheckDependencies(h, o) \/ ListOthers(h, o)
            \/ DeleteMirror(h, o) \/ DeleteSecret(h, o)
       \/ Crash(h)
  \/ \E q \in CreateRequests : RefuseCreate(q)
  \/ \E i \in Instances : CreateInstance(i) \/ DeleteInstance(i)

Spec == Init /\ [][Next]_vars

----------------------------------------------------------------------------
(* Properties *)

Secret == [scope : Scopes, name : {r.name : r \in CreateRequests},
           url : {canonicalRepositoryURL(r.raw) : r \in CreateRequests},
           cred : {r.cred : r \in CreateRequests}]

\* The shape of the stored Secrets, the requests in flight and the history.
TypeOK ==
  /\ secrets \in [SecretNames -> Secret \cup {None}]
  /\ DOMAIN mirrors = Mirrors
  /\ live \subseteq Instances
  /\ pc \in [Handlers -> {"idle", "create", "getMirror", "writeMirror", "rollback", "get",
                          "dependencies", "others", "deleteMirror", "deleteSecret"}]
  /\ served \in 0..MaxRequests /\ faults \in 0..MaxFaults
  /\ ledger \subseteq Secret /\ disturbed \subseteq Mirrors
  /\ before \in [Handlers -> SUBSET Instances]

\* No request in flight is about this mirror.
settled(m) == \A h \in Handlers : pc[h] # "idle" => m \notin inFlight(h)

\* What the API acknowledged is what is stored: unless a delete overlapped
\* another request on it or a call was lost half way, the Secrets that map
\* to a mirror are the acknowledged registrations, and the mirror exists
\* just when there is one.  Concurrent creates, name clashes, refused
\* mirror writes and their rollbacks leave nothing behind.
AcknowledgedIsStored ==
  \A m \in Mirrors \ disturbed : settled(m) =>
    /\ {secrets[n] : n \in {x \in registered : mirrorOf(secrets[x]) = m}}
         = {s \in ledger : mirrorOf(s) = m}
    /\ (mirrors[m] # None) = (\E s \in ledger : mirrorOf(s) = m)

\* A registration an instance was using before the delete request arrived,
\* and has used ever since, is not removed by that request: by name or by
\* another spelling of its URL, from any project of the tenant.
InUseIsKept ==
  [][\A h \in Handlers :
       (pc[h] = "deleteSecret" /\ secrets'[target(req[h])] = None /\ pc'[h] = "idle"
          /\ seen[h] = secrets[target(req[h])])
         => \A i \in before[h] : ~uses(i, seen[h])]_vars

\* docs/repository-lifecycle.md: a mirror goes only when no other registered
\* repository maps to the same canonical URL and scope.  A delete that overlaps
\* a create does not keep this: see section 5 of the README.
MirrorKeptWhileMapped ==
  [][\A m \in Mirrors : mirrors[m] # None /\ mirrors'[m] = None =>
       Cardinality({n \in registered : mirrorOf(secrets[n]) = m}) <= 1]_vars
============================================================================
