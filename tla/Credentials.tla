---------------------------- MODULE Credentials ----------------------------
(***************************************************************************)
(* The credentials of a NATS instance.  Two controllers of the manager     *)
(* write the same Secrets without knowing of each other:                   *)
(*   - the ServiceInstance controller creates one Secret per credential of *)
(*     an instance, renders the server's user list (NATS users.conf) from  *)
(*     them and prunes the Secrets of credentials that are gone from the   *)
(*     spec (nats_runtime.go, ensureCredentialSecrets);                    *)
(*   - the ActionRequest controller rotates one credential, renders the    *)
(*     user list again and rolls the servers (rotateNATSCredentials).      *)
(* Both read through the manager's informer cache.  A Get and the Update    *)
(* that follows it are one step here: the Update carries the resource      *)
(* version that was read, so it is refused when the object moved on or the *)
(* cache was behind, and the refusal is the controller's error path.       *)
(***************************************************************************)
EXTENDS Naturals, FiniteSets

CONSTANTS
  AppCreds,     \* application credentials a spec may list
  Admin,        \* the credential every instance has, CredentialRefs[0]
  Ops,          \* rotation requests, each [id, cred]: the credential it rotates
  Projected,    \* the instance's deliveryMode is external-secret
  MaxEdits,     \* bound on edits of the instance's spec
  MaxFaults,    \* bound on API errors and manager crashes
  None

ASSUME CredentialConstants ==
  /\ Admin \notin AppCreds
  /\ \A o \in Ops : o.cred \in AppCreds \cup {Admin}
  /\ Projected \in BOOLEAN /\ MaxEdits \in Nat /\ MaxFaults \in Nat

Creds == AppCreds \cup {Admin}

VARIABLES
  listed,      \* appCredentials of the instance's spec
  secrets,     \* credential Secrets: password and last rotation's operation
  cache,       \* the same Secrets as the informer cache shows them
  conf,        \* users.conf: a password for every user, None before it exists
  confSeen,    \* the cache shows the latest users.conf
  minted,      \* passwords generated so far
  published,   \* the instance's status lists its CredentialRefs
  failed,      \* the instance's status says Failed
  si,          \* the ServiceInstance reconcile in progress
  siQueue,     \* ... and whether another one is queued
  ar,          \* the rotation in progress
  opState,     \* phase of every rotation request
  edits, faults

siVars  == <<listed, conf, confSeen, published, failed, si, siQueue>>
arVars  == <<ar, opState>>
vars == <<siVars, secrets, cache, minted, arVars, edits, faults>>

Idle == [pc |-> "idle"]

Init ==
  /\ listed \in SUBSET AppCreds
  /\ secrets = [c \in Creds |-> None] /\ cache = secrets
  /\ conf = None /\ confSeen = TRUE /\ minted = 0
  /\ published = FALSE /\ failed = FALSE
  /\ si = Idle /\ siQueue = TRUE
  /\ ar = Idle /\ opState = [o \in Ops |-> "None"]
  /\ edits = 0 /\ faults = 0

fresh(c) == cache[c] = secrets[c]
Fault == faults < MaxFaults /\ faults' = faults + 1

----------------------------------------------------------------------------
(* The ServiceInstance controller *)

SIBegin ==
  /\ si.pc = "idle" /\ siQueue
  /\ siQueue' = FALSE
  /\ si' = [pc |-> "ensure", spec |-> listed, todo |-> listed \cup {Admin},
            pw |-> [c \in {} |-> 0]]
  /\ UNCHANGED <<listed, conf, confSeen, published, failed, secrets, cache, minted, arVars,
                 edits, faults>>

\* Mutant: every reconcile generates the password anew.
alwaysMinted(c) == [pw |-> minted + 1, op |-> None]
\* ensureOpaqueSecret: keep the password that is there, else make one.
ensured(c) == IF secrets[c] = None THEN [pw |-> minted + 1, op |-> None] ELSE secrets[c]
SIEnsure(c) ==
  /\ si.pc = "ensure" /\ c \in si.todo /\ (Admin \in si.todo => c = Admin)
  /\ fresh(c)
  /\ secrets' = [secrets EXCEPT ![c] = ensured(c)]
  /\ minted' = IF secrets[c] = None THEN minted + 1 ELSE minted
  /\ si' = [si EXCEPT !.todo = @ \ {c},
                      !.pw = [x \in DOMAIN si.pw \cup {c} |->
                                IF x = c THEN ensured(c).pw ELSE si.pw[x]],
                      !.pc = IF si.todo = {c} THEN "conf" ELSE "ensure"]
  /\ UNCHANGED <<listed, conf, confSeen, published, failed, siQueue, cache, arVars, edits, faults>>

\* One entry per credential, with the passwords collected on the way.
renderNATSUsersConfig == si.pw
SIConf ==
  /\ si.pc = "conf" /\ confSeen
  /\ conf' = renderNATSUsersConfig /\ confSeen' = FALSE
  /\ si' = [si EXCEPT !.pc = "prune"]
  /\ UNCHANGED <<listed, published, failed, siQueue, secrets, cache, minted, arVars, edits, faults>>

\* Mutant: Secrets are never pruned.
nothingObsolete == {}
\* Labelled Secrets, as listed, of credentials this spec does not name.
obsolete == {c \in AppCreds : cache[c] # None /\ c \notin si.spec}
SIPrune ==
  /\ si.pc = "prune"
  /\ secrets' = [c \in Creds |-> IF c \in obsolete THEN None ELSE secrets[c]]
  /\ si' = [si EXCEPT !.pc = "status"]
  /\ UNCHANGED <<listed, conf, confSeen, published, failed, siQueue, cache, minted, arVars, edits, faults>>

\* renderExternalSecretArtifacts needs the keys of every Secret it projects.
keysReadable == Projected => \A c \in si.spec \cup {Admin} : cache[c] # None
\* The rest of the reconcile; a status that changed is an event of its own.
SIDone ==
  /\ si.pc = "status" /\ keysReadable
  /\ published' = TRUE /\ failed' = FALSE
  /\ siQueue' = (siQueue \/ failed \/ ~published)
  /\ si' = Idle
  /\ UNCHANGED <<listed, conf, confSeen, secrets, cache, minted, arVars, edits, faults>>

\* CredentialProjectionFailed: no requeue, only the status change wakes it.
refused ==
  \/ si.pc = "ensure" /\ \E c \in si.todo : (Admin \in si.todo => c = Admin) /\ ~fresh(c)
  \/ si.pc = "conf" /\ ~confSeen
  \/ si.pc = "status" /\ ~keysReadable
SIFail ==
  /\ si.pc # "idle"
  /\ (refused /\ UNCHANGED faults) \/ Fault
  /\ failed' = TRUE
  /\ siQueue' = (siQueue \/ ~failed)
  /\ si' = Idle
  /\ UNCHANGED <<listed, conf, confSeen, published, secrets, cache, minted, arVars, edits>>

\* The informer's resync lists every object again (every ten hours).
SIResync ==
  /\ siQueue' = TRUE /\ ~siQueue
  /\ UNCHANGED <<listed, conf, confSeen, published, failed, si, secrets, cache, minted, arVars, edits, faults>>

----------------------------------------------------------------------------
(* The ActionRequest controller: rotateNATSCredentials *)

Submit(o) ==
  /\ opState[o] = "None" /\ conf # None
  /\ opState' = [opState EXCEPT ![o] = "Running"]
  /\ UNCHANGED <<ar, siVars, secrets, cache, minted, edits, faults>>

ARBegin(o) ==
  /\ ar.pc = "idle" /\ opState[o] = "Running"
  /\ ar' = [pc |-> "secret", op |-> o, spec |-> listed, todo |-> listed \cup {Admin},
            pw |-> [c \in {} |-> 0]]
  /\ UNCHANGED <<opState, siVars, secrets, cache, minted, edits, faults>>

\* A new password unless this operation already left its mark.
ARSecret ==
  LET c == ar.op.cred IN
  /\ ar.pc = "secret" /\ c \in ar.spec \cup {Admin}
  /\ cache[c] # None
  /\ \/ cache[c].op = ar.op /\ UNCHANGED <<secrets, minted>>
     \/ /\ cache[c].op # ar.op /\ fresh(c)
        /\ secrets' = [secrets EXCEPT ![c] = [pw |-> minted + 1, op |-> ar.op]]
        /\ minted' = minted + 1
  /\ ar' = [ar EXCEPT !.pc = "read"]
  /\ UNCHANGED <<opState, siVars, cache, edits, faults>>

\* syncNATSAuthConfigSecret: the passwords as the cache shows them ...
ARRead(c) ==
  /\ ar.pc = "read" /\ c \in ar.todo
  /\ cache[c] # None
  /\ ar' = [ar EXCEPT !.todo = @ \ {c},
                      !.pw = [x \in DOMAIN ar.pw \cup {c} |->
                                IF x = c THEN cache[c].pw ELSE ar.pw[x]],
                      !.pc = IF ar.todo = {c} THEN "conf" ELSE "read"]
  /\ UNCHANGED <<opState, siVars, secrets, cache, minted, edits, faults>>

\* ... become the user list.
ARConf ==
  /\ ar.pc = "conf" /\ confSeen
  /\ conf' = ar.pw /\ confSeen' = FALSE
  /\ ar' = [ar EXCEPT !.pc = "rollout"]
  /\ UNCHANGED <<opState, listed, published, failed, si, siQueue, secrets, cache, minted,
                 edits, faults>>

\* The StatefulSet is annotated and the request has Succeeded.
ARDone ==
  /\ ar.pc = "rollout"
  /\ opState' = [opState EXCEPT ![ar.op] = "Succeeded"]
  /\ ar' = Idle
  /\ UNCHANGED <<siVars, secrets, cache, minted, edits, faults>>

\* Any error makes the request Failed for good.
unreadable ==
  \/ ar.pc = "secret" /\ ar.op.cred \notin ar.spec \cup {Admin}
  \/ ar.pc = "secret" /\ cache[ar.op.cred] = None
  \/ /\ ar.pc = "secret" /\ cache[ar.op.cred] # None
     /\ cache[ar.op.cred].op # ar.op /\ ~fresh(ar.op.cred)
  \/ ar.pc = "read" /\ \E c \in ar.todo : cache[c] = None
  \/ ar.pc = "conf" /\ ~confSeen
ARFail ==
  /\ ar.pc # "idle"
  /\ (unreadable /\ UNCHANGED faults) \/ Fault
  /\ opState' = [opState EXCEPT ![ar.op] = "Failed"]
  /\ ar' = Idle
  /\ UNCHANGED <<siVars, secrets, cache, minted, edits>>

----------------------------------------------------------------------------
(* Everyone else *)

\* The informers catch up with the API server.
CacheSync ==
  /\ cache # secrets \/ ~confSeen
  /\ cache' = secrets /\ confSeen' = TRUE
  /\ UNCHANGED <<listed, conf, published, failed, si, siQueue, secrets, minted, arVars, edits,
                 faults>>

EditSpec ==
  /\ edits < MaxEdits /\ edits' = edits + 1
  /\ \E l \in (SUBSET AppCreds) \ {listed} : listed' = l
  /\ siQueue' = TRUE
  /\ UNCHANGED <<conf, confSeen, published, failed, si, secrets, cache, minted, arVars, faults>>

\* The manager stops: reconciles end where they are and, after the restart,
\* every object is listed and queued again.
Crash ==
  /\ Fault
  /\ si' = Idle /\ ar' = Idle /\ siQueue' = TRUE
  /\ cache' = secrets /\ confSeen' = TRUE
  /\ UNCHANGED <<listed, conf, published, failed, secrets, minted, opState, edits>>

----------------------------------------------------------------------------
SIStep == SIBegin \/ (\E c \in Creds : SIEnsure(c)) \/ SIConf \/ SIPrune \/ SIDone \/ SIFail
ARStep ==
  \/ \E o \in Ops : ARBegin(o)
  \/ \E c \in Creds : ARRead(c)
  \/ ARSecret \/ ARConf \/ ARDone \/ ARFail
Next ==
  \/ SIStep \/ SIResync \/ ARStep
  \/ \E o \in Ops : Submit(o)
  \/ CacheSync \/ EditSpec \/ Crash

\* Work queues are served, caches catch up and resyncs come; nobody has to
\* edit or submit anything.
Spec ==
  /\ Init /\ [][Next]_vars
  /\ WF_vars(SIStep) /\ WF_vars(SIResync) /\ WF_vars(ARStep) /\ WF_vars(CacheSync)

----------------------------------------------------------------------------
Passwords == 0 .. (Cardinality(Creds) * (MaxEdits + 1) + Cardinality(Ops) * (MaxFaults + 1))
Secret == [pw : Passwords, op : Ops \cup {None}] \cup {None}
Users == UNION {[s \cup {Admin} -> Passwords] : s \in SUBSET AppCreds}

\* The shape of the state: Secrets and caches hold passwords that were
\* generated, and users.conf always has the administrator.
TypeOK ==
  /\ listed \subseteq AppCreds
  /\ secrets \in [Creds -> Secret] /\ cache \in [Creds -> Secret]
  /\ conf \in Users \cup {None} /\ minted \in Passwords
  /\ si.pc \in {"idle", "ensure", "conf", "prune", "status"}
  /\ ar.pc \in {"idle", "secret", "read", "conf", "rollout"}
  /\ opState \in [Ops -> {"None", "Running", "Succeeded", "Failed"}]

\* A password in use is replaced only by the rotation of that credential,
\* never by a reconcile that lost track of the Secret (a stale cache, a
\* restart, a credential removed and listed again while Secrets are pruned),
\* and never again by an operation that already left its mark.
OnlyRotationRotates ==
  [][\A c \in Creds :
       secrets[c] # None /\ secrets'[c] # None /\ secrets[c].pw # secrets'[c].pw =>
         ar.pc = "secret" /\ ar.op.cred = c /\ secrets[c].op # ar.op]_secrets

\* After the last edit and rotation the server's user list holds exactly the
\* credentials of the spec with the passwords of their Secrets, and the
\* Secrets of credentials that are gone are gone, whatever the controllers
\* read from a cache that was behind.
ConfigCatchesUp ==
  <>[](/\ \A c \in listed \cup {Admin} : secrets[c] # None
       /\ conf = [c \in listed \cup {Admin} |-> IF secrets[c] = None THEN 0 ELSE secrets[c].pw]
       /\ \A c \in AppCreds \ listed : secrets[c] = None)
============================================================================
