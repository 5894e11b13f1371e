------------------------------- MODULE Access -------------------------------
(***************************************************************************)
(* Who may do what in the portal's backend (internal/bff): sign-in through *)
(* local, LDAP and OIDC providers, sealed session cookies, the actor that  *)
(* every request derives again from Users, Groups, RoleBindings, Tenants   *)
(* and role ConfigMaps, and the administration of those very objects.      *)
(*                                                                         *)
(* The API server is `store` (objects with a resource version) and `secret`*)
(* (the version of the credential in an object's Secret, 0 when there is   *)
(* none).  A browser's cookie jar is `jar`; a response reaches it some     *)
(* time after the handler produced it.  `req` holds the requests in        *)
(* flight: every List of resolveActor and every API call of a handler is a *)
(* step of its own, so other requests come between them.                   *)
(***************************************************************************)
EXTENDS Naturals, FiniteSets

CONSTANTS
  Users, Groups, Roles, RoleBindings, Providers, Tenants, \* object names
  Subjects,          \* identities at an OIDC provider or LDAP directory
  ExternalGroups,    \* groups named by a token or a directory
  Owners,            \* Tenant -> the users its spec names as owners
  Bootstrap,         \* SERVICER_BOOTSTRAP_ADMIN_USERNAME
  LocalProvider, BootBinding,  \* "local", "bootstrap-platform-admin"
  Initial,           \* objects created and sessions opened earlier, and bounds
  Requests,          \* the bodies sent to the handlers
  Browsers, Handlers,
  BearerTokens,      \* ID tokens that API clients send
  Nil

VARIABLES store, rv, secret, cache, jar, req, codes, proved, up, left

vars == <<store, rv, secret, cache, jar, req, codes, proved, up, left>>

Names == Users \cup Groups \cup Roles \cup RoleBindings \cup Providers
Holders == Users \cup Providers      \* objects that refer to a Secret

(* ----------------------------- roles and scopes ------------------------ *)

\* BuiltIn roles by scope; their only permission is themselves.
builtInRoles == [platform |-> {"platform-admin", "catalog-admin", "cluster-admin", "auditor"},
                 tenant   |-> {"tenant-admin", "tenant-operator", "service-consumer"}]

allowedRolePermissions(scope) == builtInRoles[scope]

tenantRoleSatisfies(granted, required) ==
  \/ granted = required
  \/ granted = "tenant-admin" /\ required \in {"tenant-operator", "service-consumer"}
  \/ granted = "tenant-operator" /\ required = "service-consumer"

platformRoleSatisfies(granted, required) ==
  granted = "platform-admin" \/ tenantRoleSatisfies(granted, required)

\* A plausible slip: a custom role's scope is not compared with the binding's.
ExpandAnyScope(name, scope, roles) ==
  {name} \cup IF name \in DOMAIN roles THEN roles[name].permissions ELSE {}

\* The names a bound role stands for: its own, and a custom role's permissions
\* when the role's scope is the binding's.
expand(name, scope, roles) ==
  {name} \cup IF name \in DOMAIN roles /\ roles[name].scope = scope
              THEN roles[name].permissions ELSE {}

hasAny(q, roles) ==
  \E required \in roles :
    \/ \E g \in q.roles : platformRoleSatisfies(g, required)
    \/ \E t \in Tenants : \E g \in q.tenantRoles[t] : tenantRoleSatisfies(g, required)

isPlatformAdmin(q) == hasAny(q, {"platform-admin"})

\* A plausible slip: the administration handlers use the lenient check.
RequirePlatformRoleLenient(q, roles) == hasAny(q, roles)

\* requireRole accepts inherited and tenant roles, requirePlatformRole only a
\* role that a platform-scoped binding gave by name.
requireRole(q, roles) == hasAny(q, roles)
requirePlatformRole(q, roles) == q.roles \cap roles # {}

\* A plausible slip: a role in any tenant opens all of them.
TenantVisibleAnywhere(q, t) ==
  isPlatformAdmin(q) \/ \E o \in Tenants : q.tenantRoles[o] # {}

tenantVisibleToActor(q, t) ==
  isPlatformAdmin(q) \/ q.tenantRoles[t] # {}

visibleTenants(q) ==
  IF requireRole(q, {"platform-admin", "tenant-operator", "service-consumer"})
  THEN {t \in Tenants : tenantVisibleToActor(q, t)} ELSE {}

(* ------------------------------ validation ----------------------------- *)

Exists(n) == store[n] # Nil
Enabled(p) == Exists(p) /\ store[p].spec.enabled

validateAuthProviderSpec(s) == (s.default => s.enabled) /\ s.type \in {"local", "oidc", "ldap"}
authProviderFromRequest(s) == validateAuthProviderSpec(s)
validateAuthProviderUpdate(old, new) == validateAuthProviderSpec(new) /\ old.type = new.type

applyAuthProviderSecretRequirements(r) ==
  \/ r.spec.type = "local"
  \/ r.secret
  \/ r.verb = "update" /\ store[r.name].spec.type = r.spec.type

validateUserSpec(s) == s.local \/ s.ids # {}
validateUserRequest(s) == validateUserSpec(s)
validateCreateUserRequest(r) == validateUserRequest(r.spec) /\ (r.spec.local => r.secret)
hasExistingLocalAuthSecret(u) == store[u].spec.local

\* A plausible slip: an update may enable local login without a password.
UpdateUserWithoutPassword(r) == validateUserRequest(r.spec)

validateUpdateUserRequest(r) ==
  validateUserRequest(r.spec) /\ (r.spec.local /\ ~r.secret => hasExistingLocalAuthSecret(r.name))

validateGroupSpec(s) == s.members # {} \/ s.external # {}
validateGroupRequest(s) == validateGroupSpec(s)

roleFromRequest(s) == s.permissions # {} /\ s.permissions \subseteq allowedRolePermissions(s.scope)

validateRoleBindingSpec(s) ==
  s.subjects # {} /\ s.roles # {} /\ (s.scope = "platform" <=> s.tenant = Nil)
validateRoleBindingRequest(s) == validateRoleBindingSpec(s)
validateRoleBindingUpdate(old, new) ==
  validateRoleBindingSpec(new) /\ old.scope = new.scope /\ old.tenant = new.tenant

\* The admission webhooks of the access objects (ConfigMaps have none).
Admitted(n, old, new) ==
  CASE n \in Providers    -> IF old = Nil THEN validateAuthProviderSpec(new)
                             ELSE validateAuthProviderUpdate(old, new)
    [] n \in Users        -> validateUserSpec(new)
    [] n \in Groups       -> validateGroupSpec(new)
    [] n \in RoleBindings -> IF old = Nil THEN validateRoleBindingSpec(new)
                             ELSE validateRoleBindingUpdate(old, new)
    [] n \in Roles        -> TRUE

(* ------------------------- what the constants are ----------------------- *)

RoleNames == Roles \cup builtInRoles.platform \cup builtInRoles.tenant

\* The bodies that decode into an object of each kind.
SpecOf(n) ==
  IF n \in Providers THEN [type : {"local", "oidc", "ldap"}, enabled : BOOLEAN, default : BOOLEAN]
  ELSE IF n \in Users THEN [local : BOOLEAN, ids : SUBSET (Providers \X Subjects)]
  ELSE IF n \in Groups THEN [members : SUBSET Users, external : SUBSET (Providers \X ExternalGroups)]
  ELSE IF n \in Roles THEN [scope : {"platform", "tenant"}, permissions : SUBSET RoleNames]
  ELSE [scope : {"platform", "tenant"}, tenant : Tenants \cup {Nil},
        subjects : SUBSET (Users \cup Groups \cup Subjects), roles : SUBSET RoleNames]

Sessions == [provider : Providers, type : {"local", "oidc", "ldap"},
            subject : Users \cup Subjects, groups : SUBSET ExternalGroups]

ASSUME NamesAssumption ==
  /\ Nil \notin Names \cup Tenants
  /\ Users \cap (Groups \cup Roles \cup RoleBindings \cup Providers) = {}
  /\ Groups \cap (Roles \cup RoleBindings \cup Providers) = {}
  /\ Roles \cap (RoleBindings \cup Providers) = {}
  /\ RoleBindings \cap Providers = {}
  /\ Bootstrap \in Users /\ LocalProvider \in Providers /\ BootBinding \in RoleBindings
  \* handleCreateRole refuses a built-in name, authRolesFromClient skips it
  /\ Roles \cap (builtInRoles.platform \cup builtInRoles.tenant) = {}

\* A behaviour starts with objects that the handlers and webhooks accepted.
ASSUME InputsAssumption ==
  /\ BearerTokens \subseteq Sessions
  /\ \A r \in Requests :
       /\ r.verb \in {"read", "session", "create", "update", "delete"} /\ r.secret \in BOOLEAN
       /\ r.verb \in {"create", "update"} => r.name \in Names /\ r.spec \in SpecOf(r.name)
       /\ r.secret => r.verb \in {"create", "update"} /\ r.name \in Holders
  /\ \A i \in Initial :
       /\ i.left \in [requests : Nat, others : Nat]
       /\ i.sessions \in [Browsers -> Sessions \cup {Nil}]
       /\ \A n \in Names \cap DOMAIN i.objects :
            /\ i.objects[n] \in SpecOf(n) /\ Admitted(n, Nil, i.objects[n])
            /\ n \in Roles => roleFromRequest(i.objects[n])

(* -------------------- what still refers to an object -------------------- *)

Of(kind) == {n \in kind : Exists(n)}

hasAlternateEnabledLocalProvider(p) ==
  \E o \in Of(Providers) \ {p} : store[o].spec.type = "local" /\ store[o].spec.enabled

authProviderDeleteDependencies(p) ==
  LET required == /\ store[p].spec.type = "local" /\ store[p].spec.enabled
                  /\ ~hasAlternateEnabledLocalProvider(p)
  IN {u \in Of(Users) : (required /\ store[u].spec.local)
                        \/ \E id \in store[u].spec.ids : id[1] = p}
     \cup {g \in Of(Groups) : \E e \in store[g].spec.external : e[1] = p}

userDeleteDependencies(u) ==
  {g \in Of(Groups) : u \in store[g].spec.members}
  \cup {b \in Of(RoleBindings) : u \in store[b].spec.subjects}

groupDeleteDependencies(g) == {b \in Of(RoleBindings) : g \in store[b].spec.subjects}
roleDeleteDependencies(r) == {b \in Of(RoleBindings) : r \in store[b].spec.roles}

(* ------------------------------ the process ----------------------------- *)

NoRoles == [t \in Tenants |-> {}]

\* SSA patches of Secret, User and RoleBinding; the provider is only created
\* when it is missing.  The webhook refuses to move a binding between scopes,
\* and then the process does not start.
ensureBootstrapAdmin(st, version) ==
  LET Apply(n, spec) == [spec |-> spec, rv |-> version, carried |-> 0]
      boot == [scope |-> "platform", tenant |-> Nil, subjects |-> {Bootstrap},
               roles |-> {"platform-admin", "catalog-admin", "cluster-admin"}]
      ids  == IF st[Bootstrap] = Nil THEN {} ELSE st[Bootstrap].spec.ids
  IN [st EXCEPT
       ![LocalProvider] = IF @ # Nil THEN @
                          ELSE Apply(LocalProvider, [type |-> "local", enabled |-> TRUE, default |-> TRUE]),
       ![Bootstrap]   = Apply(Bootstrap, [local |-> TRUE, ids |-> ids]),
       ![BootBinding] = IF @ # Nil /\ @.spec.scope # "platform" THEN @
                        ELSE Apply(BootBinding, boot)]

BootstrapRefused(st) == st[BootBinding] # Nil /\ st[BootBinding].spec.scope # "platform"

EmptyJar == [session |-> Nil, flow |-> Nil, csrf |-> FALSE]

Init ==
  /\ \E i \in Initial :
       /\ store = ensureBootstrapAdmin(
                   [n \in Names |-> IF n \in DOMAIN i.objects
                                    THEN [spec |-> i.objects[n], rv |-> 0, carried |-> 0] ELSE Nil], 0)
       /\ jar = [b \in Browsers |-> [session |-> i.sessions[b], flow |-> Nil,
                                     csrf |-> i.sessions[b] # Nil]]
       /\ proved = {<<b, i.sessions[b].provider, i.sessions[b].subject>> :
                     b \in {b \in Browsers : i.sessions[b] # Nil}}
       /\ left = i.left
  /\ rv = 0
  /\ secret = [n \in Holders |->
       IF n = Bootstrap THEN 1
       ELSE IF store[n] = Nil THEN 0
       ELSE IF n \in Users THEN (IF store[n].spec.local THEN 1 ELSE 0)
       ELSE IF store[n].spec.type = "local" THEN 0 ELSE 1]
  /\ cache = [p \in Providers |-> Nil]
  /\ req = [h \in Handlers |-> Nil]
  /\ codes = {}
  /\ up = TRUE

\* The bounds of a behaviour: how many requests arrive and how many other
\* inputs (sign-ins, logouts, expiries, restarts) there are.
Input(kind) == left[kind] > 0 /\ left' = [left EXCEPT ![kind] = @ - 1]

\* A new process: the OIDC cache and the requests in flight are gone, the
\* cookies are not (they are sealed, the process keeps no session).
NewServer ==
  /\ Input("others")
  /\ store' = ensureBootstrapAdmin(store, rv + 1)
  /\ rv' = rv + 1
  /\ secret' = [secret EXCEPT ![Bootstrap] = @ + 1]
  /\ up' = ~BootstrapRefused(store)
  /\ cache' = [p \in Providers |-> Nil]
  /\ req' = [h \in Handlers |-> Nil]
  /\ UNCHANGED <<jar, codes, proved>>

(* ------------------------------- signing in ----------------------------- *)

Identity(p, s, gs) == [provider |-> p, type |-> store[p].spec.type, subject |-> s, groups |-> gs]

\* The user an identity is linked to.  Only a local session's subject is a
\* user name; the others need an explicit external identity.
MatchesUser(s, u) == \/ s.type = "local" /\ u = s.subject
                     \/ <<s.provider, s.subject>> \in store[u].spec.ids

matchUser(s) ==
  IF \E u \in Of(Users) : MatchesUser(s, u)
  THEN CHOOSE u \in Of(Users) : MatchesUser(s, u) ELSE Nil

SignedIn(b, s) == [jar EXCEPT ![b] = [session |-> s, flow |-> @.flow, csrf |-> TRUE]]

\* CompletePasswordLogin with a local user's own password.
localPasswordLogin(b, p, u) ==
  /\ Input("others") /\ up
  /\ Enabled(p) /\ store[p].spec.type = "local"
  /\ Exists(u) /\ store[u].spec.local /\ secret[u] > 0
  /\ jar' = SignedIn(b, Identity(p, u, {}))
  /\ proved' = proved \cup {<<b, p, u>>}
  /\ UNCHANGED <<store, rv, secret, cache, req, codes, up>>

\* The directory is searched with the account of the bind Secret, for the one
\* entry of the user and, once the user's own password was accepted, for the
\* groups it is in.
authenticateLDAP(p) == store[p].spec.type = "ldap" /\ secret[p] > 0

\* ... against the directory; the groups it answers stay in the session.
ldapPasswordLogin(b, p, s, gs) ==
  /\ Input("others") /\ up
  /\ Enabled(p) /\ authenticateLDAP(p)
  /\ matchUser(Identity(p, s, gs)) # Nil
  /\ jar' = SignedIn(b, Identity(p, s, gs))
  /\ proved' = proved \cup {<<b, p, s>>}
  /\ UNCHANGED <<store, rv, secret, cache, req, codes, up>>

\* The runtime oidcProvider returns for the provider object its caller read.
Cached(p, version) == cache[p] # Nil /\ cache[p].rv = version
RuntimeFor(p) == IF Cached(p, store[p].rv) THEN cache[p]
                 ELSE [rv |-> store[p].rv, secret |-> secret[p]]

\* A new flow cookie replaces an older one of the same browser.
StartLogin(b, p) ==
  /\ Input("others") /\ up
  /\ Enabled(p) /\ store[p].spec.type = "oidc" /\ secret[p] > 0
  /\ jar' = [jar EXCEPT ![b].flow = [provider |-> p, state |-> left.others]]
  /\ cache' = [cache EXCEPT ![p] = RuntimeFor(p)]
  /\ codes' = codes \cup {[state |-> left.others, browser |-> b, provider |-> p, subject |-> Nil]}
  /\ UNCHANGED <<store, rv, secret, req, proved, up>>

\* External: somebody signs in at the identity provider, in the browser that
\* was sent there, and the provider answers with a code for that state.
IssueCode(c, s) ==
  /\ c \in codes /\ c.subject = Nil
  /\ codes' = (codes \ {c}) \cup {[c EXCEPT !.subject = s]}
  /\ proved' = proved \cup {<<c.browser, c.provider, s>>}
  /\ UNCHANGED <<store, rv, secret, cache, jar, req, up, left>>

\* A plausible slip: any flow cookie of the provider will do.
FlowOfProvider(flow, c) == flow # Nil /\ c.provider = flow.provider

\* The state of the callback's URL must be the one in the browser's cookie.
FlowMatches(flow, c) == flow # Nil /\ c.state = flow.state

\* A callback URL may be opened in any browser; a code is redeemed once.
HandleCallback(b, c, gs) ==
  LET p == jar[b].flow.provider
      s == Identity(p, c.subject, gs)
  IN /\ up /\ c \in codes /\ c.subject # Nil
     /\ FlowMatches(jar[b].flow, c)
     /\ Enabled(p) /\ store[p].spec.type = "oidc" /\ secret[p] > 0
     /\ codes' = codes \ {c}
     /\ cache' = [cache EXCEPT ![p] = RuntimeFor(p)]
     /\ jar' = IF matchUser(s) = Nil THEN jar
               ELSE [jar EXCEPT ![b] = [session |-> s, flow |-> Nil, csrf |-> TRUE]]
     /\ UNCHANGED <<store, rv, secret, req, proved, up, left>>

Logout(b) ==
  /\ Input("others") /\ up
  /\ jar' = [jar EXCEPT ![b] = EmptyJar]
  /\ UNCHANGED <<store, rv, secret, cache, req, codes, proved, up>>

\* The CSRF cookie is not renewed with the session and expires before it.
CSRFExpires(b) ==
  /\ Input("others") /\ jar[b].csrf
  /\ jar' = [jar EXCEPT ![b].csrf = FALSE]
  /\ UNCHANGED <<store, rv, secret, cache, req, codes, proved, up>>

(* ------------------------ authenticating a request ---------------------- *)

Start(b, s, op) ==
  [browser |-> b, session |-> s, op |-> op,
   pc |-> IF s.type = "oidc" THEN "provider" ELSE "users",
   prv |-> 0, runtime |-> Nil, user |-> Nil, groups |-> {}, grants |-> {},
   roles |-> {}, tenantRoles |-> NoRoles, version |-> 0, carried |-> 0, quiet |-> TRUE]

Answered(q, cookie) ==
  [browser |-> q.browser, pc |-> "respond", cookie |-> cookie, csrf |-> q.op.verb = "session"]

\* A failure to authenticate also clears the browser's session.
Rejected(q) == Answered(q, Nil)
Done(q) == Answered(q, q.session)

InFlight(h, pc) == up /\ req[h] # Nil /\ req[h].pc = pc
Serving(h) == req[h] # Nil /\ req[h].pc # "respond"
Become(h, q) == req' = [req EXCEPT ![h] = q]

\* withCSRF and the start of Authenticate, with the session cookie ...
Arrive(h, b, op) ==
  /\ Input("requests") /\ up /\ req[h] = Nil
  /\ jar[b].session # Nil
  /\ op.verb \in {"read", "session"} \/ jar[b].csrf
  /\ Become(h, Start(b, jar[b].session, op))
  /\ UNCHANGED <<store, rv, secret, cache, jar, codes, proved, up>>

\* ... or with a bearer token of an enabled OIDC provider (no CSRF token).
authenticateBearerToken(h, token, op) ==
  /\ Input("requests") /\ up /\ req[h] = Nil
  /\ Enabled(token.provider) /\ store[token.provider].spec.type = "oidc"
  /\ Become(h, Start(Nil, token, op))
  /\ UNCHANGED <<store, rv, secret, cache, jar, codes, proved, up>>

Unchanged == UNCHANGED <<store, rv, secret, jar, codes, proved, up, left>>

getProvider(h) ==
  LET q == req[h]  p == q.session.provider
  IN /\ InFlight(h, "provider")
     /\ Become(h, IF Enabled(p) THEN [q EXCEPT !.prv = store[p].rv, !.pc = "runtime"]
                  ELSE Rejected(q))
     /\ UNCHANGED cache /\ Unchanged

\* A plausible slip: the entry is labelled with the version at the time of the store.
RelabelledRuntime(q) ==
  IF Exists(q.session.provider) THEN [q.runtime EXCEPT !.rv = store[q.session.provider].rv]
  ELSE q.runtime

\* The runtime goes into the cache under the version it was built from.
KeptRuntime(q) == q.runtime

\* A hit needs the version that was read; a miss reads the client Secret,
\* discovers the issuer and only then stores the runtime.
oidcProvider(h) ==
  LET q == req[h]  p == q.session.provider
  IN \/ /\ InFlight(h, "runtime")
        /\ Become(h, IF Cached(p, q.prv) THEN [q EXCEPT !.runtime = cache[p], !.pc = "verify"]
                     ELSE IF secret[p] = 0 THEN Rejected(q)
                     ELSE [q EXCEPT !.runtime = [rv |-> q.prv, secret |-> secret[p]], !.pc = "keep"])
        /\ UNCHANGED cache /\ Unchanged
     \/ /\ InFlight(h, "keep")
        /\ cache' = [cache EXCEPT ![p] = KeptRuntime(q)]
        /\ Become(h, [q EXCEPT !.pc = "verify"])
        /\ Unchanged

\* The ID token holds, is refreshed (with the groups of the new token), or the
\* provider refuses.
sessionAndActorFromIDToken(h) ==
  LET q == [req[h] EXCEPT !.prv = 0, !.runtime = Nil]
  IN /\ InFlight(h, "verify")
     /\ \/ Become(h, [q EXCEPT !.pc = "users"])
        \/ \E gs \in SUBSET ExternalGroups :
             Become(h, [q EXCEPT !.session.groups = gs, !.pc = "users"])
        \/ Become(h, Rejected(q))
     /\ UNCHANGED cache /\ Unchanged

\* resolveActor lists users, groups, bindings (with the tenants' owners) and
\* role ConfigMaps one after the other.
ResolveUsers(h) ==
  LET q == req[h]
  IN /\ InFlight(h, "users")
     /\ Become(h, IF matchUser(q.session) = Nil /\ q.session.type # "local" THEN Rejected(q)
                  ELSE [q EXCEPT !.user = matchUser(q.session), !.pc = "groups"])
     /\ UNCHANGED cache /\ Unchanged

ResolveGroups(h) ==
  LET q == req[h]
  IN /\ InFlight(h, "groups")
     /\ Become(h, [q EXCEPT !.pc = "bindings", !.groups =
          {g \in Of(Groups) : \/ q.user \in store[g].spec.members
                              \/ \E e \in q.session.groups :
                                   <<q.session.provider, e>> \in store[g].spec.external}])
     /\ UNCHANGED cache /\ Unchanged

bindingAppliesToActor(b, q) ==
  store[b].spec.subjects \cap ({q.user, q.session.subject} \cup q.groups) # {}

tenantVisibleLegacy(t, q) == Owners[t] \cap {q.user, q.session.subject} # {}

\* A binding's roles, in its tenant or on the platform.
Grants(b) == {<<store[b].spec.tenant, r>> : r \in store[b].spec.roles}

ResolveBindings(h) ==
  LET q == req[h]
      applicable == {b \in Of(RoleBindings) : bindingAppliesToActor(b, q)}
  IN /\ InFlight(h, "bindings")
     /\ Become(h, [q EXCEPT !.pc = "roles", !.grants =
          (UNION {Grants(b) : b \in applicable})
          \cup {<<t, "tenant-admin">> : t \in {t \in Tenants : tenantVisibleLegacy(t, q)}}])
     /\ UNCHANGED cache /\ Unchanged

CustomRoles == [r \in Of(Roles) |-> store[r].spec]

ResolveRoles(h) ==
  LET q == req[h]
      Held(t, scope) == UNION {expand(g[2], scope, CustomRoles) : g \in {g \in q.grants : g[1] = t}}
  IN /\ InFlight(h, "roles")
     /\ Become(h, [q EXCEPT !.pc = "handle", !.grants = {}, !.groups = {}, !.user = Nil,
                            !.roles = Held(Nil, "platform"),
                            !.tenantRoles = [t \in Tenants |-> Held(t, "tenant")]])
     /\ UNCHANGED cache /\ Unchanged

(* -------------------------------- handlers ------------------------------ *)

\* The API calls of a handler that passed its checks: the Secret first, so
\* that an object never refers to one that is missing.
Following(pc, r) ==
  CASE pc = "handle" -> IF r.secret THEN "secret" ELSE "commit"
    [] pc = "secret" -> "commit"
    [] pc = "commit" -> "done"

Proceed(q) == IF Following(q.pc, q.op) = "done" THEN Done(q)
              ELSE [q EXCEPT !.pc = Following(q.pc, q.op)]

\* One administration handler: who may call it, then the body and the object
\* it reads (whose version an Update carries).
Administer(h, verb, names, Valid(_)) ==
  LET q == req[h]  n == q.op.name
  IN /\ InFlight(h, "handle") /\ q.op.verb = verb /\ n \in names
     /\ Become(h, IF /\ requirePlatformRole(q, {"platform-admin"})
                     /\ verb = "create" \/ Exists(n)
                     /\ Valid(q.op)
                  THEN Proceed([q EXCEPT !.version = IF Exists(n) THEN store[n].rv ELSE 0])
                  ELSE Done(q))
     /\ UNCHANGED cache /\ Unchanged

handleCreateAuthProvider(h) ==
  Administer(h, "create", Providers,
    LAMBDA r : authProviderFromRequest(r.spec) /\ applyAuthProviderSecretRequirements(r))
handleUpdateAuthProvider(h) ==
  Administer(h, "update", Providers,
    LAMBDA r : authProviderFromRequest(r.spec) /\ applyAuthProviderSecretRequirements(r))
handleDeleteAuthProvider(h) ==
  Administer(h, "delete", Providers, LAMBDA r : authProviderDeleteDependencies(r.name) = {})

handleCreateUser(h) == Administer(h, "create", Users, validateCreateUserRequest)
handleUpdateUser(h) == Administer(h, "update", Users, validateUpdateUserRequest)
handleDeleteUser(h) ==
  Administer(h, "delete", Users, LAMBDA r : userDeleteDependencies(r.name) = {})

handleCreateGroup(h) == Administer(h, "create", Groups, LAMBDA r : validateGroupRequest(r.spec))
handleUpdateGroup(h) == Administer(h, "update", Groups, LAMBDA r : validateGroupRequest(r.spec))
handleDeleteGroup(h) ==
  Administer(h, "delete", Groups, LAMBDA r : groupDeleteDependencies(r.name) = {})

handleCreateRole(h) == Administer(h, "create", Roles, LAMBDA r : roleFromRequest(r.spec))
handleUpdateRole(h) == Administer(h, "update", Roles, LAMBDA r : roleFromRequest(r.spec))
handleDeleteRole(h) ==
  Administer(h, "delete", Roles, LAMBDA r : roleDeleteDependencies(r.name) = {})

handleCreateRoleBinding(h) ==
  Administer(h, "create", RoleBindings, LAMBDA r : validateRoleBindingRequest(r.spec))
handleUpdateRoleBinding(h) ==
  Administer(h, "update", RoleBindings, LAMBDA r : validateRoleBindingRequest(r.spec))
handleDeleteRoleBinding(h) == Administer(h, "delete", RoleBindings, LAMBDA r : TRUE)

\* The read handlers: a coarse role check, then only what the actor may see.
handleTenants(h) ==
  /\ InFlight(h, "handle") /\ req[h].op.verb \in {"read", "session"}
  /\ Become(h, Done(req[h]))
  /\ UNCHANGED cache /\ Unchanged

\* Create or replace the object's Secret.
upsertSecret(h) ==
  LET q == req[h]  n == q.op.name
  IN /\ InFlight(h, "secret")
     /\ secret' = [secret EXCEPT ![n] = @ + 1]
     /\ Become(h, Proceed([q EXCEPT !.carried = secret[n] + 1]))
     /\ UNCHANGED <<store, rv, cache, jar, codes, proved, up, left>>

\* External: every write of the API server has a new revision.
NextRevision == rv + 1

\* The API server's answer to the last call: an Update of an older version or
\* one that admission refuses fails, one that changes nothing keeps the
\* version, a Delete has no precondition.
Accepts(q) ==
  LET r == q.op  old == store[r.name]
  IN CASE r.verb = "create" -> old = Nil /\ Admitted(r.name, Nil, r.spec)
       [] r.verb = "update" -> /\ old # Nil /\ old.rv = q.version
                               /\ Admitted(r.name, old.spec, r.spec)
       [] r.verb = "delete" -> old # Nil

Write(h) ==
  LET q == req[h]  r == q.op
      same == r.verb = "update" /\ store[r.name] # Nil /\ store[r.name].spec = r.spec
      changes == Accepts(q) /\ ~same
  IN /\ InFlight(h, "commit")
     /\ store' = IF ~changes THEN store
                 ELSE [store EXCEPT ![r.name] =
                         IF r.verb = "delete" THEN Nil
                         ELSE [spec |-> r.spec, rv |-> rv + 1,
                               carried |-> IF r.secret THEN q.carried ELSE 0]]
     /\ rv' = IF changes THEN NextRevision ELSE rv
     /\ req' = [k \in Handlers |->
                 IF k = h THEN (IF Accepts(q) THEN Proceed(q) ELSE Done(q))
                 ELSE IF changes /\ Serving(k) THEN [req[k] EXCEPT !.quiet = FALSE]
                 ELSE req[k]]
     /\ UNCHANGED <<secret, cache, jar, codes, proved, up, left>>

\* The response reaches the browser: withAuthentication renewed or cleared
\* the session cookie in it.
Deliver(h) ==
  LET q == req[h]
  IN /\ req[h] # Nil /\ q.pc = "respond"
     /\ jar' = IF q.browser = Nil THEN jar    \* an API client keeps no cookie
               ELSE [jar EXCEPT ![q.browser].session = q.cookie,
                                ![q.browser].csrf = @ \/ (q.csrf /\ q.cookie # Nil)]
     /\ Become(h, Nil)
     /\ UNCHANGED <<store, rv, secret, cache, codes, proved, up, left>>

Handle(h) ==
  \/ handleCreateAuthProvider(h) \/ handleUpdateAuthProvider(h) \/ handleDeleteAuthProvider(h)
  \/ handleCreateUser(h) \/ handleUpdateUser(h) \/ handleDeleteUser(h)
  \/ handleCreateGroup(h) \/ handleUpdateGroup(h) \/ handleDeleteGroup(h)
  \/ handleCreateRole(h) \/ handleUpdateRole(h) \/ handleDeleteRole(h)
  \/ handleCreateRoleBinding(h) \/ handleUpdateRoleBinding(h) \/ handleDeleteRoleBinding(h)
  \/ handleTenants(h)

Step(h) ==
  \/ getProvider(h) \/ oidcProvider(h) \/ sessionAndActorFromIDToken(h)
  \/ ResolveUsers(h) \/ ResolveGroups(h) \/ ResolveBindings(h) \/ ResolveRoles(h)
  \/ Handle(h) \/ upsertSecret(h) \/ Write(h) \/ Deliver(h)

SignIn(b) ==
  \/ \E p \in Providers, u \in Users : localPasswordLogin(b, p, u)
  \/ \E p \in Providers, s \in Subjects, gs \in SUBSET ExternalGroups : ldapPasswordLogin(b, p, s, gs)
  \/ \E p \in Providers : StartLogin(b, p)
  \/ \E c \in codes, gs \in SUBSET ExternalGroups : HandleCallback(b, c, gs)
  \/ Logout(b) \/ CSRFExpires(b)

Next ==
  \/ \E h \in Handlers : Step(h)
  \/ \E b \in Browsers : SignIn(b)
  \/ \E c \in codes, s \in Subjects : IssueCode(c, s)
  \/ \E h \in Handlers, b \in Browsers, op \in Requests : Arrive(h, b, op)
  \/ \E h \in Handlers, token \in BearerTokens, op \in Requests :
       authenticateBearerToken(h, token, op)
  \/ NewServer

Spec == Init /\ [][Next]_vars

(* ------------------------------- properties ----------------------------- *)

TypeOK ==
  /\ DOMAIN store = Names /\ rv \in Nat /\ secret \in [Holders -> Nat]
  /\ \A n \in Names : store[n] # Nil => store[n].rv <= rv
  /\ \A p \in Providers : cache[p] # Nil => cache[p].rv <= rv /\ cache[p].secret <= secret[p]
  /\ \A b \in Browsers : jar[b].csrf \in BOOLEAN
  /\ \A h \in Handlers : Serving(h) => req[h].quiet \in BOOLEAN
  /\ up \in BOOLEAN

\* The roles somebody holds in one scope, read off the objects as they are now.
HeldGroups(s) ==
  {g \in Of(Groups) : \/ \E u \in store[g].spec.members : Exists(u) /\ u = matchUser(s)
                      \/ \E e \in s.groups : <<s.provider, e>> \in store[g].spec.external}
HeldRoles(s, t) ==
  LET scope == IF t = Nil THEN "platform" ELSE "tenant"
      mine == {b \in Of(RoleBindings) :
                 /\ store[b].spec.scope = scope /\ store[b].spec.tenant = t
                 /\ store[b].spec.subjects \cap ({matchUser(s), s.subject} \cup HeldGroups(s)) # {}}
      named == UNION {store[b].spec.roles : b \in mine}
  IN named \cup UNION {store[r].spec.permissions :
                          r \in {r \in named \cap Of(Roles) : store[r].spec.scope = scope}}
HeldTenantRoles(s, t) ==
  HeldRoles(s, t) \cup IF Owners[t] \cap {matchUser(s), s.subject} # {} THEN {"tenant-admin"} ELSE {}

\* Cookies carry an identity and never authority: when no object changed while
\* a request was being authenticated, the roles it acts with are exactly those
\* that the bindings, groups and role definitions of that moment give its
\* user (resolveActor), however old its session is.
RolesAreCurrent ==
  \A h \in Handlers : InFlight(h, "handle") /\ req[h].quiet =>
    /\ req[h].roles = HeldRoles(req[h].session, Nil)
    /\ \A t \in Tenants : req[h].tenantRoles[t] = HeldTenantRoles(req[h].session, t)

\* The objects that grant access are changed only for somebody whom a
\* platform-scoped binding makes platform-admin (requirePlatformRole): a
\* tenant's role, whatever its name, never reaches them.
AdminNeedsPlatformBinding ==
  \A h \in Handlers : (InFlight(h, "secret") \/ InFlight(h, "commit")) /\ req[h].quiet =>
    "platform-admin" \in HeldRoles(req[h].session, Nil)

\* While every binding names roles of its own scope, nobody but a platform
\* administrator sees a tenant in which no binding and no owner list names
\* them (visibleTenants).
WellScoped ==
  \A b \in Of(RoleBindings) :
    store[b].spec.scope = "tenant" => store[b].spec.roles \cap builtInRoles.platform = {}
TenantReadsStayInTenant ==
  \A h \in Handlers :
    InFlight(h, "handle") /\ req[h].quiet /\ WellScoped
    /\ "platform-admin" \notin HeldRoles(req[h].session, Nil) =>
      \A t \in visibleTenants(req[h]) : HeldTenantRoles(req[h].session, t) # {}

\* An enabled local login or an external provider always finds its Secret
\* (upsertSecret comes before the object), also when a request is refused
\* half way or the process dies in it.
CredentialsExist ==
  /\ \A u \in Of(Users) : store[u].spec.local => secret[u] > 0
  /\ \A p \in Of(Providers) : store[p].spec.type # "local" => secret[p] > 0

\* A cached OIDC runtime of the provider's current version uses a client secret
\* at least as new as the one the update that made this version carried: a
\* rotation that changes the provider is picked up (oidcCache).
RotationPickedUp ==
  \A p \in Of(Providers) :
    cache[p] # Nil /\ cache[p].rv = store[p].rv => cache[p].secret >= store[p].carried

\* A browser's session is of somebody who proved who they are in that very
\* browser, also with two logins started at once, a callback opened elsewhere
\* and responses that arrive late (HandleCallback's state check).
BrowserOwnsSession ==
  \A b \in Browsers : jar[b].session # Nil =>
    <<b, jar[b].session.provider, jar[b].session.subject>> \in proved
=============================================================================
