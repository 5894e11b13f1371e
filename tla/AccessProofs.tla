----------------------------- MODULE AccessProofs -----------------------------
(***************************************************************************)
(* Proofs about Access for any users, objects, browsers, requests in       *)
(* flight and number of inputs. Each handler works on its own request, so  *)
(* the invariant has a part for the objects, one for the browsers and one  *)
(* that every request in flight satisfies.                                 *)
(***************************************************************************)
EXTENDS Access, TLAPS

(* ------------------------------- the invariant ------------------------- *)

Runtime == [rv : Nat, secret : Nat]
Flow == [provider : Providers, state : Nat]
Code == [state : Nat, browser : Browsers, provider : Providers, subject : Subjects \cup {Nil}]
Jar == [session : Sessions \cup {Nil}, flow : Flow \cup {Nil}, csrf : BOOLEAN]
Object == [spec : UNION {SpecOf(n) : n \in Names}, rv : Nat, carried : Nat]

Pcs == {"provider", "runtime", "keep", "verify", "users", "groups", "bindings", "roles",
        "handle", "secret", "commit"}
Served == [browser : Browsers \cup {Nil}, session : Sessions, op : Requests, pc : Pcs,
           prv : Nat, runtime : Runtime \cup {Nil}, user : Users \cup {Nil},
           groups : SUBSET Groups, grants : SUBSET ((Tenants \cup {Nil}) \X RoleNames),
           roles : SUBSET RoleNames, tenantRoles : [Tenants -> SUBSET RoleNames],
           version : Nat, carried : Nat, quiet : BOOLEAN]
Response == [browser : Browsers \cup {Nil}, pc : {"respond"}, cookie : Sessions \cup {Nil},
             csrf : BOOLEAN]

TypeInv ==
  /\ store \in [Names -> Object \cup {Nil}] /\ rv \in Nat
  /\ secret \in [Holders -> Nat]
  /\ cache \in [Providers -> Runtime \cup {Nil}]
  /\ jar \in [Browsers -> Jar]
  /\ codes \subseteq Code
  /\ req \in [Handlers -> Served \cup Response \cup {Nil}]
  /\ left \in [requests : Nat, others : Nat]

(* What admission and the handlers leave of an object: a version that was  *)
(* given out, a spec of its kind that passed, a Secret that is there.      *)
Sound(n, o) ==
  /\ o.spec \in SpecOf(n) /\ o.rv <= rv
  /\ n \in RoleBindings => (o.spec.scope = "platform" <=> o.spec.tenant = Nil)
  /\ n \in Roles => o.spec.permissions \subseteq allowedRolePermissions(o.spec.scope)
  /\ n \in Holders => o.carried <= secret[n]
  /\ n \in Users /\ o.spec.local => secret[n] > 0
  /\ n \in Providers /\ o.spec.type # "local" => secret[n] > 0

StoreInv == \A n \in Of(Names) : Sound(n, store[n])

(* A runtime was built for a version that was given out, with a Secret at  *)
(* least as new as that version's.                                         *)
Fresh(p, runtime) ==
  /\ runtime.rv <= rv
  /\ Exists(p) /\ store[p].rv = runtime.rv => store[p].carried <= runtime.secret

CacheInv == \A p \in Providers : cache[p] # Nil => Fresh(p, cache[p])

(* A code is of somebody who signed in in the browser that was sent.       *)
CodesInv ==
  \A c \in codes : /\ c.state > left.others
                   /\ c.subject # Nil => <<c.browser, c.provider, c.subject>> \in proved

(* A state parameter is used for one flow only.                            *)
FlowsInv ==
  \A b \in Browsers : jar[b].flow # Nil =>
    /\ jar[b].flow.state > left.others
    /\ \A c \in codes : c.state = jar[b].flow.state =>
         c.browser = b /\ c.provider = jar[b].flow.provider

FlowInv == BrowserOwnsSession /\ CodesInv /\ FlowsInv

(* What resolveActor has read so far, if nothing has changed since.        *)
GroupsOf(s) ==
  {g \in Of(Groups) : \/ matchUser(s) \in store[g].spec.members
                      \/ \E e \in s.groups : <<s.provider, e>> \in store[g].spec.external}
Bound(s) ==
  {b \in Of(RoleBindings) :
     store[b].spec.subjects \cap ({matchUser(s), s.subject} \cup GroupsOf(s)) # {}}
Owned(s) ==
  {<<t, "tenant-admin">> : t \in {t \in Tenants : Owners[t] \cap {matchUser(s), s.subject} # {}}}
GrantsOf(s) == (UNION {Grants(b) : b \in Bound(s)}) \cup Owned(s)

Current(q) ==
  /\ q.pc \in {"groups", "bindings"} => q.user = matchUser(q.session)
  /\ q.pc = "bindings" => q.groups = GroupsOf(q.session)
  /\ q.pc = "roles" => q.grants = GrantsOf(q.session)
  /\ q.pc = "handle" => /\ q.roles = HeldRoles(q.session, Nil)
                        /\ \A t \in Tenants : q.tenantRoles[t] = HeldTenantRoles(q.session, t)
  /\ q.pc \in {"secret", "commit"} => "platform-admin" \in HeldRoles(q.session, Nil)

(* The body passed its checks, and the Secret is there or written first.   *)
Checked(q) ==
  LET n == q.op.name
      credential == secret[n] > 0 \/ (q.pc = "secret" /\ q.op.secret)
  IN /\ q.op.verb \in {"create", "update", "delete"} /\ n \in Names
     /\ q.pc = "secret" => q.op.secret
     /\ q.pc = "commit" /\ q.op.secret => n \in Holders /\ q.carried <= secret[n]
     /\ q.op.verb # "delete" =>
          /\ n \in Users /\ q.op.spec.local => credential
          /\ n \in Providers /\ q.op.spec.type # "local" => credential
          /\ n \in Roles => roleFromRequest(q.op.spec)

(* Who may get the cookie of the response.                                 *)
Proved(q, s) == q.browser # Nil => <<q.browser, s.provider, s.subject>> \in proved

RequestInv(q) ==
  /\ q \in Response => (q.cookie # Nil => Proved(q, q.cookie))
  /\ q \in Served =>
       /\ Proved(q, q.session)
       /\ q.prv <= rv /\ (q.runtime # Nil => Fresh(q.session.provider, q.runtime))
       /\ q.pc \in {"secret", "commit"} => Checked(q)
       /\ q.quiet => Current(q)

Inv ==
  /\ TypeInv /\ StoreInv /\ CacheInv /\ FlowInv
  /\ \A h \in Handlers : req[h] # Nil => RequestInv(req[h])

(* ------------------------------- operators ------------------------------ *)

(* Of one name there is one kind.                                          *)
LEMMA Kinds ==
  ASSUME NEW n \in Names
  PROVE  /\ n \in Providers => SpecOf(n) = [type : {"local", "oidc", "ldap"}, enabled : BOOLEAN, default : BOOLEAN]
         /\ n \in Users => SpecOf(n) = [local : BOOLEAN, ids : SUBSET (Providers \X Subjects)]
         /\ n \in Groups => SpecOf(n) = [members : SUBSET Users,
                                         external : SUBSET (Providers \X ExternalGroups)]
         /\ n \in Roles => SpecOf(n) = [scope : {"platform", "tenant"}, permissions : SUBSET RoleNames]
         /\ n \in RoleBindings =>
              SpecOf(n) = [scope : {"platform", "tenant"}, tenant : Tenants \cup {Nil},
                           subjects : SUBSET (Users \cup Groups \cup Subjects), roles : SUBSET RoleNames]
<1>1. n \in Providers => n \notin Users \cup Groups \cup Roles \cup RoleBindings
  BY NamesAssumption
<1>2. n \in Users => n \notin Providers \cup Groups \cup Roles \cup RoleBindings
  BY NamesAssumption
<1>3. n \in Groups => n \notin Providers \cup Users \cup Roles \cup RoleBindings
  BY NamesAssumption
<1>4. n \in Roles => n \notin Providers \cup Users \cup Groups \cup RoleBindings
  BY NamesAssumption
<1>5. n \in RoleBindings => n \notin Providers \cup Users \cup Groups \cup Roles
  BY NamesAssumption
<1> QED BY <1>1, <1>2, <1>3, <1>4, <1>5 DEF SpecOf

(* What the specs of each kind hold.                                       *)
LEMMA Fields ==
  ASSUME NEW n \in Names, NEW x \in SpecOf(n)
  PROVE  /\ n \in Providers => x.type \in {"local", "oidc", "ldap"}
         /\ n \in Users => x.local \in BOOLEAN
         /\ n \in Groups => x.members \subseteq Users
         /\ n \in Roles => x.scope \in {"platform", "tenant"} /\ x.permissions \subseteq RoleNames
         /\ n \in RoleBindings => /\ x.scope \in {"platform", "tenant"}
                                  /\ x.tenant \in Tenants \cup {Nil}
                                  /\ x.roles \subseteq RoleNames
<1>1. CASE n \in Providers
  <2>1. x \in [type : {"local", "oidc", "ldap"}, enabled : BOOLEAN, default : BOOLEAN]
    BY <1>1, Kinds
  <2> QED BY <1>1, <2>1, NamesAssumption
<1>2. CASE n \in Users
  <2>1. x \in [local : BOOLEAN, ids : SUBSET (Providers \X Subjects)]
    BY <1>2, Kinds
  <2> QED BY <1>2, <2>1, NamesAssumption
<1>3. CASE n \in Groups
  <2>1. x \in [members : SUBSET Users, external : SUBSET (Providers \X ExternalGroups)]
    BY <1>3, Kinds
  <2> QED BY <1>3, <2>1, NamesAssumption
<1>4. CASE n \in Roles
  <2>1. x \in [scope : {"platform", "tenant"}, permissions : SUBSET RoleNames]
    BY <1>4, Kinds
  <2> QED BY <1>4, <2>1, NamesAssumption
<1>5. CASE n \in RoleBindings
  <2>1. x \in [scope : {"platform", "tenant"}, tenant : Tenants \cup {Nil},
               subjects : SUBSET (Users \cup Groups \cup Subjects), roles : SUBSET RoleNames]
    BY <1>5, Kinds
  <2> QED BY <1>5, <2>1, NamesAssumption
<1> QED BY <1>1, <1>2, <1>3, <1>4, <1>5 DEF Names

(* Who somebody is and may do is a matter of the objects alone.            *)
LEMMA SameStore ==
  ASSUME store' = store, NEW q
  PROVE  Current(q)' <=> Current(q)
BY DEF Current, HeldTenantRoles, HeldRoles, HeldGroups, Of, Exists, matchUser, MatchesUser,
       GrantsOf, Grants, Owned, Bound, GroupsOf

(* A request in flight is one that is served or a response.                *)
LEMMA InService ==
  ASSUME TypeInv, NEW h \in Handlers, req[h] # Nil
  PROVE  /\ req[h].pc # "respond" => req[h] \in Served
         /\ req[h].pc = "respond" => req[h] \in Response
         /\ req[h] \in Served => req[h].pc # "respond"
         /\ req[h] \in Response => req[h].pc = "respond"
<1>1. req[h] \in Served \/ req[h] \in Response
  BY DEF TypeInv
<1>2. req[h] \in Served => req[h].pc # "respond"
  BY DEF Served, Pcs
<1>3. req[h] \in Response => req[h].pc = "respond"
  BY DEF Response
<1> QED BY <1>1, <1>2, <1>3

(* A user that is matched exists.                                          *)
LEMMA MatchedUser ==
  ASSUME NEW s
  PROVE  matchUser(s) \in Of(Users) \cup {Nil}
BY DEF matchUser

(* A grant comes from a binding that applies, or from a tenant's owners.   *)
LEMMA GrantSources ==
  ASSUME NEW s, NEW g
  PROVE  g \in GrantsOf(s) <=>
          \/ \E b \in Bound(s) : \E r \in store[b].spec.roles : g = <<store[b].spec.tenant, r>>
          \/ \E t \in Tenants : /\ Owners[t] \cap {matchUser(s), s.subject} # {}
                                /\ g = <<t, "tenant-admin">>
<1>1. \A b : g \in Grants(b) <=> \E r \in store[b].spec.roles : g = <<store[b].spec.tenant, r>>
  BY DEF Grants
<1>2. g \in Owned(s) <=> \E t \in Tenants : /\ Owners[t] \cap {matchUser(s), s.subject} # {}
                                         /\ g = <<t, "tenant-admin">>
  BY DEF Owned
<1>3. g \in GrantsOf(s) <=> g \in UNION {Grants(b) : b \in Bound(s)} \/ g \in Owned(s)
  BY DEF GrantsOf
<1>4. g \in UNION {Grants(b) : b \in Bound(s)} <=> \E b \in Bound(s) : g \in Grants(b)
  BY Zenon
<1>5. (\E b \in Bound(s) : g \in Grants(b))
      <=> \E b \in Bound(s) : \E r \in store[b].spec.roles : g = <<store[b].spec.tenant, r>>
  BY <1>1, Zenon
<1> QED BY <1>2, <1>3, <1>4, <1>5, Zenon

(* What is granted has the names of tenants and roles.                     *)
LEMMA ActorTypes ==
  ASSUME TypeInv, StoreInv, NEW s \in Sessions
  PROVE  /\ matchUser(s) \in Users \cup {Nil}
         /\ GrantsOf(s) \subseteq (Tenants \cup {Nil}) \X RoleNames
<1>1. matchUser(s) \in Users \cup {Nil}
  BY MatchedUser DEF Of
<1>2. ASSUME NEW b \in Bound(s)
      PROVE  store[b].spec.tenant \in Tenants \cup {Nil} /\ store[b].spec.roles \subseteq RoleNames
  <2>1. b \in RoleBindings /\ b \in Names /\ b \in Of(Names)
    BY <1>2 DEF Bound, Of, Names
  <2>2. store[b].spec \in SpecOf(b)
    BY <2>1 DEF StoreInv, Sound
  <2> QED BY <2>1, <2>2, Fields
<1>3. "tenant-admin" \in RoleNames
  BY DEF RoleNames, builtInRoles
<1>4. GrantsOf(s) \subseteq (Tenants \cup {Nil}) \X RoleNames
  <2>1. ASSUME NEW g \in GrantsOf(s)
        PROVE  \/ \E b \in Bound(s) : \E r \in store[b].spec.roles : g = <<store[b].spec.tenant, r>>
               \/ \E t \in Tenants : g = <<t, "tenant-admin">>
    BY <2>1, GrantSources
  <2> QED BY <1>2, <1>3, <2>1
<1> QED BY <1>1, <1>4

(* A custom role's permissions are built-in roles.                         *)
LEMMA ExpandTypes ==
  ASSUME TypeInv, StoreInv, NEW r \in RoleNames, NEW scope
  PROVE  expand(r, scope, CustomRoles) \subseteq RoleNames
<1>1. ASSUME r \in DOMAIN CustomRoles PROVE CustomRoles[r].permissions \subseteq RoleNames
  <2>1. r \in Roles /\ r \in Names /\ r \in Of(Names) /\ CustomRoles[r] = store[r].spec
    BY <1>1 DEF CustomRoles, Of, Names
  <2>2. store[r].spec \in SpecOf(r)
    BY <2>1 DEF StoreInv, Sound
  <2> QED BY <2>1, <2>2, Fields
<1> QED BY <1>1 DEF expand

(* The groups that count are the same whether the user or the group is     *)
(* looked up first.                                                        *)
LEMMA SameGroups ==
  ASSUME TypeInv, StoreInv, NEW s \in Sessions
  PROVE  HeldGroups(s) = GroupsOf(s)
<1>1. ASSUME NEW g \in Of(Groups)
      PROVE  matchUser(s) \in store[g].spec.members
             <=> \E u \in store[g].spec.members : Exists(u) /\ u = matchUser(s)
  <2>1. g \in Groups /\ g \in Names /\ g \in Of(Names)
    BY <1>1 DEF Of, Names
  <2>2. store[g].spec.members \subseteq Users
    <3>1. store[g].spec \in SpecOf(g)
      BY <2>1 DEF StoreInv, Sound
    <3> QED BY <2>1, <3>1, Fields
  <2>3. matchUser(s) \in store[g].spec.members => Exists(matchUser(s))
    <3>1. Nil \notin Users
      BY NamesAssumption DEF Names
    <3> QED BY <2>2, <3>1, MatchedUser DEF Of
  <2> QED BY <2>3
<1> QED BY <1>1 DEF HeldGroups, GroupsOf

(* The roles of the granted names are the roles that are held.             *)
LEMMA SameRoles ==
  ASSUME TypeInv, StoreInv, NEW s \in Sessions, NEW t \in Tenants \cup {Nil},
         NEW scope, scope = IF t = Nil THEN "platform" ELSE "tenant"
  PROVE  UNION {expand(g[2], scope, CustomRoles) : g \in {g \in GrantsOf(s) : g[1] = t}}
         = IF t = Nil THEN HeldRoles(s, t) ELSE HeldTenantRoles(s, t)
<1> DEFINE Mine == {b \in Of(RoleBindings) :
                 /\ store[b].spec.scope = scope /\ store[b].spec.tenant = t
                 /\ store[b].spec.subjects \cap ({matchUser(s), s.subject} \cup HeldGroups(s)) # {}}
           Named == UNION {store[b].spec.roles : b \in Mine}
           Held == {g \in GrantsOf(s) : g[1] = t}
           owner == t # Nil /\ Owners[t] \cap {matchUser(s), s.subject} # {}
<1>1. \A b \in Of(RoleBindings) : store[b].spec.tenant = t => store[b].spec.scope = scope
  <2> SUFFICES ASSUME NEW b \in Of(RoleBindings), store[b].spec.tenant = t
               PROVE  store[b].spec.scope = scope
    OBVIOUS
  <2>1. b \in RoleBindings /\ b \in Names /\ b \in Of(Names)
    BY DEF Of, Names
  <2>2. store[b].spec \in SpecOf(b) /\ (store[b].spec.scope = "platform" <=> store[b].spec.tenant = Nil)
    BY <2>1 DEF StoreInv, Sound
  <2>3. store[b].spec.scope \in {"platform", "tenant"}
    BY <2>1, <2>2, Fields
  <2> QED BY <2>2, <2>3
<1>2. \A b : b \in Mine <=> b \in Bound(s) /\ store[b].spec.tenant = t
  BY <1>1, SameGroups DEF Bound
<1>3. \A g : g \in Held <=> \/ \E r \in Named : g = <<t, r>>
                            \/ owner /\ g = <<t, "tenant-admin">>
  <2>1. \A g : g \in GrantsOf(s) <=>
          \/ \E b \in Bound(s) : \E r \in store[b].spec.roles : g = <<store[b].spec.tenant, r>>
          \/ \E u \in Tenants : /\ Owners[u] \cap {matchUser(s), s.subject} # {}
                                /\ g = <<u, "tenant-admin">>
    BY GrantSources
  <2>2. \A r : r \in Named <=> \E b \in Bound(s) : store[b].spec.tenant = t /\ r \in store[b].spec.roles
    BY <1>2
  <2>3. Nil \notin Tenants
    BY NamesAssumption
  <2> HIDE DEF Named
  <2>4. ASSUME NEW g, g \in Held
        PROVE  (\E r \in Named : g = <<t, r>>) \/ (owner /\ g = <<t, "tenant-admin">>)
    BY <2>1, <2>2, <2>3, <2>4
  <2>5. ASSUME NEW g, (\E r \in Named : g = <<t, r>>) \/ (owner /\ g = <<t, "tenant-admin">>)
        PROVE  g \in Held
    BY <2>1, <2>2, <2>5
  <2> QED BY <2>4, <2>5
<1>4. \A x : x \in UNION {expand(g[2], scope, CustomRoles) : g \in Held}
         <=> \/ \E r \in Named : x \in expand(r, scope, CustomRoles)
             \/ owner /\ x \in expand("tenant-admin", scope, CustomRoles)
  <2> HIDE DEF Held, Named, owner
  <2>1. ASSUME NEW g \in Held, NEW x, x \in expand(g[2], scope, CustomRoles)
        PROVE  \/ \E r \in Named : x \in expand(r, scope, CustomRoles)
               \/ owner /\ x \in expand("tenant-admin", scope, CustomRoles)
    <3>1. (\E r \in Named : g = <<t, r>>) \/ (owner /\ g = <<t, "tenant-admin">>)
      BY <1>3
    <3>2. CASE \E r \in Named : g = <<t, r>>
      <4>1. PICK r \in Named : g = <<t, r>>
        BY <3>2
      <4>2. g[2] = r
        BY <4>1
      <4> QED BY <2>1, <4>2
    <3>3. CASE owner /\ g = <<t, "tenant-admin">>
      <4>1. g[2] = "tenant-admin"
        BY <3>3
      <4> QED BY <2>1, <3>3, <4>1
    <3> QED BY <3>1, <3>2, <3>3
  <2>2. ASSUME NEW x, NEW r \in Named, x \in expand(r, scope, CustomRoles)
        PROVE  \E g \in Held : x \in expand(g[2], scope, CustomRoles)
    <3>1. <<t, r>> \in Held /\ <<t, r>>[2] = r
      BY <1>3
    <3> QED BY <2>2, <3>1
  <2>3. ASSUME NEW x, owner, x \in expand("tenant-admin", scope, CustomRoles)
        PROVE  \E g \in Held : x \in expand(g[2], scope, CustomRoles)
    <3>1. <<t, "tenant-admin">> \in Held /\ <<t, "tenant-admin">>[2] = "tenant-admin"
      BY <1>3, <2>3
    <3> QED BY <2>3, <3>1
  <2> QED BY <2>1, <2>2, <2>3
<1>5. expand("tenant-admin", scope, CustomRoles) = {"tenant-admin"}
  <2>1. "tenant-admin" \notin DOMAIN CustomRoles
    BY NamesAssumption DEF CustomRoles, Of, builtInRoles
  <2> QED BY <2>1 DEF expand
<1>6. \A x : (\E r \in Named : x \in expand(r, scope, CustomRoles)) <=> x \in HeldRoles(s, t)
  <2>1. \A r : r \in DOMAIN CustomRoles <=> r \in Of(Roles)
    BY DEF CustomRoles
  <2>2. \A r \in Of(Roles) : CustomRoles[r] = store[r].spec
    BY DEF CustomRoles
  <2>3. HeldRoles(s, t) = Named \cup UNION {store[r].spec.permissions :
                          r \in {r \in Named \cap Of(Roles) : store[r].spec.scope = scope}}
    BY DEF HeldRoles
  <2> HIDE DEF Named
  <2> QED BY <2>1, <2>2, <2>3 DEF expand
<1>7. t # Nil => HeldTenantRoles(s, t) = HeldRoles(s, t) \cup IF owner THEN {"tenant-admin"} ELSE {}
  BY DEF HeldTenantRoles
<1> HIDE DEF Held, Named, Mine
<1>8. CASE t = Nil
  BY <1>4, <1>6, <1>8 DEF Held
<1>9. CASE t # Nil
  <2>1. \A x : x \in UNION {expand(g[2], scope, CustomRoles) : g \in Held}
               <=> x \in HeldTenantRoles(s, t)
    BY <1>4, <1>5, <1>6, <1>7, <1>9
  <2> QED BY <1>9, <2>1 DEF Held
<1> QED BY <1>8, <1>9

(* ----------------------- what a step does not touch --------------------- *)

(* A request keeps its invariant while the objects stay as they are and    *)
(* Secrets and proofs of identity only accumulate.                         *)
LEMMA RequestKept ==
  ASSUME NEW q, RequestInv(q), store' = store, rv' = rv,
         secret \in [Holders -> Nat], secret' \in [Holders -> Nat],
         \A n \in Holders : secret[n] <= secret'[n],
         proved \subseteq proved'
  PROVE  RequestInv(q)'
<1>1. q \in Response => (q.cookie # Nil => Proved(q, q.cookie)')
  BY DEF RequestInv, Proved
<1>2. ASSUME q \in Served
      PROVE  /\ Proved(q, q.session)'
             /\ q.prv <= rv' /\ (q.runtime # Nil => Fresh(q.session.provider, q.runtime)')
             /\ q.pc \in {"secret", "commit"} => Checked(q)'
             /\ q.quiet => Current(q)'
  <2>1. Proved(q, q.session)'
    BY <1>2 DEF RequestInv, Proved
  <2>2. q.prv <= rv' /\ (q.runtime # Nil => Fresh(q.session.provider, q.runtime)')
    BY <1>2 DEF RequestInv, Fresh, Exists
  <2>3. ASSUME q.pc \in {"secret", "commit"} PROVE Checked(q)'
    <3>1. Checked(q) /\ q.carried \in Nat
      BY <1>2, <2>3 DEF RequestInv, Served
    <3>2. q.op.name \in Holders => secret[q.op.name] <= secret'[q.op.name]
      OBVIOUS
    <3>3. q.op.name \in Users \/ q.op.name \in Providers => q.op.name \in Holders
      BY DEF Holders
    <3> QED BY <3>1, <3>2, <3>3 DEF Checked, roleFromRequest
  <2>4. q.quiet => Current(q)'
    BY <1>2, SameStore DEF RequestInv
  <2> QED BY <1>2, <2>1, <2>2, <2>3, <2>4 DEF RequestInv
<1> QED BY <1>1, <1>2 DEF RequestInv, Served, Response

(* Every request does.                                                     *)
LEMMA RequestsKept ==
  ASSUME Inv, store' = store, rv' = rv, secret' \in [Holders -> Nat],
         \A n \in Holders : secret[n] <= secret'[n],
         proved \subseteq proved', NEW k \in Handlers, req'[k] = req[k], req[k] # Nil
  PROVE  RequestInv(req[k])'
<1>1. PICK q : q = req[k]
  OBVIOUS
<1>2. RequestInv(q) /\ secret \in [Holders -> Nat]
  BY <1>1 DEF Inv, TypeInv
<1>3. RequestInv(q)'
  BY <1>2, RequestKept
<1>4. q = req'[k]
  BY <1>1
<1> QED BY <1>3, <1>4 DEF RequestInv, Proved, Fresh, Checked, Current

(* A step of one request that leaves the objects and the browsers alone.   *)
LEMMA OwnRequest ==
  ASSUME Inv, NEW h \in Handlers, NEW q, Become(h, q), Unchanged,
         cache' \in [Providers -> Runtime \cup {Nil}], CacheInv',
         q \in Served \cup Response, RequestInv(q)
  PROVE  Inv'
<1>1. TypeInv'
  BY DEF Inv, TypeInv, Become, Unchanged
<1>2. StoreInv'
  BY DEF Inv, StoreInv, Sound, Of, Exists, Unchanged, roleFromRequest
<1>3. FlowInv'
  BY DEF Inv, FlowInv, CodesInv, FlowsInv, BrowserOwnsSession, Unchanged
<1>4. ASSUME NEW k \in Handlers, req'[k] # Nil PROVE RequestInv(req[k])'
  <2>1. /\ store' = store /\ rv' = rv /\ secret' \in [Holders -> Nat] /\ secret \in [Holders -> Nat]
        /\ \A n \in Holders : secret[n] <= secret'[n]
        /\ proved \subseteq proved'
    BY DEF Inv, TypeInv, Unchanged
  <2>2. CASE k # h
    <3>1. req'[k] = req[k]
      BY <2>2 DEF Inv, TypeInv, Become
    <3> QED BY <1>4, <2>1, <3>1, RequestsKept
  <2>3. CASE k = h
    <3>1. req'[k] = q
      BY <2>3 DEF Inv, TypeInv, Become
    <3>2. RequestInv(q)'
      BY <2>1, RequestKept
    <3> QED BY <3>1, <3>2 DEF RequestInv, Proved, Fresh, Checked, Current
  <2> QED BY <2>2, <2>3
<1> QED BY <1>1, <1>2, <1>3, <1>4 DEF Inv

(* A handler that answers keeps the session in the response, or clears it. *)
LEMMA Answers ==
  ASSUME NEW q \in Served, RequestInv(q)
  PROVE  /\ Done(q) \in Response /\ RequestInv(Done(q))
         /\ Rejected(q) \in Response /\ RequestInv(Rejected(q))
<1>1. Done(q) \in Response /\ Rejected(q) \in Response
  BY DEF Done, Rejected, Answered, Served, Response
<1>2. Done(q) \notin Served /\ Rejected(q) \notin Served
  BY DEF Done, Rejected, Answered, Served, Pcs
<1>3. Done(q).cookie # Nil => Proved(Done(q), Done(q).cookie)
  BY DEF RequestInv, Proved, Done, Answered
<1>4. Rejected(q).cookie = Nil
  BY DEF Rejected, Answered
<1> QED BY <1>1, <1>2, <1>3, <1>4 DEF RequestInv

(* --------------------------- authenticating ----------------------------- *)

(* The session's provider is read; its version was given out.              *)
LEMMA GetProviderStep ==
  ASSUME Inv, NEW h \in Handlers, getProvider(h)
  PROVE  Inv'
<1>1. PICK q : q = req[h]
  OBVIOUS
<1>2. q \in Served /\ RequestInv(q) /\ q.pc = "provider"
  BY <1>1, InService DEF getProvider, InFlight, Inv
<1>3. CacheInv' /\ cache' \in [Providers -> Runtime \cup {Nil}]
  BY DEF getProvider, Unchanged, Inv, TypeInv, CacheInv, Fresh, Exists
<1>4. Unchanged
  BY DEF getProvider
<1>5. CASE ~Enabled(q.session.provider)
  <2>1. Become(h, Rejected(q))
    BY <1>1, <1>5 DEF getProvider, Become
  <2> QED BY <1>2, <1>3, <1>4, <2>1, Answers, OwnRequest
<1>6. CASE Enabled(q.session.provider)
  <2> DEFINE p == q.session.provider
             next == [q EXCEPT !.prv = store[p].rv, !.pc = "runtime"]
  <2>1. Become(h, next)
    BY <1>1, <1>6 DEF getProvider, Become
  <2>2. store[p].rv \in Nat /\ store[p].rv <= rv
    <3>1. p \in Names /\ store[p] # Nil
      BY <1>2, <1>6 DEF Served, Sessions, Names, Enabled, Exists
    <3> QED BY <3>1 DEF Inv, TypeInv, Object, StoreInv, Sound, Of, Exists
  <2>3. next \in Served
    BY <1>2, <2>2 DEF Served, Pcs
  <2>4. /\ next.browser = q.browser /\ next.session = q.session /\ next.prv = store[p].rv
        /\ next.runtime = q.runtime /\ next.pc = "runtime"
    BY <1>2 DEF Served
  <2>5. RequestInv(next)
    <3> HIDE DEF next
    <3> QED BY <1>2, <2>2, <2>3, <2>4 DEF RequestInv, Proved, Current, Served, Response
  <2>6. PICK x : x = next
    OBVIOUS
  <2> QED BY <1>3, <1>4, <2>1, <2>3, <2>5, <2>6, OwnRequest
<1> QED BY <1>5, <1>6

(* A runtime that is built now, or found under the provider's version, has *)
(* a Secret at least as new as the one that version carried.               *)
LEMMA BuiltIsFresh ==
  ASSUME TypeInv, StoreInv, NEW p \in Providers, NEW v \in Nat, v <= rv
  PROVE  LET built == [rv |-> v, secret |-> secret[p]]
         IN built \in Runtime /\ Fresh(p, built)
<1>1. p \in Names /\ p \in Holders /\ secret[p] \in Nat
  BY DEF Names, Holders, TypeInv
<1>2. Exists(p) => store[p].carried <= secret[p]
  BY <1>1 DEF StoreInv, Sound, Of
<1> QED BY <1>1, <1>2 DEF Runtime, Fresh

(* The OIDC runtime is taken from the cache, built, or kept in the cache.  *)
LEMMA OidcProviderStep ==
  ASSUME Inv, NEW h \in Handlers, oidcProvider(h)
  PROVE  Inv'
<1>1. PICK q : q = req[h]
  OBVIOUS
<1>2. q \in Served /\ RequestInv(q) /\ q.pc \in {"runtime", "keep"}
  BY <1>1, InService DEF oidcProvider, InFlight, Inv
<1> DEFINE p == q.session.provider
<1>3. p \in Providers /\ q.prv \in Nat /\ q.prv <= rv
  BY <1>2 DEF Served, Sessions, RequestInv
<1>4. Unchanged
  BY DEF oidcProvider
<1>5. CASE q.pc = "runtime"
  <2>1. UNCHANGED cache
    BY <1>1, <1>5 DEF oidcProvider, InFlight
  <2>2. CacheInv' /\ cache' \in [Providers -> Runtime \cup {Nil}]
    BY <1>4, <2>1 DEF Unchanged, Inv, TypeInv, CacheInv, Fresh, Exists
  <2>3. ASSUME NEW r \in Runtime, Fresh(p, r), NEW pc \in {"verify", "keep"},
               Become(h, [q EXCEPT !.runtime = r, !.pc = pc])
        PROVE  Inv'
    <3> DEFINE next == [q EXCEPT !.runtime = r, !.pc = pc]
    <3>1. next \in Served
      BY <1>2 DEF Served, Pcs
    <3>2. /\ next.browser = q.browser /\ next.session = q.session /\ next.prv = q.prv
          /\ next.runtime = r /\ next.pc = pc
      BY <1>2 DEF Served
    <3>3. RequestInv(next)
      <4> HIDE DEF next
      <4> QED BY <1>2, <2>3, <3>1, <3>2 DEF RequestInv, Proved, Current, Served, Response
    <3> QED BY <1>4, <2>2, <2>3, <3>1, <3>3, OwnRequest
  <2>4. CASE Cached(p, q.prv)
    <3>1. Become(h, [q EXCEPT !.runtime = cache[p], !.pc = "verify"])
      BY <1>1, <1>5, <2>4 DEF oidcProvider, InFlight, Become
    <3>2. cache[p] \in Runtime /\ Fresh(p, cache[p])
      BY <1>3, <2>4 DEF Cached, Inv, TypeInv, CacheInv
    <3>3. PICK r \in Runtime : r = cache[p]
      BY <3>2
    <3> QED BY <2>3, <3>1, <3>2, <3>3
  <2>5. CASE ~Cached(p, q.prv) /\ secret[p] = 0
    <3>1. Become(h, Rejected(q))
      BY <1>1, <1>5, <2>5 DEF oidcProvider, InFlight, Become
    <3> QED BY <1>2, <1>4, <2>2, <3>1, Answers, OwnRequest
  <2>6. CASE ~Cached(p, q.prv) /\ secret[p] # 0
    <3> DEFINE built == [rv |-> q.prv, secret |-> secret[p]]
    <3>1. Become(h, [q EXCEPT !.runtime = built, !.pc = "keep"])
      BY <1>1, <1>5, <2>6 DEF oidcProvider, InFlight, Become
    <3>2. built \in Runtime /\ Fresh(p, built)
      BY <1>3, BuiltIsFresh DEF Inv
    <3>3. PICK r \in Runtime : r = built
      BY <3>2
    <3> QED BY <2>3, <3>1, <3>2, <3>3
  <2> QED BY <2>4, <2>5, <2>6
<1>6. CASE q.pc = "keep"
  <2>1. cache' = [cache EXCEPT ![p] = q.runtime] /\ Become(h, [q EXCEPT !.pc = "verify"])
    BY <1>1, <1>6 DEF oidcProvider, InFlight, Become, KeptRuntime
  <2>2. q.runtime \in Runtime \cup {Nil} /\ (q.runtime # Nil => Fresh(p, q.runtime))
    BY <1>2 DEF RequestInv, Served
  <2>3. cache' \in [Providers -> Runtime \cup {Nil}]
    BY <2>1, <2>2 DEF Inv, TypeInv
  <2>4. CacheInv'
    <3>1. ASSUME NEW o \in Providers, cache'[o] # Nil PROVE Fresh(o, cache'[o])
      BY <2>1, <2>2, <3>1 DEF Inv, TypeInv, CacheInv
    <3> QED BY <1>4, <3>1 DEF CacheInv, Fresh, Exists, Unchanged
  <2> DEFINE next == [q EXCEPT !.pc = "verify"]
  <2>5. next \in Served
    BY <1>2 DEF Served, Pcs
  <2>6. /\ next.browser = q.browser /\ next.session = q.session /\ next.prv = q.prv
        /\ next.runtime = q.runtime /\ next.pc = "verify"
    BY <1>2 DEF Served
  <2>7. RequestInv(next)
    <3> HIDE DEF next
    <3> QED BY <1>2, <2>2, <2>5, <2>6 DEF RequestInv, Proved, Current, Served, Response
  <2> QED BY <1>4, <2>1, <2>3, <2>4, <2>5, <2>7, OwnRequest
<1> QED BY <1>2, <1>5, <1>6

(* The session that goes on is of the same identity at the same provider.  *)
LEMMA VerifyStep ==
  ASSUME Inv, NEW h \in Handlers, sessionAndActorFromIDToken(h)
  PROVE  Inv'
<1>1. PICK q : q = req[h]
  OBVIOUS
<1>2. q \in Served /\ RequestInv(q) /\ q.pc = "verify"
  BY <1>1, InService DEF sessionAndActorFromIDToken, InFlight, Inv
<1>3. CacheInv' /\ cache' \in [Providers -> Runtime \cup {Nil}]
  BY DEF sessionAndActorFromIDToken, Unchanged, Inv, TypeInv, CacheInv, Fresh, Exists
<1>4. Unchanged
  BY DEF sessionAndActorFromIDToken
<1> DEFINE bare == [q EXCEPT !.prv = 0, !.runtime = Nil]
<1>5. bare \in Served
  BY <1>2 DEF Served
<1>6. /\ bare.browser = q.browser /\ bare.session = q.session /\ bare.prv = 0
      /\ bare.runtime = Nil /\ bare.pc = "verify" /\ bare.op = q.op
  BY <1>2 DEF Served
<1>7. \/ Become(h, [bare EXCEPT !.pc = "users"])
      \/ \E gs \in SUBSET ExternalGroups : Become(h, [bare EXCEPT !.session.groups = gs, !.pc = "users"])
      \/ Become(h, Rejected(bare))
  BY <1>1 DEF sessionAndActorFromIDToken, Become
<1> HIDE DEF bare
<1>8. ASSUME NEW s \in Sessions, s.provider = q.session.provider, s.subject = q.session.subject,
             NEW next, next = [bare EXCEPT !.session = s, !.pc = "users"]
      PROVE  next \in Served /\ RequestInv(next)
  <2>1. next \in Served
    BY <1>5, <1>8 DEF Served, Pcs
  <2>2. /\ next.browser = q.browser /\ next.session = s /\ next.prv = 0
        /\ next.runtime = Nil /\ next.pc = "users"
    BY <1>5, <1>6, <1>8 DEF Served
  <2>3. 0 <= rv
    BY DEF Inv, TypeInv
  <2> QED BY <1>2, <1>8, <2>1, <2>2, <2>3 DEF RequestInv, Proved, Current, Response, Served
<1>9. q.session \in Sessions
  BY <1>2 DEF Served
<1>10. CASE Become(h, [bare EXCEPT !.pc = "users"])
  <2>1. [bare EXCEPT !.pc = "users"] = [bare EXCEPT !.session = q.session, !.pc = "users"]
    BY <1>5, <1>6 DEF Served
  <2>2. PICK next : next = [bare EXCEPT !.session = q.session, !.pc = "users"]
    OBVIOUS
  <2>3. next \in Served /\ RequestInv(next)
    BY <1>8, <1>9, <2>2
  <2> QED BY <1>3, <1>4, <1>10, <2>1, <2>2, <2>3, OwnRequest
<1>11. ASSUME NEW gs \in SUBSET ExternalGroups,
             Become(h, [bare EXCEPT !.session.groups = gs, !.pc = "users"])
      PROVE  Inv'
  <2> DEFINE s == [q.session EXCEPT !.groups = gs]
  <2>1. s \in Sessions /\ s.provider = q.session.provider /\ s.subject = q.session.subject
    BY <1>9 DEF Sessions
  <2>2. [bare EXCEPT !.session.groups = gs, !.pc = "users"] = [bare EXCEPT !.session = s, !.pc = "users"]
    BY <1>5, <1>6 DEF Served
  <2>3. PICK next : next = [bare EXCEPT !.session = s, !.pc = "users"]
    OBVIOUS
  <2>4. next \in Served /\ RequestInv(next)
    BY <1>8, <2>1, <2>3
  <2> QED BY <1>3, <1>4, <1>11, <2>2, <2>3, <2>4, OwnRequest
<1>12. CASE Become(h, Rejected(bare))
  <2>1. Rejected(bare) = Rejected(q)
    BY <1>6 DEF Rejected, Answered
  <2> QED BY <1>2, <1>3, <1>4, <1>12, <2>1, Answers, OwnRequest
<1> QED BY <1>7, <1>10, <1>11, <1>12

(* The session's user is looked up.                                        *)
LEMMA UsersStep ==
  ASSUME Inv, NEW h \in Handlers, ResolveUsers(h)
  PROVE  Inv'
<1>1. PICK q : q = req[h]
  OBVIOUS
<1>2. q \in Served /\ RequestInv(q) /\ q.pc = "users"
  BY <1>1, InService DEF ResolveUsers, InFlight, Inv
<1>3. CacheInv' /\ cache' \in [Providers -> Runtime \cup {Nil}]
  BY DEF ResolveUsers, Unchanged, Inv, TypeInv, CacheInv, Fresh, Exists
<1>4. Unchanged
  BY DEF ResolveUsers
<1>5. CASE Become(h, Rejected(q))
  BY <1>2, <1>3, <1>4, <1>5, Answers, OwnRequest
<1>6. CASE Become(h, [q EXCEPT !.user = matchUser(q.session), !.pc = "groups"])
  <2>1. PICK next : next = [q EXCEPT !.user = matchUser(q.session), !.pc = "groups"]
    OBVIOUS
  <2>2. q.session \in Sessions
    BY <1>2 DEF Served
  <2>3. matchUser(q.session) \in Users \cup {Nil}
    BY <2>2, ActorTypes DEF Inv
  <2>4. next \in Served
    BY <1>2, <2>1, <2>3 DEF Served, Pcs
  <2>5. /\ next.browser = q.browser /\ next.session = q.session /\ next.prv = q.prv
        /\ next.runtime = q.runtime /\ next.pc = "groups" /\ next.user = matchUser(q.session)
    BY <1>2, <2>1 DEF Served
  <2>6. RequestInv(next)
    BY <1>2, <2>4, <2>5 DEF RequestInv, Proved, Current, Served, Response
  <2> QED BY <1>3, <1>4, <1>6, <2>1, <2>4, <2>6, OwnRequest
<1> QED BY <1>1, <1>5, <1>6 DEF ResolveUsers, Become

(* The groups that name the user or an external group of the session.      *)
LEMMA GroupsStep ==
  ASSUME Inv, NEW h \in Handlers, ResolveGroups(h)
  PROVE  Inv'
<1>1. PICK q : q = req[h]
  OBVIOUS
<1>2. q \in Served /\ RequestInv(q) /\ q.pc = "groups"
  BY <1>1, InService DEF ResolveGroups, InFlight, Inv
<1>3. CacheInv' /\ cache' \in [Providers -> Runtime \cup {Nil}]
  BY DEF ResolveGroups, Unchanged, Inv, TypeInv, CacheInv, Fresh, Exists
<1>4. Unchanged
  BY DEF ResolveGroups
<1> DEFINE Found == {g \in Of(Groups) : \/ q.user \in store[g].spec.members
                              \/ \E e \in q.session.groups :
                                   <<q.session.provider, e>> \in store[g].spec.external}
<1>5. PICK next : next = [q EXCEPT !.pc = "bindings", !.groups = Found]
  OBVIOUS
<1>6. Become(h, next)
  BY <1>1, <1>5 DEF ResolveGroups, Become
<1>7. Found \in SUBSET Groups
  BY DEF Of
<1>8. q.quiet => Found = GroupsOf(q.session)
  BY <1>2 DEF RequestInv, Current, GroupsOf
<1>9. q.quiet => q.user = matchUser(q.session)
  BY <1>2 DEF RequestInv, Current
<1> HIDE DEF Found
<1>10. next \in Served
  BY <1>2, <1>5, <1>7 DEF Served, Pcs
<1>11. /\ next.browser = q.browser /\ next.session = q.session /\ next.prv = q.prv
       /\ next.runtime = q.runtime /\ next.pc = "bindings" /\ next.groups = Found
       /\ next.user = q.user /\ next.quiet = q.quiet
  BY <1>2, <1>5 DEF Served
<1>12. RequestInv(next)
  BY <1>2, <1>8, <1>9, <1>10, <1>11 DEF RequestInv, Proved, Current, Served, Response
<1> QED BY <1>3, <1>4, <1>6, <1>10, <1>12, OwnRequest

(* The roles of the bindings that name the user, its groups or its subject.*)
LEMMA BindingsStep ==
  ASSUME Inv, NEW h \in Handlers, ResolveBindings(h)
  PROVE  Inv'
<1>1. PICK q : q = req[h]
  OBVIOUS
<1>2. q \in Served /\ RequestInv(q) /\ q.pc = "bindings"
  BY <1>1, InService DEF ResolveBindings, InFlight, Inv
<1>3. CacheInv' /\ cache' \in [Providers -> Runtime \cup {Nil}]
  BY DEF ResolveBindings, Unchanged, Inv, TypeInv, CacheInv, Fresh, Exists
<1>4. Unchanged
  BY DEF ResolveBindings
<1> DEFINE Applicable == {b \in Of(RoleBindings) : bindingAppliesToActor(b, q)}
           Legacy == {<<t, "tenant-admin">> : t \in {t \in Tenants : tenantVisibleLegacy(t, q)}}
           Granted == (UNION {Grants(b) : b \in Applicable}) \cup Legacy
<1>5. PICK next : next = [q EXCEPT !.pc = "roles", !.grants = Granted]
  OBVIOUS
<1>6. Become(h, next)
  BY <1>1, <1>5 DEF ResolveBindings, Become
<1>7. Granted \subseteq (Tenants \cup {Nil}) \X RoleNames
  <2>1. ASSUME NEW b \in Applicable PROVE Grants(b) \subseteq (Tenants \cup {Nil}) \X RoleNames
    <3>1. b \in RoleBindings /\ b \in Names /\ b \in Of(Names)
      BY <2>1 DEF Of, Names
    <3>2. store[b].spec \in SpecOf(b)
      BY <3>1 DEF Inv, StoreInv, Sound
    <3>3. store[b].spec.tenant \in Tenants \cup {Nil} /\ store[b].spec.roles \subseteq RoleNames
      BY <3>1, <3>2, Fields
    <3> QED BY <3>3 DEF Grants
  <2>2. Legacy \subseteq (Tenants \cup {Nil}) \X RoleNames
    BY DEF RoleNames, builtInRoles
  <2> HIDE DEF Applicable, Legacy
  <2> QED BY <2>1, <2>2
<1>8. q.quiet => Granted = GrantsOf(q.session)
  <2>1. ASSUME q.quiet PROVE Granted = GrantsOf(q.session)
    <3>1. q.user = matchUser(q.session) /\ q.groups = GroupsOf(q.session)
      BY <1>2, <2>1 DEF RequestInv, Current
    <3>2. Applicable = Bound(q.session)
      BY <3>1 DEF Bound, bindingAppliesToActor
    <3>3. Legacy = Owned(q.session)
      BY <3>1 DEF Owned, tenantVisibleLegacy
    <3> HIDE DEF Applicable, Legacy
    <3> QED BY <3>2, <3>3 DEF GrantsOf
  <2> QED BY <2>1
<1> HIDE DEF Granted
<1>9. next \in Served
  BY <1>2, <1>5, <1>7 DEF Served, Pcs
<1>10. /\ next.browser = q.browser /\ next.session = q.session /\ next.prv = q.prv
       /\ next.runtime = q.runtime /\ next.pc = "roles" /\ next.grants = Granted
       /\ next.quiet = q.quiet
  BY <1>2, <1>5 DEF Served
<1>11. RequestInv(next)
  BY <1>2, <1>8, <1>9, <1>10 DEF RequestInv, Proved, Current, Served, Response
<1> QED BY <1>3, <1>4, <1>6, <1>9, <1>11, OwnRequest

(* The names that were granted, with the permissions of custom roles.      *)
LEMMA RolesStep ==
  ASSUME Inv, NEW h \in Handlers, ResolveRoles(h)
  PROVE  Inv'
<1>1. PICK q : q = req[h]
  OBVIOUS
<1>2. q \in Served /\ RequestInv(q) /\ q.pc = "roles"
  BY <1>1, InService DEF ResolveRoles, InFlight, Inv
<1>3. CacheInv' /\ cache' \in [Providers -> Runtime \cup {Nil}]
  BY DEF ResolveRoles, Unchanged, Inv, TypeInv, CacheInv, Fresh, Exists
<1>4. Unchanged
  BY DEF ResolveRoles
<1> DEFINE Held(t, scope) ==
             UNION {expand(g[2], scope, CustomRoles) : g \in {g \in q.grants : g[1] = t}}
           tenantRoles == [t \in Tenants |-> Held(t, "tenant")]
<1>5. PICK next : next = [q EXCEPT !.pc = "handle", !.grants = {}, !.groups = {}, !.user = Nil,
                            !.roles = Held(Nil, "platform"), !.tenantRoles = tenantRoles]
  OBVIOUS
<1>6. Become(h, next)
  BY <1>1, <1>5 DEF ResolveRoles, Become
<1>7. \A t, scope : Held(t, scope) \subseteq RoleNames
  <2>1. ASSUME NEW scope, NEW g \in q.grants PROVE expand(g[2], scope, CustomRoles) \subseteq RoleNames
    <3>1. g[2] \in RoleNames
      BY <1>2 DEF Served
    <3> QED BY <3>1, ExpandTypes DEF Inv
  <2> QED BY <2>1
<1>8. ASSUME q.quiet
      PROVE  /\ Held(Nil, "platform") = HeldRoles(q.session, Nil)
             /\ \A t \in Tenants : tenantRoles[t] = HeldTenantRoles(q.session, t)
  <2>1. q.grants = GrantsOf(q.session) /\ q.session \in Sessions
    BY <1>2, <1>8 DEF RequestInv, Current, Served
  <2>2. Held(Nil, "platform") = HeldRoles(q.session, Nil)
    BY <2>1, SameRoles DEF Inv
  <2>3. ASSUME NEW t \in Tenants PROVE Held(t, "tenant") = HeldTenantRoles(q.session, t)
    <3>1. t # Nil
      BY NamesAssumption
    <3> QED BY <2>1, <3>1, SameRoles DEF Inv
  <2> QED BY <2>2, <2>3
<1> HIDE DEF Held
<1>9. tenantRoles \in [Tenants -> SUBSET RoleNames]
  BY <1>7
<1> HIDE DEF tenantRoles
<1>10. next \in Served
  BY <1>2, <1>5, <1>7, <1>9 DEF Served, Pcs
<1>11. /\ next.browser = q.browser /\ next.session = q.session /\ next.prv = q.prv
       /\ next.runtime = q.runtime /\ next.pc = "handle" /\ next.quiet = q.quiet
       /\ next.roles = Held(Nil, "platform") /\ next.tenantRoles = tenantRoles
  BY <1>2, <1>5 DEF Served
<1>12. RequestInv(next)
  BY <1>2, <1>8, <1>10, <1>11 DEF RequestInv, Proved, Current, Served, Response
<1> QED BY <1>3, <1>4, <1>6, <1>10, <1>12, OwnRequest

(* ------------------------------ administering --------------------------- *)

(* What the checks of an administration handler leave of a request body.   *)
Passed(r) ==
  LET credential == r.secret \/ secret[r.name] > 0
  IN /\ r.verb \in {"create", "update", "delete"} /\ r.name \in Names
     /\ r.verb # "delete" =>
          /\ r.name \in Users /\ r.spec.local => credential
          /\ r.name \in Providers /\ r.spec.type # "local" => credential
          /\ r.name \in Roles => roleFromRequest(r.spec)

(* The administration handlers, summarised: refuse, or go on for a         *)
(* platform administrator with a body that passed.                         *)
AdminStep(h) ==
  /\ InFlight(h, "handle") /\ UNCHANGED cache /\ Unchanged
  /\ \/ Become(h, Done(req[h]))
     \/ /\ "platform-admin" \in req[h].roles /\ Passed(req[h].op)
        /\ \E v \in Nat : Become(h, Proceed([req[h] EXCEPT !.version = v]))

(* The version of an object that an update carries.                        *)
LEMMA VersionRead ==
  ASSUME Inv, NEW n \in Names
  PROVE  (IF Exists(n) THEN store[n].rv ELSE 0) \in Nat
BY DEF Inv, TypeInv, Object, Exists

(* A provider of the type the body names has a Secret, or the body brings one. *)
LEMMA ProviderHandlers ==
  ASSUME Inv, NEW h \in Handlers,
         \/ handleCreateAuthProvider(h) \/ handleUpdateAuthProvider(h) \/ handleDeleteAuthProvider(h)
  PROVE  AdminStep(h)
<1>1. req[h].op.name \in Providers /\ req[h].op.name \in Names
  BY DEF handleCreateAuthProvider, handleUpdateAuthProvider, handleDeleteAuthProvider, Administer, Names
<1>2. req[h].op.name \notin Users /\ req[h].op.name \notin Roles
  BY <1>1, NamesAssumption
<1>3. Exists(req[h].op.name) /\ store[req[h].op.name].spec.type # "local" => secret[req[h].op.name] > 0
  BY <1>1 DEF Inv, StoreInv, Sound, Of
<1>4. (IF Exists(req[h].op.name) THEN store[req[h].op.name].rv ELSE 0) \in Nat
  BY <1>1, VersionRead
<1>5. CASE handleCreateAuthProvider(h)
  BY <1>1, <1>2, <1>4, <1>5 DEF handleCreateAuthProvider, Administer, AdminStep, Passed, Become,
     requirePlatformRole, applyAuthProviderSecretRequirements
<1>6. CASE handleUpdateAuthProvider(h)
  BY <1>1, <1>2, <1>3, <1>4, <1>6 DEF handleUpdateAuthProvider, Administer, AdminStep, Passed, Become,
     requirePlatformRole, applyAuthProviderSecretRequirements
<1>7. CASE handleDeleteAuthProvider(h)
  BY <1>1, <1>2, <1>4, <1>7 DEF handleDeleteAuthProvider, Administer, AdminStep, Passed, Become,
     requirePlatformRole
<1> QED BY <1>5, <1>6, <1>7

(* A user who signs in locally has a password, or the body brings one.     *)
LEMMA UserHandlers ==
  ASSUME Inv, NEW h \in Handlers,
         handleCreateUser(h) \/ handleUpdateUser(h) \/ handleDeleteUser(h)
  PROVE  AdminStep(h)
<1>1. req[h].op.name \in Users /\ req[h].op.name \in Names
  BY DEF handleCreateUser, handleUpdateUser, handleDeleteUser, Administer, Names
<1>2. req[h].op.name \notin Providers /\ req[h].op.name \notin Roles
  BY <1>1, NamesAssumption
<1>3. Exists(req[h].op.name) /\ store[req[h].op.name].spec.local => secret[req[h].op.name] > 0
  BY <1>1 DEF Inv, StoreInv, Sound, Of
<1>4. (IF Exists(req[h].op.name) THEN store[req[h].op.name].rv ELSE 0) \in Nat
  BY <1>1, VersionRead
<1>5. CASE handleCreateUser(h)
  BY <1>1, <1>2, <1>4, <1>5 DEF handleCreateUser, Administer, AdminStep, Passed, Become,
     requirePlatformRole, validateCreateUserRequest
<1>6. CASE handleUpdateUser(h)
  BY <1>1, <1>2, <1>3, <1>4, <1>6 DEF handleUpdateUser, Administer, AdminStep, Passed, Become,
     requirePlatformRole, validateUpdateUserRequest, hasExistingLocalAuthSecret
<1>7. CASE handleDeleteUser(h)
  BY <1>1, <1>2, <1>4, <1>7 DEF handleDeleteUser, Administer, AdminStep, Passed, Become,
     requirePlatformRole
<1> QED BY <1>5, <1>6, <1>7

(* Groups and bindings refer to no Secret.                                 *)
LEMMA GroupAndBindingHandlers ==
  ASSUME Inv, NEW h \in Handlers,
         \/ handleCreateGroup(h) \/ handleUpdateGroup(h) \/ handleDeleteGroup(h)
         \/ handleCreateRoleBinding(h) \/ handleUpdateRoleBinding(h) \/ handleDeleteRoleBinding(h)
  PROVE  AdminStep(h)
<1>1. req[h].op.name \in Groups \cup RoleBindings /\ req[h].op.name \in Names
  BY DEF handleCreateGroup, handleUpdateGroup, handleDeleteGroup, handleCreateRoleBinding,
         handleUpdateRoleBinding, handleDeleteRoleBinding, Administer, Names
<1>2. /\ req[h].op.name \notin Users /\ req[h].op.name \notin Providers
      /\ req[h].op.name \notin Roles
  BY <1>1, NamesAssumption
<1>3. (IF Exists(req[h].op.name) THEN store[req[h].op.name].rv ELSE 0) \in Nat
  BY <1>1, VersionRead
<1>4. CASE handleCreateGroup(h)
  BY <1>1, <1>2, <1>3, <1>4 DEF handleCreateGroup, Administer, AdminStep, Passed, Become,
     requirePlatformRole
<1>5. CASE handleUpdateGroup(h)
  BY <1>1, <1>2, <1>3, <1>5 DEF handleUpdateGroup, Administer, AdminStep, Passed, Become,
     requirePlatformRole
<1>6. CASE handleDeleteGroup(h)
  BY <1>1, <1>2, <1>3, <1>6 DEF handleDeleteGroup, Administer, AdminStep, Passed, Become,
     requirePlatformRole
<1>7. CASE handleCreateRoleBinding(h)
  BY <1>1, <1>2, <1>3, <1>7 DEF handleCreateRoleBinding, Administer, AdminStep, Passed, Become,
     requirePlatformRole
<1>8. CASE handleUpdateRoleBinding(h)
  BY <1>1, <1>2, <1>3, <1>8 DEF handleUpdateRoleBinding, Administer, AdminStep, Passed, Become,
     requirePlatformRole
<1>9. CASE handleDeleteRoleBinding(h)
  BY <1>1, <1>2, <1>3, <1>9 DEF handleDeleteRoleBinding, Administer, AdminStep, Passed, Become,
     requirePlatformRole
<1> QED BY <1>4, <1>5, <1>6, <1>7, <1>8, <1>9

(* A custom role's permissions are those its scope allows.                 *)
LEMMA RoleHandlers ==
  ASSUME Inv, NEW h \in Handlers,
         handleCreateRole(h) \/ handleUpdateRole(h) \/ handleDeleteRole(h)
  PROVE  AdminStep(h)
<1>1. req[h].op.name \in Roles /\ req[h].op.name \in Names
  BY DEF handleCreateRole, handleUpdateRole, handleDeleteRole, Administer, Names
<1>2. req[h].op.name \notin Users /\ req[h].op.name \notin Providers
  BY <1>1, NamesAssumption
<1>3. (IF Exists(req[h].op.name) THEN store[req[h].op.name].rv ELSE 0) \in Nat
  BY <1>1, VersionRead
<1>4. CASE handleCreateRole(h)
  BY <1>1, <1>2, <1>3, <1>4 DEF handleCreateRole, Administer, AdminStep, Passed, Become,
     requirePlatformRole
<1>5. CASE handleUpdateRole(h)
  BY <1>1, <1>2, <1>3, <1>5 DEF handleUpdateRole, Administer, AdminStep, Passed, Become,
     requirePlatformRole
<1>6. CASE handleDeleteRole(h)
  BY <1>1, <1>2, <1>3, <1>6 DEF handleDeleteRole, Administer, AdminStep, Passed, Become,
     requirePlatformRole
<1> QED BY <1>4, <1>5, <1>6

(* A handler answers, or goes on to the Secret or to the object.           *)
LEMMA HandleStep ==
  ASSUME Inv, NEW h \in Handlers, Handle(h)
  PROVE  Inv'
<1>1. PICK q : q = req[h]
  OBVIOUS
<1>2. handleTenants(h) \/ AdminStep(h)
  BY ProviderHandlers, UserHandlers, GroupAndBindingHandlers, RoleHandlers DEF Handle
<1>3. InFlight(h, "handle") /\ UNCHANGED cache /\ Unchanged
  BY <1>2 DEF handleTenants, AdminStep
<1>4. q \in Served /\ RequestInv(q) /\ q.pc = "handle"
  BY <1>1, <1>3, InService DEF InFlight, Inv
<1>5. CacheInv' /\ cache' \in [Providers -> Runtime \cup {Nil}]
  BY <1>3 DEF Unchanged, Inv, TypeInv, CacheInv, Fresh, Exists
<1>6. CASE Become(h, Done(q))
  BY <1>3, <1>4, <1>5, <1>6, Answers, OwnRequest
<1>7. ASSUME "platform-admin" \in q.roles, Passed(q.op), NEW v \in Nat,
             Become(h, Proceed([q EXCEPT !.version = v]))
      PROVE  Inv'
  <2> DEFINE read == [q EXCEPT !.version = v]
  <2>1. read.pc = "handle" /\ read.op = q.op
    BY <1>4 DEF Served
  <2>2. PICK pc \in {"secret", "commit"} : /\ pc = "secret" <=> q.op.secret
                                           /\ Proceed(read) = [read EXCEPT !.pc = pc]
    BY <2>1 DEF Proceed, Following
  <2>3. PICK next : next = [read EXCEPT !.pc = pc]
    OBVIOUS
  <2>4. next \in Served
    BY <1>4, <2>3 DEF Served, Pcs
  <2>5. /\ next.browser = q.browser /\ next.session = q.session /\ next.prv = q.prv
        /\ next.runtime = q.runtime /\ next.pc = pc /\ next.quiet = q.quiet
        /\ next.op = q.op /\ next.carried = q.carried
    BY <1>4, <2>3 DEF Served
  <2>6. q.quiet => "platform-admin" \in HeldRoles(q.session, Nil)
    BY <1>4, <1>7 DEF RequestInv, Current
  <2>7. Checked(next)
    BY <1>7, <2>2, <2>5 DEF Checked, Passed
  <2>8. RequestInv(next)
    BY <1>4, <2>2, <2>4, <2>5, <2>6, <2>7 DEF RequestInv, Proved, Current, Served, Response
  <2> QED BY <1>3, <1>5, <1>7, <2>2, <2>3, <2>4, <2>8, OwnRequest
<1> QED BY <1>1, <1>2, <1>6, <1>7 DEF handleTenants, AdminStep, Become

(* The object's Secret is written first; the object will carry its version.*)
LEMMA UpsertStep ==
  ASSUME Inv, NEW h \in Handlers, upsertSecret(h)
  PROVE  Inv'
<1>1. PICK q : q = req[h]
  OBVIOUS
<1>2. q \in Served /\ RequestInv(q) /\ q.pc = "secret"
  BY <1>1, InService DEF upsertSecret, InFlight, Inv
<1>3. PICK n : n = q.op.name
  OBVIOUS
<1>4. n \in Holders /\ n \in Names /\ q.op.verb # "delete" /\ q.op.secret
  <2>1. Checked(q) /\ q.op \in Requests
    BY <1>2 DEF RequestInv, Served
  <2> QED BY <1>2, <1>3, <2>1, InputsAssumption DEF Checked
<1>5. /\ secret' = [secret EXCEPT ![n] = @ + 1]
      /\ UNCHANGED <<store, rv, cache, jar, codes, proved, up, left>>
  BY <1>1, <1>3 DEF upsertSecret
<1>6. /\ secret \in [Holders -> Nat] /\ secret' \in [Holders -> Nat]
      /\ secret'[n] = secret[n] + 1 /\ \A o \in Holders : secret[o] <= secret'[o]
  BY <1>4, <1>5 DEF Inv, TypeInv
<1> DEFINE noted == [q EXCEPT !.carried = secret[n] + 1]
<1>7. PICK next : next = [noted EXCEPT !.pc = "commit"]
  OBVIOUS
<1>8. req' = [req EXCEPT ![h] = next]
  <2>1. noted.pc = "secret" /\ noted.op = q.op
    BY <1>2 DEF Served
  <2>2. Proceed(noted) = next
    BY <1>7, <2>1 DEF Proceed, Following
  <2>3. req' = [req EXCEPT ![h] = Proceed(noted)]
    BY <1>1, <1>3 DEF upsertSecret, Become
  <2> QED BY <2>2, <2>3
<1>9. next \in Served
  BY <1>2, <1>4, <1>6, <1>7 DEF Served, Pcs
<1>10. /\ next.browser = q.browser /\ next.session = q.session /\ next.prv = q.prv
       /\ next.runtime = q.runtime /\ next.pc = "commit" /\ next.quiet = q.quiet
       /\ next.op = q.op /\ next.carried = secret[n] + 1
  BY <1>2, <1>7 DEF Served
<1>11. TypeInv'
  BY <1>5, <1>6, <1>8, <1>9 DEF Inv, TypeInv
<1>12. StoreInv'
  <2>1. ASSUME NEW o \in Of(Names) PROVE Sound(o, store[o])'
    <3>1. Sound(o, store[o]) /\ store[o].carried \in Nat
      BY <2>1 DEF Inv, StoreInv, TypeInv, Object, Of, Exists
    <3>2. o \in Holders => secret[o] <= secret'[o] /\ secret[o] \in Nat /\ secret'[o] \in Nat
      BY <1>6
    <3>3. o \in Users \/ o \in Providers => o \in Holders
      BY DEF Holders
    <3> QED BY <1>5, <3>1, <3>2, <3>3 DEF Sound
  <2> QED BY <1>5, <2>1 DEF StoreInv, Of, Exists
<1>13. CacheInv'
  BY <1>5 DEF Inv, CacheInv, Fresh, Exists
<1>14. FlowInv'
  BY <1>5 DEF Inv, FlowInv, CodesInv, FlowsInv, BrowserOwnsSession
<1>15. RequestInv(next)'
  <2>1. Checked(next)'
    <3>1. Checked(q)
      BY <1>2 DEF RequestInv
    <3>2. secret'[n] > 0 /\ next.carried <= secret'[n]
      BY <1>4, <1>6, <1>10
    <3> QED BY <1>3, <1>4, <1>10, <3>1, <3>2 DEF Checked
  <2>2. q.quiet => "platform-admin" \in HeldRoles(q.session, Nil)
    BY <1>2 DEF RequestInv, Current
  <2>3. next.quiet => Current(next)'
    <3>1. next.quiet => Current(next)
      BY <1>10, <2>2 DEF Current
    <3> QED BY <1>5, <3>1, SameStore
  <2>4. /\ Proved(next, next.session)' /\ next.prv <= rv'
        /\ next.runtime # Nil => Fresh(next.session.provider, next.runtime)'
    BY <1>2, <1>5, <1>10 DEF RequestInv, Proved, Fresh, Exists
  <2> QED BY <1>9, <2>1, <2>3, <2>4 DEF RequestInv, Served, Response
<1>16. ASSUME NEW k \in Handlers, req'[k] # Nil PROVE RequestInv(req[k])'
  <2>1. CASE k # h
    <3>1. req'[k] = req[k]
      BY <1>8, <2>1 DEF Inv, TypeInv
    <3> QED BY <1>5, <1>6, <1>16, <3>1, RequestsKept
  <2>2. CASE k = h
    <3>1. req'[k] = next
      BY <1>8, <2>2 DEF Inv, TypeInv
    <3> QED BY <1>15, <3>1 DEF RequestInv, Proved, Fresh, Checked, Current
  <2> QED BY <2>1, <2>2
<1> QED BY <1>11, <1>12, <1>13, <1>14, <1>16 DEF Inv

(* The response sets the cookie of a session that its browser proved.      *)
LEMMA DeliverStep ==
  ASSUME Inv, NEW h \in Handlers, Deliver(h)
  PROVE  Inv'
<1>1. PICK q : q = req[h]
  OBVIOUS
<1>2. q \in Response /\ RequestInv(q)
  BY <1>1, InService DEF Deliver, Inv
<1>3. /\ req' = [req EXCEPT ![h] = Nil]
      /\ UNCHANGED <<store, rv, secret, cache, codes, proved, up, left>>
      /\ jar' = IF q.browser = Nil THEN jar
                ELSE [jar EXCEPT ![q.browser].session = q.cookie,
                                 ![q.browser].csrf = @ \/ (q.csrf /\ q.cookie # Nil)]
  BY <1>1 DEF Deliver, Become
<1>4. ASSUME NEW b \in Browsers
      PROVE  /\ jar'[b] \in Jar /\ jar'[b].flow = jar[b].flow
             /\ \/ jar'[b].session = jar[b].session
                \/ b = q.browser /\ q.browser # Nil /\ jar'[b].session = q.cookie
  <2>1. jar \in [Browsers -> Jar] /\ jar[b] \in Jar
    BY DEF Inv, TypeInv
  <2>2. CASE b # q.browser \/ q.browser = Nil
    BY <1>3, <2>1, <2>2
  <2>3. CASE b = q.browser /\ q.browser # Nil
    <3>1. q.cookie \in Sessions \cup {Nil} /\ q.csrf \in BOOLEAN
      BY <1>2 DEF Response
    <3>2. jar'[b] = [jar[b] EXCEPT !.session = q.cookie, !.csrf = @ \/ (q.csrf /\ q.cookie # Nil)]
      BY <1>3, <2>1, <2>3 DEF Jar
    <3> QED BY <2>1, <2>3, <3>1, <3>2 DEF Jar
  <2> QED BY <2>2, <2>3
<1>5. jar' \in [Browsers -> Jar]
  <2>1. jar \in [Browsers -> Jar]
    BY DEF Inv, TypeInv
  <2>2. jar' = [b \in Browsers |-> jar'[b]]
    BY <1>3, <2>1
  <2> QED BY <1>4, <2>2
<1>6. TypeInv'
  BY <1>3, <1>5 DEF Inv, TypeInv
<1>7. StoreInv'
  BY <1>3 DEF Inv, StoreInv, Sound, Of, Exists
<1>8. CacheInv'
  BY <1>3 DEF Inv, CacheInv, Fresh, Exists
<1>9. FlowInv'
  <2>1. ASSUME NEW b \in Browsers, jar'[b].session # Nil
        PROVE  <<b, jar'[b].session.provider, jar'[b].session.subject>> \in proved'
    <3>1. CASE jar'[b].session = jar[b].session
      BY <1>3, <2>1, <3>1 DEF Inv, FlowInv, BrowserOwnsSession
    <3>2. CASE b = q.browser /\ q.browser # Nil /\ jar'[b].session = q.cookie
      BY <1>2, <1>3, <2>1, <3>2 DEF RequestInv, Proved
    <3> QED BY <1>4, <3>1, <3>2
  <2>2. \A b \in Browsers : jar'[b].flow = jar[b].flow
    BY <1>4
  <2>3. BrowserOwnsSession'
    BY <2>1 DEF BrowserOwnsSession
  <2>4. CodesInv'
    BY <1>3 DEF Inv, FlowInv, CodesInv
  <2>5. FlowsInv'
    <3>1. codes' = codes /\ left' = left
      BY <1>3
    <3> QED BY <2>2, <3>1 DEF Inv, FlowInv, FlowsInv
  <2> QED BY <2>3, <2>4, <2>5 DEF FlowInv
<1>10. ASSUME NEW k \in Handlers, req'[k] # Nil PROVE RequestInv(req[k])'
  <2>1. req'[k] = req[k]
    BY <1>3, <1>10 DEF Inv, TypeInv
  <2>2. secret' \in [Holders -> Nat] /\ \A n \in Holders : secret[n] <= secret'[n]
    BY <1>3 DEF Inv, TypeInv
  <2> QED BY <1>3, <1>10, <2>1, <2>2, RequestsKept
<1> QED BY <1>6, <1>7, <1>8, <1>9, <1>10 DEF Inv

(* A binding that admission lets pass has a tenant unless its scope is the *)
(* platform.                                                               *)
LEMMA AdmittedBinding ==
  ASSUME NEW n \in RoleBindings, NEW old, NEW new, Admitted(n, old, new)
  PROVE  new.scope = "platform" <=> new.tenant = Nil
<1>1. n \notin Providers /\ n \notin Users /\ n \notin Groups /\ n \notin Roles
  BY NamesAssumption
<1>2. validateRoleBindingSpec(new)
  BY <1>1 DEF Admitted, validateRoleBindingUpdate
<1> QED BY <1>2 DEF validateRoleBindingSpec

(* A request stays as it was, or stops being quiet, when another request's *)
(* write makes a new version of one object.                                *)
LEMMA RequestAfterWrite ==
  ASSUME TypeInv, NEW q \in Served, RequestInv(q), NEW n \in Names, rv' = rv + 1,
         \A o \in Names \ {n} : store'[o] = store[o],
         store'[n] # Nil => store'[n].rv = rv + 1,
         UNCHANGED <<secret, proved>>
  PROVE  LET disturbed == [q EXCEPT !.quiet = FALSE]
         IN disturbed \in Served /\ RequestInv(disturbed)'
<1>1. PICK next : next = [q EXCEPT !.quiet = FALSE]
  OBVIOUS
<1>2. next \in Served
  BY <1>1 DEF Served
<1>3. /\ next.browser = q.browser /\ next.session = q.session /\ next.prv = q.prv
      /\ next.runtime = q.runtime /\ next.pc = q.pc /\ next.quiet = FALSE
      /\ next.op = q.op /\ next.carried = q.carried
  BY <1>1 DEF Served
<1>4. next.session.provider \in Names /\ next.prv \in Nat /\ rv \in Nat
      /\ (next.runtime # Nil => next.runtime.rv \in Nat)
  BY <1>2 DEF Served, Sessions, Names, Runtime, TypeInv
<1>5. next.prv <= rv'
  BY <1>3, <1>4 DEF RequestInv
<1>6. ASSUME next.runtime # Nil PROVE Fresh(next.session.provider, next.runtime)'
  <2>1. Fresh(next.session.provider, next.runtime)
    BY <1>3, <1>6 DEF RequestInv
  <2>2. next.runtime.rv <= rv /\ next.runtime.rv <= rv' /\ next.runtime.rv # rv + 1
    BY <1>4, <1>6, <2>1 DEF Fresh
  <2>3. CASE next.session.provider = n
    BY <2>2, <2>3 DEF Fresh, Exists
  <2>4. CASE next.session.provider # n
    <3>1. store'[next.session.provider] = store[next.session.provider]
      BY <1>4, <2>4
    <3> QED BY <2>1, <2>2, <3>1 DEF Fresh, Exists
  <2> QED BY <2>3, <2>4
<1>7. next.pc \in {"secret", "commit"} => Checked(next)'
  BY <1>3 DEF RequestInv, Checked
<1>8. Proved(next, next.session)'
  BY <1>3 DEF RequestInv, Proved
<1> QED BY <1>1, <1>2, <1>3, <1>5, <1>6, <1>7, <1>8 DEF RequestInv, Served, Response

(* The last call of a handler. A write that changes an object gives it a   *)
(* version that nobody has read; whoever is being authenticated meanwhile  *)
(* is no longer quiet.                                                     *)
LEMMA WriteStep ==
  ASSUME Inv, NEW h \in Handlers, Write(h)
  PROVE  Inv'
<1>1. PICK q : q = req[h]
  OBVIOUS
<1>2. q \in Served /\ RequestInv(q) /\ q.pc = "commit" /\ Checked(q)
  <2>1. q \in Served /\ RequestInv(q) /\ q.pc = "commit"
    BY <1>1, InService DEF Write, InFlight, Inv
  <2> QED BY <2>1 DEF RequestInv
<1>3. PICK r : r = q.op
  OBVIOUS
<1>4. PICK n : n = r.name
  OBVIOUS
<1>5. /\ n \in Names /\ r \in Requests /\ r.verb \in {"create", "update", "delete"}
      /\ q.carried \in Nat
  BY <1>2, <1>3, <1>4 DEF Served, Checked
<1> DEFINE same == r.verb = "update" /\ store[n] # Nil /\ store[n].spec = r.spec
           changes == Accepts(q) /\ ~same
           written == [spec |-> r.spec, rv |-> rv + 1, carried |-> IF r.secret THEN q.carried ELSE 0]
<1>6. /\ store' = IF ~changes THEN store
                  ELSE [store EXCEPT ![n] = IF r.verb = "delete" THEN Nil ELSE written]
      /\ rv' = IF changes THEN rv + 1 ELSE rv
      /\ UNCHANGED <<secret, cache, jar, codes, proved, up, left>>
  BY <1>1, <1>3, <1>4 DEF Write, NextRevision
<1>7. req' = [k \in Handlers |->
                 IF k = h THEN Done(q)
                 ELSE IF changes /\ Serving(k) THEN [req[k] EXCEPT !.quiet = FALSE] ELSE req[k]]
  <2>1. Proceed(q) = Done(q)
    BY <1>2 DEF Proceed, Following
  <2> HIDE DEF written
  <2> QED BY <1>1, <1>3, <1>4, <2>1 DEF Write
<1>8. ASSUME changes, r.verb # "delete"
      PROVE  /\ r.spec \in SpecOf(n)
             /\ n \in RoleBindings => (r.spec.scope = "platform" <=> r.spec.tenant = Nil)
  <2>1. r.spec \in SpecOf(n)
    BY <1>4, <1>5, <1>8, InputsAssumption
  <2>2. \E old : Admitted(n, old, r.spec)
    BY <1>3, <1>4, <1>5, <1>8 DEF Accepts
  <2> QED BY <2>1, <2>2, AdmittedBinding
<1>9. written \in Object \/ ~changes \/ r.verb = "delete"
  BY <1>5, <1>8 DEF Object, Inv, TypeInv
<1>10. /\ store \in [Names -> Object \cup {Nil}] /\ rv \in Nat
       /\ secret \in [Holders -> Nat]
  BY DEF Inv, TypeInv
<1>11. store' \in [Names -> Object \cup {Nil}] /\ rv' \in Nat
  <2> HIDE DEF changes, written
  <2> QED BY <1>5, <1>6, <1>9, <1>10
<1>12. /\ ~changes => store' = store /\ rv' = rv
       /\ changes => /\ rv' = rv + 1 /\ \A o \in Names \ {n} : store'[o] = store[o]
                     /\ store'[n] = IF r.verb = "delete" THEN Nil ELSE written
  <2> HIDE DEF changes, written
  <2> QED BY <1>5, <1>6, <1>10
<1>13. changes => (store'[n] # Nil => store'[n].rv = rv + 1)
  BY <1>12
<1>14. UNCHANGED <<secret, proved>>
  BY <1>6
<1>15. Done(q) \in Response /\ RequestInv(Done(q))' /\ Done(q) \notin Served
  <2>1. Done(q) \in Response /\ RequestInv(Done(q))
    BY <1>2, Answers
  <2>2. Done(q) \notin Served
    BY DEF Done, Answered, Served, Pcs
  <2>3. RequestInv(Done(q))'
    BY <1>14, <2>1, <2>2 DEF RequestInv, Proved
  <2> QED BY <2>1, <2>2, <2>3
<1>16. ASSUME NEW k \in Handlers, req'[k] # Nil
       PROVE  req'[k] \in Served \cup Response /\ RequestInv(req[k])'
  <2>1. CASE k = h
    <3>1. req'[k] = Done(q)
      BY <1>7, <2>1
    <3> QED BY <1>15, <3>1 DEF RequestInv, Proved, Fresh, Checked, Current
  <2>2. CASE k # h /\ changes /\ Serving(k)
    <3>1. PICK x : x = req[k]
      OBVIOUS
    <3>2. x \in Served /\ RequestInv(x)
      BY <2>2, <3>1, InService DEF Serving, Inv
    <3>3. req'[k] = [x EXCEPT !.quiet = FALSE]
      BY <1>7, <2>2, <3>1
    <3>4. PICK y : y = [x EXCEPT !.quiet = FALSE]
      OBVIOUS
    <3>5. rv' = rv + 1 /\ \A o \in Names \ {n} : store'[o] = store[o]
      BY <1>12, <2>2
    <3>6. y \in Served /\ RequestInv(y)'
      BY <1>5, <1>13, <1>14, <2>2, <3>2, <3>4, <3>5, RequestAfterWrite DEF Inv
    <3> QED BY <3>3, <3>4, <3>6 DEF RequestInv, Proved, Fresh, Checked, Current
  <2>3. CASE k # h /\ ~(changes /\ Serving(k))
    <3>1. req'[k] = req[k] /\ req[k] # Nil
      <4> HIDE DEF changes
      <4> QED BY <1>7, <1>16, <2>3
    <3>2. req[k] \in Served \cup Response
      BY <3>1 DEF Inv, TypeInv
    <3>3. CASE ~changes
      <4>1. secret' \in [Holders -> Nat] /\ \A o \in Holders : secret[o] <= secret'[o]
        BY <1>10, <1>14
      <4>2. store' = store /\ rv' = rv
        BY <1>12, <3>3
      <4> QED BY <1>14, <3>1, <3>2, <4>1, <4>2, RequestsKept
    <3>4. CASE ~Serving(k)
      <4>1. PICK x : x = req[k]
        OBVIOUS
      <4>2. x \in Response /\ x \notin Served /\ RequestInv(x)
        BY <3>1, <3>4, <4>1, InService DEF Serving, Inv
      <4>3. RequestInv(x)'
        BY <1>14, <4>2 DEF RequestInv, Proved
      <4> QED BY <3>1, <3>2, <4>1, <4>3 DEF RequestInv, Proved, Fresh, Checked, Current
    <3> QED BY <2>3, <3>3, <3>4
  <2> QED BY <2>1, <2>2, <2>3
<1>17. TypeInv'
  <2>1. req' \in [Handlers -> Served \cup Response \cup {Nil}]
    <3>1. \A k \in Handlers : req'[k] \in Served \cup Response \cup {Nil}
      BY <1>16
    <3>2. req' = [k \in Handlers |-> req'[k]]
      <4> HIDE DEF changes
      <4> QED BY <1>7
    <3> QED BY <3>1, <3>2
  <2>2. UNCHANGED <<secret, cache, jar, codes, left>>
    BY <1>6
  <2> QED BY <1>11, <2>1, <2>2 DEF Inv, TypeInv
<1>18. StoreInv'
  <2>1. ASSUME NEW o \in Names, store'[o] # Nil, store'[o] = store[o] PROVE Sound(o, store[o])'
    <3>1. Sound(o, store[o])
      BY <2>1 DEF Inv, StoreInv, Of, Exists
    <3>2. store[o].rv \in Nat /\ rv <= rv'
      BY <1>10, <1>12, <2>1 DEF Object
    <3> QED BY <1>10, <1>11, <1>14, <2>1, <3>1, <3>2 DEF Sound
  <2>2. ASSUME changes, store'[n] # Nil PROVE Sound(n, store[n])'
    <3>1. store'[n] = written /\ r.verb # "delete"
      BY <1>12, <2>2
    <3>2. /\ store'[n].spec = r.spec /\ store'[n].rv = rv'
          /\ store'[n].carried = IF r.secret THEN q.carried ELSE 0
      BY <1>12, <2>2, <3>1
    <3>3. n \in Roles => r.spec.permissions \subseteq allowedRolePermissions(r.spec.scope)
      BY <1>2, <1>3, <1>4, <3>1 DEF Checked, roleFromRequest
    <3>4. /\ n \in Holders => store'[n].carried <= secret'[n]
          /\ n \in Users /\ r.spec.local => secret'[n] > 0
          /\ n \in Providers /\ r.spec.type # "local" => secret'[n] > 0
      BY <1>2, <1>3, <1>4, <1>10, <1>14, <3>1, <3>2 DEF Checked
    <3> HIDE DEF changes
    <3> QED BY <1>8, <1>11, <2>2, <3>1, <3>2, <3>3, <3>4 DEF Sound
  <2>3. ASSUME NEW o \in Names, store'[o] # Nil PROVE Sound(o, store[o])'
    <3>1. store'[o] = store[o] \/ (changes /\ o = n)
      BY <1>12
    <3> QED BY <2>1, <2>2, <2>3, <3>1
  <2> QED BY <2>3 DEF StoreInv, Of, Exists
<1>19. CacheInv'
  <2>1. ASSUME NEW p \in Providers, cache'[p] # Nil PROVE Fresh(p, cache[p])'
    <3>1. cache' = cache /\ Fresh(p, cache[p]) /\ cache[p].rv \in Nat /\ p \in Names
      BY <1>6, <2>1 DEF Inv, TypeInv, CacheInv, Runtime, Names
    <3>2. cache[p].rv <= rv /\ cache[p].rv <= rv' /\ (changes => cache[p].rv # rv + 1)
      BY <1>10, <1>12, <3>1 DEF Fresh
    <3>3. CASE store'[p] = store[p]
      BY <3>1, <3>2, <3>3 DEF Fresh, Exists
    <3>4. CASE changes /\ p = n
      BY <1>13, <3>1, <3>2, <3>4 DEF Fresh, Exists
    <3> QED BY <1>12, <3>1, <3>3, <3>4
  <2> QED BY <2>1 DEF CacheInv
<1>20. FlowInv'
  <2>1. UNCHANGED <<jar, codes, proved, left>>
    BY <1>6
  <2> QED BY <2>1 DEF Inv, FlowInv, CodesInv, FlowsInv, BrowserOwnsSession
<1> QED BY <1>16, <1>17, <1>18, <1>19, <1>20 DEF Inv

(* ---------------------- requests, browsers, processes ------------------- *)

(* A request starts with an identity that its browser proved, or without   *)
(* a browser.                                                              *)
LEMMA StartStep ==
  ASSUME Inv, NEW h \in Handlers, NEW b \in Browsers \cup {Nil}, NEW s \in Sessions, NEW op \in Requests,
         b # Nil => <<b, s.provider, s.subject>> \in proved,
         Input("requests"), Become(h, Start(b, s, op)),
         UNCHANGED <<store, rv, secret, cache, jar, codes, proved, up>>
  PROVE  Inv'
<1>1. PICK q : q = Start(b, s, op)
  OBVIOUS
<1>2. q \in Served
  <2>1. NoRoles \in [Tenants -> SUBSET RoleNames]
    BY DEF NoRoles
  <2> QED BY <1>1, <2>1 DEF Start, Served, Pcs
<1>3. q.browser = b /\ q.session = s /\ q.prv = 0 /\ q.runtime = Nil /\ q.pc \in {"provider", "users"}
  BY <1>1 DEF Start
<1>4. left' = [left EXCEPT !.requests = @ - 1] /\ left.requests > 0
  BY DEF Input
<1>5. left' \in [requests : Nat, others : Nat] /\ left'.others = left.others
  BY <1>4 DEF Inv, TypeInv
<1>6. TypeInv'
  BY <1>1, <1>2, <1>5 DEF Inv, TypeInv, Become
<1>7. StoreInv'
  BY DEF Inv, StoreInv, Sound, Of, Exists
<1>8. CacheInv'
  BY DEF Inv, CacheInv, Fresh, Exists
<1>9. FlowInv'
  BY <1>5 DEF Inv, FlowInv, CodesInv, FlowsInv, BrowserOwnsSession
<1>10. RequestInv(q)'
  <2>1. rv' \in Nat
    BY DEF Inv, TypeInv
  <2> QED BY <1>2, <1>3, <2>1 DEF RequestInv, Proved, Current, Served, Response
<1>11. ASSUME NEW k \in Handlers, req'[k] # Nil PROVE RequestInv(req[k])'
  <2>1. CASE k # h
    <3>1. req'[k] = req[k]
      BY <2>1 DEF Inv, TypeInv, Become
    <3>2. secret' \in [Holders -> Nat] /\ \A n \in Holders : secret[n] <= secret'[n]
      BY DEF Inv, TypeInv
    <3> QED BY <1>11, <3>1, <3>2, RequestsKept
  <2>2. CASE k = h
    <3>1. req'[k] = q
      BY <1>1, <2>2 DEF Inv, TypeInv, Become
    <3> QED BY <1>10, <3>1 DEF RequestInv, Proved, Fresh, Checked, Current
  <2> QED BY <2>1, <2>2
<1> QED BY <1>6, <1>7, <1>8, <1>9, <1>11 DEF Inv

(* With a cookie.                                                          *)
LEMMA ArriveStep ==
  ASSUME Inv, NEW h \in Handlers, NEW b \in Browsers, NEW op \in Requests, Arrive(h, b, op)
  PROVE  Inv'
<1>1. PICK s : s = jar[b].session
  OBVIOUS
<1>2. s \in Sessions /\ <<b, s.provider, s.subject>> \in proved
  BY <1>1 DEF Arrive, Inv, TypeInv, Jar, FlowInv, BrowserOwnsSession
<1>3. /\ Input("requests") /\ Become(h, Start(b, s, op))
      /\ UNCHANGED <<store, rv, secret, cache, jar, codes, proved, up>>
  BY <1>1 DEF Arrive, Become
<1> QED BY <1>2, <1>3, StartStep

(* With a bearer token.                                                    *)
LEMMA BearerStep ==
  ASSUME Inv, NEW h \in Handlers, NEW token \in BearerTokens, NEW op \in Requests,
         authenticateBearerToken(h, token, op)
  PROVE  Inv'
<1>1. token \in Sessions
  BY InputsAssumption
<1>2. /\ Input("requests") /\ Become(h, Start(Nil, token, op))
      /\ UNCHANGED <<store, rv, secret, cache, jar, codes, proved, up>>
  BY DEF authenticateBearerToken
<1> QED BY <1>1, <1>2, StartStep

(* A step of a browser leaves the objects and the requests alone.          *)
LEMMA BrowserStep ==
  ASSUME Inv, UNCHANGED <<store, rv, secret, req, up>>, proved \subseteq proved',
         jar' \in [Browsers -> Jar], codes' \subseteq Code, left' \in [requests : Nat, others : Nat],
         cache' \in [Providers -> Runtime \cup {Nil}], CacheInv', FlowInv'
  PROVE  Inv'
<1>1. TypeInv'
  BY DEF Inv, TypeInv
<1>2. StoreInv'
  BY DEF Inv, StoreInv, Sound, Of, Exists
<1>3. ASSUME NEW k \in Handlers, req'[k] # Nil PROVE RequestInv(req[k])'
  <2>1. secret' \in [Holders -> Nat] /\ \A n \in Holders : secret[n] <= secret'[n]
    BY DEF Inv, TypeInv
  <2> QED BY <1>3, <2>1, RequestsKept
<1> QED BY <1>1, <1>2, <1>3 DEF Inv

(* An input other than a request is used up.                               *)
LEMMA OtherInput ==
  ASSUME TypeInv, Input("others")
  PROVE  /\ left' \in [requests : Nat, others : Nat] /\ left.others \in Nat
         /\ left'.others = left.others - 1 /\ left.others > 0 /\ left'.others < left.others
BY DEF TypeInv, Input

(* A session that a provider of the store vouches for.                     *)
LEMMA IdentityType ==
  ASSUME Inv, NEW p \in Providers, Exists(p), NEW s \in Users \cup Subjects,
         NEW gs \in SUBSET ExternalGroups
  PROVE  /\ Identity(p, s, gs) \in Sessions
         /\ Identity(p, s, gs).provider = p /\ Identity(p, s, gs).subject = s
<1>1. p \in Names /\ store[p].spec \in SpecOf(p)
  BY DEF Names, Inv, StoreInv, Sound, Of
<1>2. store[p].spec.type \in {"local", "oidc", "ldap"}
  BY <1>1, Fields
<1> QED BY <1>2 DEF Identity, Sessions

(* Signing in with a password proves who the browser's user is.            *)
LEMMA SignedInStep ==
  ASSUME Inv, NEW b \in Browsers, NEW s \in Sessions, Input("others"),
         jar' = SignedIn(b, s), proved' = proved \cup {<<b, s.provider, s.subject>>},
         UNCHANGED <<store, rv, secret, cache, req, codes, up>>
  PROVE  Inv'
<1>1. jar \in [Browsers -> Jar] /\ TypeInv /\ FlowInv
  BY DEF Inv, TypeInv
<1>2. jar' \in [Browsers -> Jar]
      /\ \A o \in Browsers : /\ jar'[o].flow = jar[o].flow
                             /\ o # b => jar'[o] = jar[o]
                             /\ o = b => jar'[o].session = s
  BY <1>1 DEF SignedIn, Jar
<1>3. /\ left' \in [requests : Nat, others : Nat] /\ left.others \in Nat /\ left'.others \in Nat
      /\ left'.others < left.others
  BY <1>1, OtherInput
<1>4. codes' \subseteq Code /\ codes' = codes /\ cache' \in [Providers -> Runtime \cup {Nil}]
  BY <1>1 DEF TypeInv
<1>5. CacheInv'
  BY DEF Inv, CacheInv, Fresh, Exists
<1>6. BrowserOwnsSession'
  BY <1>1, <1>2 DEF FlowInv, BrowserOwnsSession
<1>7. CodesInv'
  <2>1. ASSUME NEW c \in codes
        PROVE  /\ c.state > left'.others
               /\ c.subject # Nil => <<c.browser, c.provider, c.subject>> \in proved'
    <3>1. c.state \in Nat /\ c.state > left.others
      BY <1>1, <2>1 DEF TypeInv, Code, FlowInv, CodesInv
    <3>2. c.subject # Nil => <<c.browser, c.provider, c.subject>> \in proved
      BY <1>1, <2>1 DEF FlowInv, CodesInv
    <3> QED BY <1>3, <3>1, <3>2
  <2> QED BY <1>4, <2>1 DEF CodesInv
<1>8. FlowsInv'
  <2>1. \A o \in Browsers : jar[o].flow # Nil => jar[o].flow.state \in Nat
    BY <1>1 DEF Jar, Flow
  <2> QED BY <1>1, <1>2, <1>3, <1>4, <2>1 DEF FlowInv, FlowsInv
<1> QED BY <1>2, <1>3, <1>4, <1>5, <1>6, <1>7, <1>8, BrowserStep DEF FlowInv

(* A local user with the own password, or one the directory knows.         *)
LEMMA PasswordSteps ==
  ASSUME Inv, NEW b \in Browsers, NEW p \in Providers,
         \/ \E u \in Users : localPasswordLogin(b, p, u)
         \/ \E s \in Subjects, gs \in SUBSET ExternalGroups : ldapPasswordLogin(b, p, s, gs)
  PROVE  Inv'
<1>1. PICK s \in Users \cup Subjects, gs \in SUBSET ExternalGroups :
        /\ Exists(p) /\ Input("others")
        /\ jar' = SignedIn(b, Identity(p, s, gs)) /\ proved' = proved \cup {<<b, p, s>>}
        /\ UNCHANGED <<store, rv, secret, cache, req, codes, up>>
  <2>1. CASE \E u \in Users : localPasswordLogin(b, p, u)
    <3>1. {} \in SUBSET ExternalGroups
      OBVIOUS
    <3> QED BY <2>1, <3>1 DEF localPasswordLogin, Enabled
  <2>2. CASE \E s \in Subjects, gs \in SUBSET ExternalGroups : ldapPasswordLogin(b, p, s, gs)
    BY <2>2 DEF ldapPasswordLogin, Enabled
  <2> QED BY <2>1, <2>2
<1>2. PICK i : i = Identity(p, s, gs)
  OBVIOUS
<1>3. i \in Sessions /\ i.provider = p /\ i.subject = s
  BY <1>1, <1>2, IdentityType
<1>4. jar' = SignedIn(b, i) /\ proved' = proved \cup {<<b, i.provider, i.subject>>}
  BY <1>1, <1>2, <1>3 DEF SignedIn
<1> QED BY <1>1, <1>3, <1>4, SignedInStep

(* What oidcProvider returns to a login is fresh.                          *)
LEMMA RuntimeKept ==
  ASSUME Inv, NEW p \in Providers, Exists(p), cache' = [cache EXCEPT ![p] = RuntimeFor(p)],
         UNCHANGED <<store, rv>>
  PROVE  cache' \in [Providers -> Runtime \cup {Nil}] /\ CacheInv'
<1>1. store[p].rv \in Nat /\ store[p].rv <= rv
  <2>1. p \in Names
    BY DEF Names
  <2> QED BY <2>1 DEF Inv, TypeInv, Object, StoreInv, Sound, Of, Exists
<1>2. RuntimeFor(p) \in Runtime \cup {Nil} /\ (RuntimeFor(p) # Nil => Fresh(p, RuntimeFor(p)))
  <2>1. CASE Cached(p, store[p].rv)
    BY <2>1 DEF RuntimeFor, Cached, Inv, TypeInv, CacheInv
  <2>2. CASE ~Cached(p, store[p].rv)
    BY <1>1, <2>2, BuiltIsFresh DEF RuntimeFor, Inv
  <2> QED BY <2>1, <2>2
<1>3. cache' \in [Providers -> Runtime \cup {Nil}]
  BY <1>2 DEF Inv, TypeInv
<1>4. ASSUME NEW o \in Providers, cache'[o] # Nil PROVE Fresh(o, cache'[o])
  BY <1>2, <1>4 DEF Inv, TypeInv, CacheInv
<1> QED BY <1>3, <1>4 DEF CacheInv, Fresh, Exists

(* A login starts with a state parameter that was never used.              *)
LEMMA StartLoginStep ==
  ASSUME Inv, NEW b \in Browsers, NEW p \in Providers, StartLogin(b, p)
  PROVE  Inv'
<1>1. TypeInv /\ FlowInv /\ jar \in [Browsers -> Jar] /\ codes \subseteq Code
  BY DEF Inv, TypeInv
<1>2. PICK state : state = left.others
  OBVIOUS
<1>3. /\ left' \in [requests : Nat, others : Nat] /\ state \in Nat /\ left'.others \in Nat
      /\ left'.others < state
  BY <1>1, <1>2, OtherInput DEF StartLogin
<1> DEFINE flow == [provider |-> p, state |-> state]
           code == [state |-> state, browser |-> b, provider |-> p, subject |-> Nil]
<1>4. /\ jar' = [jar EXCEPT ![b].flow = flow] /\ codes' = codes \cup {code}
      /\ cache' = [cache EXCEPT ![p] = RuntimeFor(p)] /\ Exists(p)
      /\ UNCHANGED <<store, rv, secret, req, proved, up>>
  BY <1>2 DEF StartLogin, Enabled
<1>5. flow \in Flow /\ code \in Code /\ code.subject = Nil /\ code.state = state
      /\ code.browser = b /\ code.provider = p /\ flow.state = state /\ flow.provider = p
  BY <1>3 DEF Flow, Code
<1> HIDE DEF flow, code
<1>6. /\ jar' \in [Browsers -> Jar]
      /\ \A o \in Browsers : jar'[o].session = jar[o].session
      /\ \A o \in Browsers : jar'[o].flow = IF o = b THEN flow ELSE jar[o].flow
  BY <1>1, <1>4, <1>5 DEF Jar
<1>7. codes' \subseteq Code
  BY <1>1, <1>4, <1>5
<1>8. cache' \in [Providers -> Runtime \cup {Nil}] /\ CacheInv'
  BY <1>4, RuntimeKept
<1>9. BrowserOwnsSession'
  BY <1>1, <1>4, <1>6 DEF FlowInv, BrowserOwnsSession
<1>10. \A c \in codes : c.state \in Nat /\ c.state > state
  BY <1>1, <1>2 DEF Code, FlowInv, CodesInv
<1>11. CodesInv'
  <2>1. ASSUME NEW c \in codes'
        PROVE  /\ c.state > left'.others
               /\ c.subject # Nil => <<c.browser, c.provider, c.subject>> \in proved'
    <3>1. CASE c \in codes
      BY <1>1, <1>3, <1>4, <1>10, <3>1 DEF FlowInv, CodesInv
    <3>2. CASE c = code
      BY <1>3, <1>5, <3>2
    <3> QED BY <1>4, <2>1, <3>1, <3>2
  <2> QED BY <2>1 DEF CodesInv
<1>12. FlowsInv'
  <2>1. ASSUME NEW o \in Browsers, jar'[o].flow # Nil
        PROVE  /\ jar'[o].flow.state > left'.others
               /\ \A c \in codes' : c.state = jar'[o].flow.state =>
                    c.browser = o /\ c.provider = jar'[o].flow.provider
    <3>1. CASE o = b
      BY <1>3, <1>4, <1>5, <1>6, <1>10, <3>1
    <3>2. CASE o # b
      <4>1. jar'[o].flow = jar[o].flow /\ jar[o].flow # Nil
        BY <1>6, <2>1, <3>2
      <4>2. jar[o].flow.state \in Nat /\ jar[o].flow.state > state
        BY <1>1, <1>2, <4>1 DEF Jar, Flow, FlowInv, FlowsInv
      <4>3. \A c \in codes : c.state = jar[o].flow.state =>
              c.browser = o /\ c.provider = jar[o].flow.provider
        BY <1>1, <4>1 DEF FlowInv, FlowsInv
      <4> QED BY <1>3, <1>4, <1>5, <4>1, <4>2, <4>3
    <3> QED BY <3>1, <3>2
  <2> QED BY <2>1 DEF FlowsInv
<1> QED BY <1>3, <1>4, <1>6, <1>7, <1>8, <1>9, <1>11, <1>12, BrowserStep DEF FlowInv

(* Who may be signed in by a callback: the state is the one of the flow    *)
(* that this very browser started.                                         *)
LEMMA CallbackStep ==
  ASSUME Inv, NEW b \in Browsers, NEW c \in codes, NEW gs \in SUBSET ExternalGroups,
         HandleCallback(b, c, gs)
  PROVE  Inv'
<1>1. TypeInv /\ FlowInv /\ jar \in [Browsers -> Jar] /\ codes \subseteq Code
  BY DEF Inv, TypeInv
<1>2. PICK p : p = jar[b].flow.provider
  OBVIOUS
<1>3. jar[b].flow # Nil /\ c.state = jar[b].flow.state /\ c.subject # Nil
  BY DEF HandleCallback, FlowMatches
<1>4. p \in Providers /\ c.subject \in Subjects
  BY <1>1, <1>2, <1>3 DEF Jar, Flow, Code
<1>5. /\ Exists(p) /\ codes' = codes \ {c}
      /\ cache' = [cache EXCEPT ![p] = RuntimeFor(p)]
      /\ UNCHANGED <<store, rv, secret, req, proved, up, left>>
  BY <1>2 DEF HandleCallback, Enabled
<1>6. PICK s : s = Identity(p, c.subject, gs)
  OBVIOUS
<1>7. s \in Sessions /\ s.provider = p /\ s.subject = c.subject
  BY <1>4, <1>5, <1>6, IdentityType
<1>8. \/ jar' = jar
      \/ jar' = [jar EXCEPT ![b] = [session |-> s, flow |-> Nil, csrf |-> TRUE]]
  BY <1>2, <1>6 DEF HandleCallback
<1>9. <<b, s.provider, s.subject>> \in proved
  <2>1. c.browser = b /\ c.provider = p
    BY <1>1, <1>2, <1>3 DEF FlowInv, FlowsInv
  <2>2. <<c.browser, c.provider, c.subject>> \in proved
    BY <1>1, <1>3 DEF FlowInv, CodesInv
  <2> QED BY <1>7, <2>1, <2>2
<1>10. /\ jar' \in [Browsers -> Jar]
       /\ \A o \in Browsers : jar'[o].flow \in {jar[o].flow, Nil}
       /\ \A o \in Browsers : jar'[o].session = jar[o].session \/ (o = b /\ jar'[o].session = s)
  <2>1. CASE jar' = jar
    BY <1>1, <2>1
  <2>2. CASE jar' = [jar EXCEPT ![b] = [session |-> s, flow |-> Nil, csrf |-> TRUE]]
    <3>1. PICK opened : opened = [session |-> s, flow |-> Nil, csrf |-> TRUE]
      OBVIOUS
    <3>2. opened \in Jar /\ opened.session = s /\ opened.flow = Nil
      BY <1>7, <3>1 DEF Jar
    <3>3. jar' = [jar EXCEPT ![b] = opened]
      BY <2>2, <3>1
    <3> QED BY <1>1, <3>2, <3>3
  <2> QED BY <1>8, <2>1, <2>2
<1>11. cache' \in [Providers -> Runtime \cup {Nil}] /\ CacheInv'
  BY <1>4, <1>5, RuntimeKept
<1>12. BrowserOwnsSession'
  <2>1. \A o \in Browsers : jar[o].session # Nil =>
          <<o, jar[o].session.provider, jar[o].session.subject>> \in proved
    BY <1>1 DEF FlowInv, BrowserOwnsSession
  <2>2. proved' = proved
    BY <1>5
  <2> QED BY <1>9, <1>10, <2>1, <2>2 DEF BrowserOwnsSession
<1>13. CodesInv'
  BY <1>1, <1>5 DEF FlowInv, CodesInv
<1>14. FlowsInv'
  <2>1. codes' \subseteq codes /\ left' = left
    BY <1>5
  <2> QED BY <1>1, <1>10, <2>1 DEF FlowInv, FlowsInv
<1>15. codes' \subseteq Code /\ left' \in [requests : Nat, others : Nat]
  BY <1>1, <1>5 DEF TypeInv
<1> QED BY <1>5, <1>10, <1>11, <1>12, <1>13, <1>14, <1>15, BrowserStep DEF FlowInv

(* A session or a CSRF token goes away.                                    *)
LEMMA CookieGoes ==
  ASSUME Inv, NEW b \in Browsers, Logout(b) \/ CSRFExpires(b)
  PROVE  Inv'
<1>1. TypeInv /\ FlowInv /\ jar \in [Browsers -> Jar] /\ codes \subseteq Code
  BY DEF Inv, TypeInv
<1>2. /\ Input("others") /\ UNCHANGED <<store, rv, secret, cache, req, codes, proved, up>>
      /\ \/ jar' = [jar EXCEPT ![b] = EmptyJar]
         \/ jar' = [jar EXCEPT ![b].csrf = FALSE]
  BY DEF Logout, CSRFExpires
<1>3. /\ jar' \in [Browsers -> Jar]
      /\ \A o \in Browsers : jar'[o].flow \in {jar[o].flow, Nil}
      /\ \A o \in Browsers : jar'[o].session \in {jar[o].session, Nil}
  <2>1. PICK kept : /\ kept \in Jar /\ kept.flow \in {jar[b].flow, Nil}
                    /\ kept.session \in {jar[b].session, Nil}
                    /\ jar' = [jar EXCEPT ![b] = kept]
    <3>1. CASE jar' = [jar EXCEPT ![b] = EmptyJar]
      <4>1. EmptyJar \in Jar /\ EmptyJar.flow = Nil /\ EmptyJar.session = Nil
        BY DEF EmptyJar, Jar
      <4> QED BY <3>1, <4>1
    <3>2. CASE jar' = [jar EXCEPT ![b].csrf = FALSE]
      <4>1. PICK kept : kept = [jar[b] EXCEPT !.csrf = FALSE]
        OBVIOUS
      <4>2. kept \in Jar /\ kept.flow = jar[b].flow /\ kept.session = jar[b].session
        BY <1>1, <4>1 DEF Jar
      <4>3. jar' = [jar EXCEPT ![b] = kept]
        BY <1>1, <3>2, <4>1
      <4> QED BY <4>2, <4>3
    <3> QED BY <1>2, <3>1, <3>2
  <2> QED BY <1>1, <2>1
<1>4. /\ left' \in [requests : Nat, others : Nat] /\ left.others \in Nat /\ left'.others \in Nat
      /\ left'.others < left.others
  BY <1>1, <1>2, OtherInput
<1>5. CacheInv' /\ cache' \in [Providers -> Runtime \cup {Nil}] /\ codes' \subseteq Code
  BY <1>2 DEF Inv, TypeInv, CacheInv, Fresh, Exists
<1>6. codes' = codes /\ proved' = proved
  BY <1>2
<1>7. BrowserOwnsSession'
  BY <1>1, <1>3, <1>6 DEF FlowInv, BrowserOwnsSession
<1>8. CodesInv'
  <2>1. ASSUME NEW c \in codes
        PROVE  /\ c.state > left'.others
               /\ c.subject # Nil => <<c.browser, c.provider, c.subject>> \in proved
    <3>1. c.state \in Nat /\ c.state > left.others
      BY <1>1, <2>1 DEF Code, FlowInv, CodesInv
    <3>2. c.subject # Nil => <<c.browser, c.provider, c.subject>> \in proved
      BY <1>1, <2>1 DEF FlowInv, CodesInv
    <3> QED BY <1>4, <3>1, <3>2
  <2> QED BY <1>6, <2>1 DEF CodesInv
<1>9. FlowsInv'
  <2>1. \A o \in Browsers : jar[o].flow # Nil => jar[o].flow.state \in Nat
    BY <1>1 DEF Jar, Flow
  <2> QED BY <1>1, <1>3, <1>4, <1>6, <2>1 DEF FlowInv, FlowsInv
<1> QED BY <1>2, <1>3, <1>4, <1>5, <1>6, <1>7, <1>8, <1>9, BrowserStep DEF FlowInv

(* Somebody signs in at the identity provider.                             *)
LEMMA IssueStep ==
  ASSUME Inv, NEW c \in codes, NEW s \in Subjects, IssueCode(c, s)
  PROVE  Inv'
<1>1. TypeInv /\ FlowInv /\ jar \in [Browsers -> Jar] /\ codes \subseteq Code
  BY DEF Inv, TypeInv
<1>2. PICK d : d = [c EXCEPT !.subject = s]
  OBVIOUS
<1>3. /\ codes' = (codes \ {c}) \cup {d} /\ proved' = proved \cup {<<c.browser, c.provider, s>>}
      /\ UNCHANGED <<store, rv, secret, cache, jar, req, up, left>>
  BY <1>2 DEF IssueCode
<1>4. /\ d \in Code /\ d.state = c.state /\ d.browser = c.browser /\ d.provider = c.provider
      /\ d.subject = s
  BY <1>1, <1>2 DEF Code
<1>5. CacheInv' /\ cache' \in [Providers -> Runtime \cup {Nil}]
  BY <1>3 DEF Inv, TypeInv, CacheInv, Fresh, Exists
<1>6. /\ jar' \in [Browsers -> Jar] /\ codes' \subseteq Code /\ left' \in [requests : Nat, others : Nat]
      /\ proved \subseteq proved' /\ jar' = jar /\ left' = left
  BY <1>1, <1>3, <1>4 DEF TypeInv
<1>7. BrowserOwnsSession'
  BY <1>1, <1>6 DEF FlowInv, BrowserOwnsSession
<1>8. CodesInv'
  <2>1. ASSUME NEW x \in codes'
        PROVE  /\ x.state > left'.others
               /\ x.subject # Nil => <<x.browser, x.provider, x.subject>> \in proved'
    <3>1. CASE x \in codes
      BY <1>1, <1>6, <3>1 DEF FlowInv, CodesInv
    <3>2. CASE x = d
      BY <1>1, <1>3, <1>4, <1>6, <3>2 DEF FlowInv, CodesInv
    <3> QED BY <1>3, <2>1, <3>1, <3>2
  <2> QED BY <2>1 DEF CodesInv
<1>9. FlowsInv'
  <2>1. ASSUME NEW o \in Browsers, jar[o].flow # Nil, NEW x \in codes', x.state = jar[o].flow.state
        PROVE  x.browser = o /\ x.provider = jar[o].flow.provider
    BY <1>1, <1>3, <1>4, <2>1 DEF FlowInv, FlowsInv
  <2>2. \A o \in Browsers : jar[o].flow # Nil => jar[o].flow.state > left.others
    BY <1>1 DEF FlowInv, FlowsInv
  <2> QED BY <1>6, <2>1, <2>2 DEF FlowsInv
<1>10. UNCHANGED <<store, rv, secret, req, up>>
  BY <1>3
<1> QED BY <1>5, <1>6, <1>7, <1>8, <1>9, <1>10, BrowserStep DEF FlowInv

(* The bootstrap objects as a process start leaves them.                   *)
BootProvider == [type |-> "local", enabled |-> TRUE, default |-> TRUE]
BootRoles == [scope |-> "platform", tenant |-> Nil, subjects |-> {Bootstrap},
              roles |-> {"platform-admin", "catalog-admin", "cluster-admin"}]

(* A start replaces the bootstrap user and binding and adds the provider   *)
(* when it is missing; the rest of the store stays.                        *)
LEMMA Bootstrapped ==
  ASSUME NEW st \in [Names -> Object \cup {Nil}], NEW v \in Nat,
         st[Bootstrap] # Nil => st[Bootstrap].spec \in SpecOf(Bootstrap)
  PROVE  LET new == ensureBootstrapAdmin(st, v)
         IN /\ new \in [Names -> Object \cup {Nil}]
            /\ \A n \in Names :
                 \/ new[n] = st[n] /\ n # Bootstrap
                 \/ /\ n = Bootstrap
                    /\ \E ids \in SUBSET (Providers \X Subjects) :
                         new[n] = [spec |-> [local |-> TRUE, ids |-> ids], rv |-> v, carried |-> 0]
                 \/ n = LocalProvider /\ new[n] = [spec |-> BootProvider, rv |-> v, carried |-> 0]
                 \/ n = BootBinding /\ new[n] = [spec |-> BootRoles, rv |-> v, carried |-> 0]
<1>1. /\ Bootstrap \in Names /\ LocalProvider \in Names /\ BootBinding \in Names
      /\ Bootstrap # LocalProvider /\ Bootstrap # BootBinding /\ LocalProvider # BootBinding
  BY NamesAssumption DEF Names
<1> DEFINE ids == IF st[Bootstrap] = Nil THEN {} ELSE st[Bootstrap].spec.ids
           user == [spec |-> [local |-> TRUE, ids |-> ids], rv |-> v, carried |-> 0]
           provider == [spec |-> BootProvider, rv |-> v, carried |-> 0]
           binding == [spec |-> BootRoles, rv |-> v, carried |-> 0]
           new == ensureBootstrapAdmin(st, v)
<1>2. ids \in SUBSET (Providers \X Subjects)
  <2>1. CASE st[Bootstrap] # Nil
    <3>1. st[Bootstrap].spec \in [local : BOOLEAN, ids : SUBSET (Providers \X Subjects)]
      BY <1>1, <2>1, Kinds, NamesAssumption
    <3> QED BY <2>1, <3>1
  <2>2. CASE st[Bootstrap] = Nil
    BY <2>2
  <2> QED BY <2>1, <2>2
<1>3. user \in Object
  <2>1. [local |-> TRUE, ids |-> ids] \in SpecOf(Bootstrap)
    <3> HIDE DEF ids
    <3>1. [local |-> TRUE, ids |-> ids] \in [local : BOOLEAN, ids : SUBSET (Providers \X Subjects)]
      BY <1>2
    <3> QED BY <1>1, <3>1, Kinds, NamesAssumption
  <2> HIDE DEF ids
  <2> QED BY <1>1, <2>1 DEF Object
<1>4. provider \in Object
  <2>1. BootProvider \in SpecOf(LocalProvider)
    BY <1>1, Kinds, NamesAssumption DEF BootProvider
  <2> QED BY <1>1, <2>1 DEF Object
<1>5. binding \in Object
  <2>1. BootRoles \in SpecOf(BootBinding)
    <3>1. BootRoles \in [scope : {"platform", "tenant"}, tenant : Tenants \cup {Nil},
                        subjects : SUBSET (Users \cup Groups \cup Subjects), roles : SUBSET RoleNames]
      BY NamesAssumption DEF BootRoles, RoleNames, builtInRoles
    <3> QED BY <1>1, <3>1, Kinds, NamesAssumption
  <2> QED BY <1>1, <2>1 DEF Object
<1>6. new = [st EXCEPT ![LocalProvider] = IF @ # Nil THEN @ ELSE provider,
                       ![Bootstrap] = user,
                       ![BootBinding] = IF @ # Nil /\ @.spec.scope # "platform" THEN @ ELSE binding]
  BY DEF ensureBootstrapAdmin, BootProvider, BootRoles
<1>7. user = [spec |-> [local |-> TRUE, ids |-> ids], rv |-> v, carried |-> 0]
  OBVIOUS
<1>8. provider = [spec |-> BootProvider, rv |-> v, carried |-> 0]
  OBVIOUS
<1>9. binding = [spec |-> BootRoles, rv |-> v, carried |-> 0]
  OBVIOUS
<1> HIDE DEF new, user, provider, binding, ids
<1>10. /\ new \in [Names -> Object \cup {Nil}] /\ new[Bootstrap] = user
       /\ new[LocalProvider] \in {st[LocalProvider], provider}
       /\ new[BootBinding] \in {st[BootBinding], binding}
       /\ \A n \in Names \ {Bootstrap, LocalProvider, BootBinding} : new[n] = st[n]
  BY <1>1, <1>3, <1>4, <1>5, <1>6
<1>11. \A n \in Names :
                 \/ new[n] = st[n] /\ n # Bootstrap
                 \/ n = Bootstrap /\ new[n] = user
                 \/ n = LocalProvider /\ new[n] = provider
                 \/ n = BootBinding /\ new[n] = binding
  BY <1>1, <1>10
<1>12. \A n \in Names :
                 \/ new[n] = st[n] /\ n # Bootstrap
                 \/ /\ n = Bootstrap
                    /\ \E x \in SUBSET (Providers \X Subjects) :
                         new[n] = [spec |-> [local |-> TRUE, ids |-> x], rv |-> v, carried |-> 0]
                 \/ n = LocalProvider /\ new[n] = [spec |-> BootProvider, rv |-> v, carried |-> 0]
                 \/ n = BootBinding /\ new[n] = [spec |-> BootRoles, rv |-> v, carried |-> 0]
  BY <1>2, <1>7, <1>8, <1>9, <1>11
<1> QED BY <1>10, <1>12 DEF new

(* What a start writes is sound, whatever the state.                       *)
LEMMA BootSound ==
  ASSUME NEW st \in [Names -> Object \cup {Nil}], NEW v \in Nat,
         st[Bootstrap] # Nil => st[Bootstrap].spec \in SpecOf(Bootstrap),
         NEW n \in Names, NEW o, o = ensureBootstrapAdmin(st, v)[n],
         o # st[n] \/ n = Bootstrap
  PROVE  /\ o.spec \in SpecOf(n) /\ o.rv = v /\ o.carried = 0
         /\ n \in RoleBindings => (o.spec.scope = "platform" <=> o.spec.tenant = Nil)
         /\ n \notin Roles
         /\ n \in Users => n = Bootstrap
         /\ n \in Providers => o.spec.type = "local"
<1>1. \/ /\ n = Bootstrap
         /\ \E ids \in SUBSET (Providers \X Subjects) :
              o = [spec |-> [local |-> TRUE, ids |-> ids], rv |-> v, carried |-> 0]
      \/ n = LocalProvider /\ o = [spec |-> BootProvider, rv |-> v, carried |-> 0]
      \/ n = BootBinding /\ o = [spec |-> BootRoles, rv |-> v, carried |-> 0]
  BY Bootstrapped
<1>2. CASE n = Bootstrap
  <2>1. n \in Users /\ n \notin Roles /\ n \notin RoleBindings /\ n \notin Providers
    BY <1>2, NamesAssumption
  <2>2. PICK ids \in SUBSET (Providers \X Subjects) :
          o = [spec |-> [local |-> TRUE, ids |-> ids], rv |-> v, carried |-> 0]
    BY <1>1, <1>2, NamesAssumption
  <2>3. [local |-> TRUE, ids |-> ids] \in [local : BOOLEAN, ids : SUBSET (Providers \X Subjects)]
    OBVIOUS
  <2>4. o.spec = [local |-> TRUE, ids |-> ids] /\ o.rv = v /\ o.carried = 0
    BY <2>2
  <2>5. SpecOf(n) = [local : BOOLEAN, ids : SUBSET (Providers \X Subjects)]
    BY <2>1, Kinds
  <2> QED BY <1>2, <2>1, <2>3, <2>4, <2>5
<1>3. CASE n = LocalProvider /\ o = [spec |-> BootProvider, rv |-> v, carried |-> 0]
  <2>1. n \in Providers /\ n \notin Roles /\ n \notin RoleBindings /\ n \notin Users
    BY <1>3, NamesAssumption
  <2>2. SpecOf(n) = [type : {"local", "oidc", "ldap"}, enabled : BOOLEAN, default : BOOLEAN]
    BY <2>1, Kinds
  <2>3. BootProvider \in SpecOf(n) /\ BootProvider.type = "local"
    BY <2>2 DEF BootProvider
  <2>4. o.spec = BootProvider /\ o.rv = v /\ o.carried = 0
    BY <1>3
  <2> QED BY <2>1, <2>3, <2>4
<1>4. CASE n = BootBinding /\ o = [spec |-> BootRoles, rv |-> v, carried |-> 0]
  <2>1. n \in RoleBindings /\ n \notin Roles /\ n \notin Providers /\ n \notin Users
    BY <1>4, NamesAssumption
  <2>2. BootRoles \in [scope : {"platform", "tenant"}, tenant : Tenants \cup {Nil},
                      subjects : SUBSET (Users \cup Groups \cup Subjects), roles : SUBSET RoleNames]
    BY NamesAssumption DEF BootRoles, RoleNames, builtInRoles
  <2>3. BootRoles \in SpecOf(n)
    BY <2>1, <2>2, Kinds
  <2>4. o.spec = BootRoles /\ o.rv = v /\ o.carried = 0
    BY <1>4
  <2>5. BootRoles.scope = "platform" /\ BootRoles.tenant = Nil
    BY DEF BootRoles
  <2> QED BY <2>1, <2>3, <2>4, <2>5
<1> QED BY <1>1, <1>2, <1>3, <1>4

(* A new process forgets the requests and the cache; the bootstrap objects *)
(* get a new version and the bootstrap password a new Secret.              *)
LEMMA NewServerStep ==
  ASSUME Inv, NewServer
  PROVE  Inv'
<1>1. TypeInv /\ StoreInv /\ FlowInv /\ jar \in [Browsers -> Jar] /\ codes \subseteq Code
      /\ rv \in Nat
  BY DEF Inv, TypeInv
<1>2. PICK st \in [Names -> Object \cup {Nil}] : st = store
  BY <1>1 DEF TypeInv
<1>3. PICK v \in Nat : v = rv + 1
  BY <1>1
<1>4. /\ store' = ensureBootstrapAdmin(st, v) /\ rv' = v
      /\ secret' = [secret EXCEPT ![Bootstrap] = @ + 1]
      /\ cache' = [p \in Providers |-> Nil] /\ req' = [h \in Handlers |-> Nil]
      /\ Input("others") /\ UNCHANGED <<jar, codes, proved>>
  BY <1>2, <1>3 DEF NewServer
<1>5. Bootstrap \in Users /\ Bootstrap \in Names /\ Bootstrap \in Holders
  BY NamesAssumption DEF Names, Holders
<1>6. st[Bootstrap] # Nil => st[Bootstrap].spec \in SpecOf(Bootstrap)
  BY <1>1, <1>2, <1>5 DEF StoreInv, Sound, Of, Exists
<1>7. store' \in [Names -> Object \cup {Nil}]
  BY <1>4, <1>6, Bootstrapped
<1>8. /\ secret \in [Holders -> Nat] /\ secret' \in [Holders -> Nat] /\ secret'[Bootstrap] > 0
      /\ \A n \in Holders : secret[n] <= secret'[n]
  BY <1>1, <1>4, <1>5 DEF TypeInv
<1>9. /\ left' \in [requests : Nat, others : Nat] /\ left.others \in Nat /\ left'.others \in Nat
      /\ left'.others < left.others
  BY <1>1, <1>4, OtherInput
<1>10. TypeInv'
  BY <1>1, <1>4, <1>7, <1>8, <1>9 DEF TypeInv
<1>11. StoreInv'
  <2>1. ASSUME NEW n \in Names, store'[n] # Nil PROVE Sound(n, store[n])'
    <3>1. CASE store'[n] = st[n] /\ n # Bootstrap
      <4>1. Sound(n, store[n]) /\ store[n] = store'[n]
        BY <1>1, <1>2, <2>1, <3>1 DEF StoreInv, Of, Exists
      <4>2. store[n].rv \in Nat /\ store[n].carried \in Nat /\ rv <= rv'
        BY <1>1, <1>2, <1>3, <1>4, <2>1, <4>1 DEF TypeInv, Object
      <4>3. n \in Holders => secret[n] <= secret'[n] /\ secret[n] \in Nat /\ secret'[n] \in Nat
        BY <1>8
      <4>4. n \in Users \/ n \in Providers => n \in Holders
        BY DEF Holders
      <4>5. rv' \in Nat
        BY <1>4
      <4> QED BY <1>1, <4>1, <4>2, <4>3, <4>4, <4>5 DEF Sound
    <3>2. CASE store'[n] # st[n] \/ n = Bootstrap
      <4>1. PICK o : o = store'[n]
        OBVIOUS
      <4>2. /\ o.spec \in SpecOf(n) /\ o.rv = v /\ o.carried = 0
            /\ n \in RoleBindings => (o.spec.scope = "platform" <=> o.spec.tenant = Nil)
            /\ n \notin Roles
            /\ n \in Users => n = Bootstrap
            /\ n \in Providers => o.spec.type = "local"
        BY <1>4, <1>6, <3>2, <4>1, BootSound
      <4>3. n \in Holders => secret'[n] \in Nat
        BY <1>8
      <4> QED BY <1>4, <1>8, <4>1, <4>2, <4>3 DEF Sound
    <3> QED BY <3>1, <3>2
  <2> QED BY <2>1 DEF StoreInv, Of, Exists
<1>12. CacheInv'
  BY <1>4 DEF CacheInv
<1>13. FlowInv'
  <2>1. BrowserOwnsSession'
    BY <1>1, <1>4 DEF FlowInv, BrowserOwnsSession
  <2>2. CodesInv'
    <3>1. ASSUME NEW c \in codes
          PROVE  /\ c.state > left'.others
                 /\ c.subject # Nil => <<c.browser, c.provider, c.subject>> \in proved
      <4>1. c.state \in Nat /\ c.state > left.others
        BY <1>1, <3>1 DEF Code, FlowInv, CodesInv
      <4>2. c.subject # Nil => <<c.browser, c.provider, c.subject>> \in proved
        BY <1>1, <3>1 DEF FlowInv, CodesInv
      <4> QED BY <1>9, <4>1, <4>2
    <3> QED BY <1>4, <3>1 DEF CodesInv
  <2>3. FlowsInv'
    <3>1. \A o \in Browsers : jar[o].flow # Nil => jar[o].flow.state \in Nat
      BY <1>1 DEF Jar, Flow
    <3>2. jar' = jar /\ codes' = codes
      BY <1>4
    <3> QED BY <1>1, <1>9, <3>1, <3>2 DEF FlowInv, FlowsInv
  <2> QED BY <2>1, <2>2, <2>3 DEF FlowInv
<1>14. \A h \in Handlers : req'[h] = Nil
  BY <1>4
<1> QED BY <1>10, <1>11, <1>12, <1>13, <1>14 DEF Inv

(* ------------------------------- the theorems --------------------------- *)

(* A behaviour starts with sound objects and proved sessions.              *)
LEMMA Initially == Init => Inv
<1> SUFFICES ASSUME Init PROVE Inv
  OBVIOUS
<1>1. PICK i \in Initial :
       /\ store = ensureBootstrapAdmin(
                   [n \in Names |-> IF n \in DOMAIN i.objects
                                    THEN [spec |-> i.objects[n], rv |-> 0, carried |-> 0] ELSE Nil], 0)
       /\ jar = [b \in Browsers |-> [session |-> i.sessions[b], flow |-> Nil,
                                     csrf |-> i.sessions[b] # Nil]]
       /\ proved = {<<b, i.sessions[b].provider, i.sessions[b].subject>> :
                     b \in {b \in Browsers : i.sessions[b] # Nil}}
       /\ left = i.left
  BY DEF Init
<1>2. /\ i.left \in [requests : Nat, others : Nat] /\ i.sessions \in [Browsers -> Sessions \cup {Nil}]
      /\ \A n \in Names \cap DOMAIN i.objects :
            /\ i.objects[n] \in SpecOf(n) /\ Admitted(n, Nil, i.objects[n])
            /\ n \in Roles => roleFromRequest(i.objects[n])
  BY InputsAssumption
<1> DEFINE Given(n) == [spec |-> i.objects[n], rv |-> 0, carried |-> 0]
           given == [n \in Names |-> IF n \in DOMAIN i.objects THEN Given(n) ELSE Nil]
<1>3. PICK st : st = given
  OBVIOUS
<1>4. \A n \in Names : st[n] = IF n \in DOMAIN i.objects THEN Given(n) ELSE Nil
  BY <1>3
<1>5. ASSUME NEW n \in Names, n \in DOMAIN i.objects PROVE Given(n) \in Object
  BY <1>2, <1>5 DEF Object
<1>6. st \in [Names -> Object \cup {Nil}]
  <2> HIDE DEF Given
  <2> QED BY <1>3, <1>5
<1>7. /\ store = ensureBootstrapAdmin(st, 0) /\ rv = 0 /\ cache = [p \in Providers |-> Nil]
      /\ req = [h \in Handlers |-> Nil] /\ codes = {}
  BY <1>1, <1>3 DEF Init
<1>8. ASSUME NEW n \in Names, st[n] # Nil
      PROVE  /\ st[n].spec \in SpecOf(n) /\ st[n].rv = 0 /\ st[n].carried = 0
             /\ n \in RoleBindings => (st[n].spec.scope = "platform" <=> st[n].spec.tenant = Nil)
             /\ n \in Roles => st[n].spec.permissions \subseteq allowedRolePermissions(st[n].spec.scope)
  <2>1. n \in DOMAIN i.objects /\ st[n] = Given(n)
    BY <1>4, <1>8
  <2>2. st[n].spec = i.objects[n] /\ st[n].rv = 0 /\ st[n].carried = 0
    BY <2>1
  <2>3. i.objects[n] \in SpecOf(n) /\ Admitted(n, Nil, i.objects[n])
    BY <1>2, <2>1
  <2>4. n \in Roles => roleFromRequest(i.objects[n])
    BY <1>2, <2>1
  <2>5. n \in RoleBindings => (i.objects[n].scope = "platform" <=> i.objects[n].tenant = Nil)
    BY <2>3, AdmittedBinding
  <2> QED BY <2>2, <2>3, <2>4, <2>5 DEF roleFromRequest
<1>9. Bootstrap \in Users /\ Bootstrap \in Names
  BY NamesAssumption DEF Names
<1>10. st[Bootstrap] # Nil => st[Bootstrap].spec \in SpecOf(Bootstrap)
  BY <1>8, <1>9
<1>11. store \in [Names -> Object \cup {Nil}]
  BY <1>6, <1>7, <1>10, Bootstrapped
<1>12. \A n \in Holders : secret[n] =
       IF n = Bootstrap THEN 1
       ELSE IF store[n] = Nil THEN 0
       ELSE IF n \in Users THEN (IF store[n].spec.local THEN 1 ELSE 0)
       ELSE IF store[n].spec.type = "local" THEN 0 ELSE 1
  BY DEF Init
<1>13. secret \in [Holders -> Nat]
  <2>1. \A n \in Holders : secret[n] \in Nat
    BY <1>12
  <2>2. secret = [n \in Holders |-> secret[n]]
    BY DEF Init
  <2> QED BY <2>1, <2>2
<1>14. jar \in [Browsers -> Jar] /\ \A b \in Browsers : jar[b].session = i.sessions[b] /\ jar[b].flow = Nil
  BY <1>1, <1>2 DEF Jar
<1>15. TypeInv
  BY <1>1, <1>2, <1>7, <1>11, <1>13, <1>14 DEF TypeInv
<1>16. StoreInv
  <2>1. ASSUME NEW n \in Names, store[n] # Nil PROVE Sound(n, store[n])
    <3>1. /\ store[n].spec \in SpecOf(n) /\ store[n].rv = 0 /\ store[n].carried = 0
          /\ n \in RoleBindings => (store[n].spec.scope = "platform" <=> store[n].spec.tenant = Nil)
          /\ n \in Roles => store[n].spec.permissions \subseteq allowedRolePermissions(store[n].spec.scope)
      <4>1. CASE store[n] = st[n] /\ n # Bootstrap
        BY <1>8, <2>1, <4>1
      <4>2. CASE store[n] # st[n] \/ n = Bootstrap
        <5>1. PICK o : o = store[n]
          OBVIOUS
        <5>2. /\ o.spec \in SpecOf(n) /\ o.rv = 0 /\ o.carried = 0
              /\ n \in RoleBindings => (o.spec.scope = "platform" <=> o.spec.tenant = Nil)
              /\ n \notin Roles
          BY <1>6, <1>7, <1>10, <4>2, <5>1, BootSound
        <5> QED BY <5>1, <5>2
      <4> QED BY <4>1, <4>2
    <3>2. n \in Holders => secret[n] \in Nat
      BY <1>13
    <3>3. n \in Users => n \in Holders /\ n \notin Providers
      BY NamesAssumption DEF Holders
    <3>4. n \in Providers => n \in Holders /\ n \notin Users /\ n # Bootstrap
      BY NamesAssumption DEF Holders
    <3>5. n \in Users /\ store[n].spec.local => secret[n] > 0
      BY <1>12, <2>1, <3>3
    <3>6. n \in Providers /\ store[n].spec.type # "local" => secret[n] > 0
      BY <1>12, <2>1, <3>4
    <3> QED BY <1>7, <3>1, <3>2, <3>5, <3>6 DEF Sound
  <2> QED BY <2>1 DEF StoreInv, Of, Exists
<1>17. CacheInv
  BY <1>7 DEF CacheInv
<1>18. FlowInv
  <2>1. BrowserOwnsSession
    BY <1>1, <1>14 DEF BrowserOwnsSession
  <2> QED BY <1>7, <1>14, <2>1 DEF FlowInv, CodesInv, FlowsInv
<1>19. \A h \in Handlers : req[h] = Nil
  BY <1>7
<1> QED BY <1>15, <1>16, <1>17, <1>18, <1>19 DEF Inv

(* Every step of the portal keeps the invariant.                           *)
LEMMA Inductive == Inv /\ [Next]_vars => Inv'
<1> SUFFICES ASSUME Inv, [Next]_vars PROVE Inv'
  OBVIOUS
<1>1. ASSUME NEW h \in Handlers, Step(h) PROVE Inv'
  BY <1>1, GetProviderStep, OidcProviderStep, VerifyStep, UsersStep, GroupsStep, BindingsStep,
     RolesStep, HandleStep, UpsertStep, WriteStep, DeliverStep DEF Step
<1>2. ASSUME NEW b \in Browsers, SignIn(b) PROVE Inv'
  BY <1>2, PasswordSteps, StartLoginStep, CallbackStep, CookieGoes DEF SignIn
<1>3. CASE UNCHANGED vars
  <2>1. CacheInv'
    BY <1>3 DEF vars, Inv, CacheInv, Fresh, Exists
  <2>2. FlowInv'
    BY <1>3 DEF vars, Inv, FlowInv, CodesInv, FlowsInv, BrowserOwnsSession
  <2>3. /\ jar' \in [Browsers -> Jar] /\ codes' \subseteq Code /\ proved \subseteq proved'
        /\ left' \in [requests : Nat, others : Nat]
        /\ cache' \in [Providers -> Runtime \cup {Nil}]
        /\ UNCHANGED <<store, rv, secret, req, up>>
    BY <1>3 DEF vars, Inv, TypeInv
  <2> QED BY <2>1, <2>2, <2>3, BrowserStep
<1> QED BY <1>1, <1>2, <1>3, IssueStep, ArriveStep, BearerStep, NewServerStep DEF Next

(* The invariant holds in every state of every behaviour.                  *)
LEMMA Invariant == Spec => []Inv
BY Initially, Inductive, PTL DEF Spec

(* A local login and an external provider always find their Secret.        *)
THEOREM CredentialsAreThere == Spec => []CredentialsExist
<1>1. Inv => CredentialsExist
  <2> SUFFICES ASSUME Inv PROVE CredentialsExist
    OBVIOUS
  <2>1. ASSUME NEW n \in Names, Exists(n) PROVE Sound(n, store[n])
    BY <2>1 DEF Inv, StoreInv, Of
  <2> QED BY <2>1 DEF CredentialsExist, Sound, Of, Names
<1> QED BY <1>1, Invariant, PTL

(* A cached OIDC runtime of the provider's version uses a client secret at *)
(* least as new as that version.                                           *)
THEOREM RotationsArePickedUp == Spec => []RotationPickedUp
<1>1. Inv => RotationPickedUp
  <2> SUFFICES ASSUME Inv, NEW p \in Of(Providers), cache[p] # Nil, cache[p].rv = store[p].rv
               PROVE  cache[p].secret >= store[p].carried
    BY DEF RotationPickedUp
  <2>1. p \in Providers /\ Exists(p) /\ p \in Names
    BY DEF Of, Names
  <2>2. cache[p].secret \in Nat /\ store[p].carried \in Nat
    BY <2>1 DEF Inv, TypeInv, Runtime, Object, Exists
  <2>3. store[p].carried <= cache[p].secret
    BY <2>1 DEF Inv, CacheInv, Fresh
  <2> QED BY <2>2, <2>3
<1> QED BY <1>1, Invariant, PTL

(* A browser's session is of somebody who proved who they are in it.       *)
THEOREM SessionsAreOwned == Spec => []BrowserOwnsSession
<1>1. Inv => BrowserOwnsSession
  BY DEF Inv, FlowInv
<1> QED BY <1>1, Invariant, PTL

(* Of a request that nothing disturbed, what it acts with is what the      *)
(* objects give its user now.                                              *)
LEMMA QuietIsCurrent ==
  ASSUME Inv, NEW h \in Handlers, NEW pc \in Pcs, InFlight(h, pc), req[h].quiet
  PROVE  req[h] \in Served /\ Current(req[h])
<1>1. req[h] # Nil /\ req[h].pc # "respond"
  BY DEF InFlight, Pcs
<1>2. req[h] \in Served
  BY <1>1, InService DEF Inv
<1> QED BY <1>1, <1>2 DEF Inv, RequestInv

(* Sessions carry an identity and no authority: the roles of an            *)
(* undisturbed request are those its user holds at that moment.            *)
THEOREM AuthorityIsCurrent == Spec => []RolesAreCurrent
<1>1. Inv => RolesAreCurrent
  <2> SUFFICES ASSUME Inv, NEW h \in Handlers, InFlight(h, "handle"), req[h].quiet
               PROVE  /\ req[h].roles = HeldRoles(req[h].session, Nil)
                      /\ \A t \in Tenants : req[h].tenantRoles[t] = HeldTenantRoles(req[h].session, t)
    BY DEF RolesAreCurrent
  <2>1. Current(req[h]) /\ req[h].pc = "handle"
    BY QuietIsCurrent DEF Pcs, InFlight
  <2> QED BY <2>1 DEF Current
<1> QED BY <1>1, Invariant, PTL

(* Only a platform-scoped binding lets somebody change what grants access. *)
THEOREM AdministrationIsPlatform == Spec => []AdminNeedsPlatformBinding
<1>1. Inv => AdminNeedsPlatformBinding
  <2> SUFFICES ASSUME Inv, NEW h \in Handlers, NEW pc \in {"secret", "commit"},
                      InFlight(h, pc), req[h].quiet
               PROVE  "platform-admin" \in HeldRoles(req[h].session, Nil)
    BY DEF AdminNeedsPlatformBinding
  <2>1. Current(req[h]) /\ req[h].pc \in {"secret", "commit"}
    BY QuietIsCurrent DEF Pcs, InFlight
  <2> QED BY <2>1 DEF Current
<1> QED BY <1>1, Invariant, PTL

(* While bindings name roles of their own scope, no tenant's role is       *)
(* platform-admin: a custom role's permissions are those of its scope.     *)
LEMMA TenantRolesStayInTenant ==
  ASSUME TypeInv, StoreInv, WellScoped, NEW s, NEW t \in Tenants
  PROVE  "platform-admin" \notin HeldTenantRoles(s, t)
<1>1. t # Nil
  BY NamesAssumption
<1> DEFINE Mine == {b \in Of(RoleBindings) :
                 /\ store[b].spec.scope = "tenant" /\ store[b].spec.tenant = t
                 /\ store[b].spec.subjects \cap ({matchUser(s), s.subject} \cup HeldGroups(s)) # {}}
           Named == UNION {store[b].spec.roles : b \in Mine}
           Custom == {r \in Named \cap Of(Roles) : store[r].spec.scope = "tenant"}
<1>2. HeldRoles(s, t) = Named \cup UNION {store[r].spec.permissions : r \in Custom}
  BY <1>1 DEF HeldRoles
<1>3. "platform-admin" \notin Named
  BY DEF WellScoped, builtInRoles
<1>4. ASSUME NEW r \in Custom PROVE "platform-admin" \notin store[r].spec.permissions
  <2>1. r \in Names /\ r \in Roles /\ Exists(r) /\ store[r].spec.scope = "tenant"
    BY <1>4 DEF Of, Names
  <2>2. Sound(r, store[r])
    BY <2>1 DEF StoreInv, Of
  <2>3. store[r].spec.permissions \subseteq builtInRoles["tenant"]
    BY <2>1, <2>2 DEF Sound, allowedRolePermissions
  <2>4. "platform-admin" \notin builtInRoles["tenant"]
    BY DEF builtInRoles
  <2> QED BY <2>3, <2>4
<1> HIDE DEF Named, Custom
<1>5. "platform-admin" \notin HeldRoles(s, t)
  BY <1>2, <1>3, <1>4
<1> QED BY <1>5 DEF HeldTenantRoles

(* Nobody but a platform administrator sees a tenant in which no binding   *)
(* and no owner list names them.                                           *)
THEOREM TenantsAreIsolated == Spec => []TenantReadsStayInTenant
<1>1. Inv => TenantReadsStayInTenant
  <2> SUFFICES ASSUME Inv, NEW h \in Handlers, InFlight(h, "handle"), req[h].quiet, WellScoped,
                      "platform-admin" \notin HeldRoles(req[h].session, Nil),
                      NEW t \in visibleTenants(req[h])
               PROVE  HeldTenantRoles(req[h].session, t) # {}
    BY DEF TenantReadsStayInTenant
  <2>1. Current(req[h]) /\ req[h].pc = "handle"
    BY QuietIsCurrent DEF Pcs, InFlight
  <2>2. /\ req[h].roles = HeldRoles(req[h].session, Nil)
        /\ \A o \in Tenants : req[h].tenantRoles[o] = HeldTenantRoles(req[h].session, o)
    BY <2>1 DEF Current
  <2>3. \A o \in Tenants : "platform-admin" \notin req[h].tenantRoles[o]
    BY <2>2, TenantRolesStayInTenant DEF Inv
  <2>4. ~isPlatformAdmin(req[h])
    <3>1. \A g : platformRoleSatisfies(g, "platform-admin") => g = "platform-admin"
      BY DEF platformRoleSatisfies, tenantRoleSatisfies
    <3>2. \A g : tenantRoleSatisfies(g, "platform-admin") => g = "platform-admin"
      BY DEF tenantRoleSatisfies
    <3> QED BY <2>2, <2>3, <3>1, <3>2 DEF isPlatformAdmin, hasAny
  <2>5. t \in Tenants /\ req[h].tenantRoles[t] # {}
    BY <2>4 DEF visibleTenants, tenantVisibleToActor
  <2> QED BY <2>2, <2>5
<1> QED BY <1>1, Invariant, PTL

=============================================================================
