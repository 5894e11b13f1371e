------------------------------ MODULE MCAccess ------------------------------
\* A small portal: the bootstrap administrator, one more user linked to an
\* OIDC and an LDAP identity, one group, one custom role and two tenants.
EXTENDS Access, TLC

CONSTANTS h1, h2, root, alice, g, rl, bb, b, local, sso, dir, t1, t2, s1, eg

MCOwners == [t \in Tenants |-> IF t = t2 THEN {root} ELSE {}]

Provider(type, enabled) == [type |-> type, enabled |-> enabled, default |-> FALSE]
User(l, ids) == [local |-> l, ids |-> ids]
Group(members, external) == [members |-> members, external |-> external]
Role(scope, permissions) == [scope |-> scope, permissions |-> permissions]
Binding(t, subject, role) ==
  [scope |-> IF t = Nil THEN "platform" ELSE "tenant", tenant |-> t,
   subjects |-> {subject}, roles |-> {role}]

Base == (sso :> Provider("oidc", TRUE)) @@ (dir :> Provider("ldap", TRUE))
        @@ (alice :> User(FALSE, {<<sso, s1>>, <<dir, s1>>}))

Session(p, type, subject, groups) ==
  [provider |-> p, type |-> type, subject |-> subject, groups |-> groups]
AsRoot == Session(local, "local", root, {})
With(sessions, requests, others, objects) ==
  [objects |-> objects, sessions |-> sessions, left |-> [requests |-> requests, others |-> others]]

MCBearerTokens == {Session(sso, "oidc", s1, {eg})}

Team == Base @@ (g :> Group({alice}, {})) @@ (b :> Binding(Nil, g, "platform-admin"))
Mapped == Base @@ (g :> Group({}, {<<dir, eg>>})) @@ (rl :> Role("tenant", {"tenant-operator"}))
          @@ (b :> Binding(t1, g, rl))
Misscoped(role) == Base @@ (rl :> Role("platform", {"platform-admin"}))
                   @@ (b :> Binding(t1, alice, role))

\* Two requests that race, one request and one other input, or logins only.
MCInitial ==
  {With(<<AsRoot, Session(sso, "oidc", s1, {})>>, 2, 0, Team),
   With(<<AsRoot, Session(dir, "ldap", s1, {eg})>>, 2, 0, Mapped),
   With(<<Nil, Session(sso, "oidc", s1, {})>>, 1, 0, Misscoped(rl)),
   With(<<Nil, Session(sso, "oidc", s1, {})>>, 1, 0, Misscoped("platform-admin")),
   With(<<AsRoot, Session(sso, "oidc", s1, {})>>, 1, 1, Team),
   With(<<Nil, Nil>>, 1, 2, Mapped), With(<<Nil, Nil>>, 0, 3, Team)}

Req(verb, n, spec, sec) == [verb |-> verb, name |-> n, spec |-> spec, secret |-> sec]
MCRequests ==
  {Req("read", Nil, Nil, FALSE), Req("session", Nil, Nil, FALSE),
   Req("create", sso, Provider("oidc", TRUE), TRUE),
   Req("update", sso, Provider("oidc", FALSE), FALSE), Req("update", sso, Provider("oidc", TRUE), TRUE),
   Req("update", sso, [Provider("oidc", TRUE) EXCEPT !.default = TRUE], TRUE),
   Req("delete", sso, Nil, FALSE),
   Req("create", alice, User(TRUE, {}), TRUE), Req("update", alice, User(TRUE, {}), FALSE),
   Req("update", alice, User(TRUE, {<<sso, s1>>}), TRUE), Req("delete", alice, Nil, FALSE),
   Req("create", g, Group({}, {}), FALSE), Req("create", g, Group({alice}, {}), FALSE),
   Req("update", g, Group({root}, {<<sso, eg>>}), FALSE), Req("delete", g, Nil, FALSE),
   Req("create", rl, Role("tenant", {"auditor"}), FALSE),
   Req("update", rl, Role("platform", {"platform-admin"}), FALSE), Req("delete", rl, Nil, FALSE),
   Req("create", b, Binding(t1, alice, "platform-admin"), FALSE),
   Req("update", b, Binding(t1, alice, "platform-admin"), FALSE),
   Req("update", b, Binding(Nil, alice, rl), FALSE), Req("delete", b, Nil, FALSE),
   Req("delete", bb, Nil, FALSE), Req("create", bb, Binding(t1, alice, "tenant-operator"), FALSE)}
Symmetry == Permutations(Handlers)
=============================================================================
