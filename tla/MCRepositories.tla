--------------------------- MODULE MCRepositories ---------------------------
(* Two projects of one tenant register the same two repositories, under   *)
(* clashing names, several spellings and two credentials.                 *)
EXTENDS Repositories, TLC

CONSTANTS p1, p2, acme, web, app, shared, git, c1, c2

MCTenantOf == (p1 :> acme) @@ (p2 :> acme)

Raw(form, user, repo, spelling) ==
  [form |-> form, user |-> user, repo |-> repo, spelling |-> spelling, wellFormed |-> TRUE]
HTTPS  == Raw("https", None, shared, None)
Upper  == Raw("https", None, shared, "upper")
SCP    == Raw("scp", git, shared, None)
SSH    == Raw("ssh", git, shared, None)
Plain  == Raw("http", None, shared, None)

Body(scope, name, raw, auth, cred) ==
  [scope |-> scope, name |-> name, raw |-> raw, authType |-> auth, cred |-> cred, named |-> TRUE]

MCCreateRequests ==
  {Body(p1, web, HTTPS, "http", c1), Body(p1, app, Upper, "http", c2),
   Body(p2, web, SCP, "ssh", c1),
   Body(acme, web, HTTPS, "none", None), Body(p1, web, Plain, "http", c1)}
MCDeleteRequests == {<<p1, web>>, <<p1, app>>, <<acme, web>>}
MCInstances ==
  {[project |-> p1, ref |-> app, raw |-> None], [project |-> p2, ref |-> None, raw |-> Upper]}
HandlerSymmetry == Permutations(Handlers)
=============================================================================
