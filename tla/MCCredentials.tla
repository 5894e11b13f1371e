--------------------------- MODULE MCCredentials ---------------------------
(* One application credential beside the administrator's, and a rotation   *)
(* of it.                                                                  *)
EXTENDS Credentials
CONSTANTS app, admin
MCOps == {[id |-> 1, cred |-> app]}
=============================================================================
