---------------------------- MODULE OperationLog ----------------------------
(***************************************************************************)
(* What the ActionRequest controller promises for actions it carries out   *)
(* itself: an operation is written down before any of it is carried out,   *)
(* each of its steps is carried out at most once and in order, and it is   *)
(* reported as successful only when all of them were.  A step is a change  *)
(* to one runtime object; the operation of a request is numbered by the    *)
(* generation it was requested with.                                       *)
(***************************************************************************)
EXTENDS Naturals, Sequences

CONSTANTS
  Requests,
  Objects,
  StepsOf     \* the objects an operation of each request changes, in order

VARIABLES
  intent,     \* the newest operation of each request that is written down
  performed,  \* the steps carried out on each object, oldest first
  reported    \* the operation each request is reported as successful for, or 0

logVars == <<intent, performed, reported>>

Done(r, n, o) ==
  \E i \in DOMAIN performed[o] : performed[o][i] = <<r, n>>

Init ==
  /\ intent = [r \in Requests |-> 0]
  /\ performed = [o \in Objects |-> <<>>]
  /\ reported = [r \in Requests |-> 0]

(* A newer operation is written down.                                      *)
WriteDown(r) ==
  /\ intent'[r] > intent[r]
  /\ intent' = [intent EXCEPT ![r] = intent'[r]]
  /\ reported' = [reported EXCEPT ![r] = 0]
  /\ UNCHANGED performed

(* The i-th step of operation n is carried out, for the first time.        *)
Perform(r, n, i) ==
  LET o == StepsOf[r][i]
  IN  /\ ~Done(r, n, o)
      /\ \A j \in 1..(i - 1) : Done(r, n, StepsOf[r][j])
      /\ performed' = [performed EXCEPT ![o] = Append(@, <<r, n>>)]
      /\ UNCHANGED <<intent, reported>>

(* The newest operation is reported as successful.                         *)
Report(r) ==
  /\ \A i \in DOMAIN StepsOf[r] : Done(r, intent[r], StepsOf[r][i])
  /\ reported' = [reported EXCEPT ![r] = intent[r]]
  /\ UNCHANGED <<intent, performed>>

(* A report is withdrawn.                                                  *)
Withdraw(r) ==
  /\ reported' = [reported EXCEPT ![r] = 0]
  /\ UNCHANGED <<intent, performed>>

Next ==
  \E r \in Requests :
    \/ WriteDown(r) \/ Report(r) \/ Withdraw(r)
    \/ \E n \in 1..intent[r], i \in DOMAIN StepsOf[r] : Perform(r, n, i)

Spec == Init /\ [][Next]_logVars
=============================================================================
