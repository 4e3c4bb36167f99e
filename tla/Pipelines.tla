------------------------------ MODULE Pipelines ------------------------------
(***************************************************************************)
(* What the controllers of all components have in common: the objects they *)
(* make, and the steps that their pipelines consist of.                    *)
(***************************************************************************)
EXTENDS Sequences

CONSTANT Unset   \* what a field of a spec holds that says nothing

Cert     == {"sign", "tls"}
Workload == {"config", "service", "deployment"}
Istio    == {"virtualservice", "destinationrule"}
Route    == {"tlsroute", "httproute"} \cup Istio
Object   == Cert \cup Workload \cup {"pvc"} \cup Route

\* What others give to a component: the genesis block and a password.
Input == {"genesis", "password"}

Step ==
  {"enrol", "store", "check", "write", "wait", "delete"} \X (Object \cup Input)

\* The same verb for one object after the other.
Steps(verb, os) == [i \in DOMAIN os |-> <<verb, os[i]>>]
=============================================================================
