------------------------- MODULE FinalizerProtocol -------------------------
(***************************************************************************)
(* What a controller of this operator promises about the resources it      *)
(* creates for a custom resource: they come into being only while the      *)
(* custom resource carries the controller's finalizer, so that it cannot   *)
(* disappear without the controller having had a chance to clean up, and a *)
(* custom resource that is being deleted never comes back to life.         *)
(* (ensureFinalizer / handleDeletion / removeFinalizer of the controllers.) *)
(***************************************************************************)
CONSTANT Dependent   \* what may be created for the custom resource

VARIABLES
  phase,      \* of the custom resource
  dependents  \* the dependents that exist

vars == <<phase, dependents>>

Phases == {"absent", "bare", "guarded", "terminating"}

Init == phase = "absent" /\ dependents = {}

Become(from, to) ==
  phase = from /\ phase' = to /\ UNCHANGED dependents

Create    == Become("absent", "bare")
Guard     == Become("bare", "guarded")
Abandon   == Become("bare", "absent")
Terminate == Become("guarded", "terminating")
Release   == Become("terminating", "absent")

\* A reconcile that began before the deletion may still be running after it.
Produce(d) ==
  /\ phase \in {"guarded", "terminating"} /\ d \notin dependents
  /\ dependents' = dependents \cup {d}
  /\ UNCHANGED phase

\* Dependents disappear at any time, even after the custom resource.
Reclaim(d) ==
  /\ d \in dependents
  /\ dependents' = dependents \ {d}
  /\ UNCHANGED phase

Next ==
  \/ Create \/ Guard \/ Abandon \/ Terminate \/ Release
  \/ \E d \in Dependent : Produce(d) \/ Reclaim(d)

Spec == Init /\ [][Next]_vars
=============================================================================
