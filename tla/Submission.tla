----------------------------- MODULE Submission -----------------------------
(***************************************************************************)
(* What the ChainNamespace controller promises about the blockchain: an    *)
(* envelope is submitted only on behalf of a resource that exists and      *)
(* carries the controller's finalizer; the transaction recorded in the     *)
(* status of a resource is one the orderer accepted for that very          *)
(* resource; and once recorded it is never replaced or forgotten while the *)
(* resource lives. It does not promise that there is only one envelope.    *)
(***************************************************************************)
EXTENDS Naturals, Sequences

CONSTANT Body   \* what an envelope says

VARIABLES
  owner,     \* the incarnation of the resource, 0 when there is none
  held,      \* it carries the finalizer
  log,       \* the envelopes the orderer accepted, in order
  recorded   \* the position of the recorded one in log, 0 if none is

vars == <<owner, held, log, recorded>>

Init == owner = 0 /\ held = FALSE /\ log = <<>> /\ recorded = 0

\* A new incarnation has submitted nothing yet.
Appear ==
  /\ owner = 0
  /\ owner' \in Nat \ {0}
  /\ \A i \in DOMAIN log : log[i].uid # owner'
  /\ UNCHANGED <<held, log, recorded>>

Hold ==
  /\ owner # 0 /\ ~held
  /\ held' = TRUE
  /\ UNCHANGED <<owner, log, recorded>>

Submit ==
  /\ held
  /\ \E b \in Body : log' = Append(log, [uid |-> owner, body |-> b])
  /\ UNCHANGED <<owner, held, recorded>>

Record ==
  /\ held /\ recorded = 0
  /\ \E i \in DOMAIN log : log[i].uid = owner /\ recorded' = i
  /\ UNCHANGED <<owner, held, log>>

\* What is on the chain stays there.
Disappear ==
  /\ owner # 0
  /\ owner' = 0 /\ held' = FALSE /\ recorded' = 0
  /\ UNCHANGED log

Next == Appear \/ Hold \/ Submit \/ Record \/ Disappear

Spec == Init /\ [][Next]_vars
=============================================================================
