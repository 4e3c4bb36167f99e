----------------------------- MODULE MCComponent -----------------------------
(* Small instances of Component for TLC.                                     *)
EXTENDS Component

\* A spec in deploy mode with all that a component of any kind may need.
Basic ==
  [mode |-> "deploy", enrolment |-> TRUE, sections |-> Cert, genesis |-> TRUE,
   gateway |-> FALSE, istio |-> FALSE, secure |-> TRUE, postgres |-> "none",
   storage |-> Unset, config |-> 1, pods |-> 1]

\* The configuration is edited, and what else these specs differ in.
Edited(one, two) == {one, [two EXCEPT !.config = 2]}

\* For each kind two specs, which its specialities tell apart.
MCChosen ==
  [k \in Orderers \cup Committers |->
     CASE k = "consenter" ->
            Edited([Basic EXCEPT !.gateway = TRUE, !.storage = 2],
                   [Basic EXCEPT !.storage = 1])
       [] k = "batcher" ->
            {[Basic EXCEPT !.mode = "configure", !.sections = {"tls"}],
             [Basic EXCEPT !.gateway = TRUE]}
       [] k = "assembler" ->
            {[Basic EXCEPT !.mode = ""], [Basic EXCEPT !.istio = TRUE]}
       [] k = "router" ->
            Edited([Basic EXCEPT !.gateway = TRUE, !.storage = 1],
                   [Basic EXCEPT !.gateway = TRUE, !.secure = FALSE])
       [] k = "sidecar" -> Edited([Basic EXCEPT !.sections = {"sign"}], Basic)
       [] k = "coordinator" -> {[Basic EXCEPT !.genesis = FALSE]}
       [] k = "validator" -> {[Basic EXCEPT !.postgres = "secret"]}
       [] k = "verifier" -> {Basic, [Basic EXCEPT !.enrolment = FALSE]}
       [] k = "queryservice" ->
            Edited([Basic EXCEPT !.postgres = "bare"],
                   [Basic EXCEPT !.postgres = "secret"])]

MCOmitted ==
  [k \in Orderers \cup Committers |->
     CASE k \in {"assembler", "validator"} -> {"tls", "service", "pvc"}
       [] k = "coordinator" -> {"sign", "tls"}
       [] k = "consenter" -> {"sign", "tls", "service"}
       [] k = "sidecar" -> {"service"}
       [] OTHER -> {"tls", "service"}]

MCLagging ==
  [k \in Orderers \cup Committers |->
     CASE k \in {"consenter", "sidecar", "queryservice"} -> {"config"}
       [] k \in {"validator", "verifier"} -> {"sign"}
       [] OTHER -> {}]

MCTroubles ==
  [k \in Orderers \cup Committers |->
     CASE k = "consenter"    -> {"edit", "touch", "write"}
       [] k = "batcher"      -> {"edit", "crash"}
       [] k = "assembler"    -> {"recreate"}
       [] k = "router"       -> Faults \cup {"edit", "touch"}
       [] k = "sidecar"      -> {"edit", "crash", "enrol", "object"}
       [] k = "coordinator"  -> {"recreate"}
       [] k = "validator"    -> {"recreate", "rotate"}
       [] k = "verifier"     -> {"enrol", "touch", "edit"}
       [] k = "queryservice" -> {"edit", "status", "rotate"}]

\* One component that has all it needs, and storage; nothing bothers it.
JustStored ==
  [k \in Orderers \cup Committers |-> {[Basic EXCEPT !.storage = 1]}]
Nought == [k \in Orderers \cup Committers |-> {}]

MCSpecs == UNION {MCChosen[k] \cup JustStored[k] : k \in DOMAIN MCChosen}
=============================================================================
