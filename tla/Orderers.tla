------------------------------- MODULE Orderers -------------------------------
(***************************************************************************)
(* What sets the controllers of the four orderer components apart.  Each   *)
(* has its own copy of every function: for each kind of component, in the  *)
(* order of the code,                                                      *)
(*   Enrols, Stores  the certificates it asks for and those it then stores *)
(*   Configures      its pipeline in configure mode                        *)
(*   Hashes          what the hash in its pods' template covers            *)
(*   Mounts          what the containers of its pods mount                 *)
(*   Routes          the routes to its service that a spec s asks for      *)
(*   Claims          the volume claims that a spec s asks for              *)
(*   Deploys         its pipeline in deploy mode                           *)
(*   Deletes         what its cleanup deletes by name                      *)
(***************************************************************************)
EXTENDS Pipelines

Orderers == {"consenter", "batcher", "assembler", "router"}

\* What a spec s asks for: one TLSRoute if it has a gateway; or what its
\* section for Istio says first, and whether it has TLS.
GatewayRoutes(s) == IF s.gateway THEN {"tlsroute"} ELSE {}

AnyRoutes(s) ==
  IF s.istio THEN Istio
  ELSE IF ~s.gateway THEN {}
  ELSE IF s.secure THEN {"tlsroute"} ELSE {"httproute"}

-----------------------------------------------------------------------------
(* OrdererConsenter                                                         *)

consenterEnrols     == Steps("enrol", <<"sign", "tls">>)
consenterStores     == Steps("store", <<"sign", "tls">>)
consenterConfigures == consenterEnrols \o consenterStores
consenterHashes     == {"config"}
consenterMounts     == {"config", "sign", "tls", "pvc", "genesis"}
consenterRoutes(s)  == GatewayRoutes(s)
consenterClaims(s)  == {"pvc"}

consenterDeploys ==
  consenterEnrols \o consenterStores \o Steps("check", <<"genesis">>)
    \o Steps("write", <<"config", "service", "deployment", "pvc">>)
    \o Steps("wait", <<"pvc">>) \o Steps("write", <<"tlsroute">>)

consenterDeletes == Steps("delete", <<"tlsroute">>)

-----------------------------------------------------------------------------
(* OrdererBatcher: alone in waiting for the block in configure mode.        *)

batcherEnrols     == Steps("enrol", <<"sign", "tls">>)
batcherStores     == Steps("store", <<"sign", "tls">>)
batcherConfigures ==
  batcherEnrols \o batcherStores \o Steps("check", <<"genesis">>)
batcherHashes     == {"config"}
batcherMounts     == {"config", "sign", "tls", "pvc", "genesis"}
batcherRoutes(s)  == GatewayRoutes(s)

\* Mutant: no claim without a size for it, as the assembler has it.
BatcherClaimsIfSized(s) == IF s.storage # Unset THEN {"pvc"} ELSE {}

batcherClaims(s)  == {"pvc"}

batcherDeploys ==
  batcherEnrols \o batcherStores \o Steps("check", <<"genesis">>)
    \o Steps("write", <<"config", "service", "deployment", "pvc">>)
    \o Steps("write", <<"tlsroute">>)

batcherDeletes == Steps("delete", <<"tlsroute">>)

-----------------------------------------------------------------------------
(* OrdererAssembler: it mounts a claim that it makes only with storage.     *)

assemblerEnrols     == Steps("enrol", <<"sign", "tls">>)
assemblerStores     == Steps("store", <<"sign", "tls">>)
assemblerConfigures == assemblerEnrols \o assemblerStores
assemblerHashes     == {}
assemblerMounts     == {"config", "sign", "tls", "pvc", "genesis"}
assemblerRoutes(s)  == AnyRoutes(s)
assemblerClaims(s)  == IF s.storage # Unset THEN {"pvc"} ELSE {}

assemblerDeploys ==
  assemblerEnrols \o assemblerStores \o Steps("check", <<"genesis">>)
    \o Steps("write", <<"config", "service", "pvc", "deployment">>)
    \o Steps("write", <<"virtualservice", "destinationrule">>)
    \o Steps("write", <<"tlsroute", "httproute">>)

assemblerDeletes ==
  Steps("delete", <<"tlsroute", "config", "deployment", "pvc">>)

-----------------------------------------------------------------------------
(* OrdererRouter: it never looks for the block that its pods mount, and its *)
(* pods have no use for the claim.                                          *)

routerEnrols     == Steps("enrol", <<"sign", "tls">>)
routerStores     == Steps("store", <<"sign", "tls">>)
routerConfigures == routerEnrols \o routerStores
routerHashes     == {}
routerMounts     == {"config", "sign", "tls", "genesis"}
routerRoutes(s)  == AnyRoutes(s)
routerClaims(s)  == IF s.storage # Unset THEN {"pvc"} ELSE {}

routerDeploys ==
  routerEnrols \o routerStores \o Steps("write", <<"service">>)
    \o Steps("write", <<"virtualservice", "destinationrule">>)
    \o Steps("write", <<"tlsroute", "httproute">>)
    \o Steps("write", <<"config", "deployment", "pvc">>)

routerDeletes == Steps("delete", <<"tlsroute">>)
=============================================================================
