------------------------------ MODULE Committers ------------------------------
(***************************************************************************)
(* What sets the controllers of the five committer components apart: as    *)
(* Orderers, for components without routes, claims and cleanup.  For each, *)
(*   Reads       what others must have given before its configuration can  *)
(*               be composed from a spec s                                 *)
(***************************************************************************)
EXTENDS Pipelines

Committers == {"sidecar", "coordinator", "validator", "verifier",
               "queryservice"}

-----------------------------------------------------------------------------
(* CommitterSidecar: the only one whose pods mount more than its            *)
(* configuration.                                                           *)

sidecarEnrols     == Steps("enrol", <<"sign", "tls">>)

\* Mutant: the secret of the first certificate is left out.
SidecarStoresOne  == Steps("store", <<"tls">>)

sidecarStores     == Steps("store", <<"sign", "tls">>)
sidecarConfigures == sidecarEnrols \o sidecarStores
sidecarReads(s)   == {}
sidecarHashes     == {"config", "sign", "tls"}
sidecarMounts     == {"config", "sign", "genesis"}

sidecarDeploys ==
  sidecarEnrols \o sidecarStores \o Steps("check", <<"genesis">>)
    \o Steps("write", <<"config", "service", "deployment">>)

sidecarDeletes == <<>>

-----------------------------------------------------------------------------
(* CommitterCoordinator                                                     *)

coordinatorEnrols     == Steps("enrol", <<"sign", "tls">>)
coordinatorStores     == Steps("store", <<"sign", "tls">>)
coordinatorConfigures == coordinatorEnrols \o coordinatorStores
coordinatorReads(s)   == {}
coordinatorHashes     == {"config", "sign", "tls"}
coordinatorMounts     == {"config"}

coordinatorDeploys ==
  coordinatorEnrols \o coordinatorStores
    \o Steps("write", <<"config", "service", "deployment">>)

coordinatorDeletes == <<>>

-----------------------------------------------------------------------------
(* CommitterValidator                                                       *)

validatorEnrols     == Steps("enrol", <<"sign", "tls">>)
validatorStores     == Steps("store", <<"sign", "tls">>)
validatorConfigures == validatorEnrols \o validatorStores
validatorReads(s)   == IF s.postgres = "secret" THEN {"password"} ELSE {}
validatorHashes     == {"config", "sign", "tls"}
validatorMounts     == {"config"}

validatorDeploys ==
  validatorEnrols \o validatorStores
    \o Steps("write", <<"config", "service", "deployment">>)

validatorDeletes == <<>>

-----------------------------------------------------------------------------
(* CommitterVerifier                                                        *)

verifierEnrols     == Steps("enrol", <<"sign", "tls">>)
verifierStores     == Steps("store", <<"sign", "tls">>)
verifierConfigures == verifierEnrols \o verifierStores
verifierReads(s)   == {}
verifierHashes     == {"config", "sign", "tls"}
verifierMounts     == {"config"}

verifierDeploys ==
  verifierEnrols \o verifierStores
    \o Steps("write", <<"config", "service", "deployment">>)

verifierDeletes == <<>>

-----------------------------------------------------------------------------
(* CommitterQueryService: a section on PostgreSQL that says nothing of      *)
(* retries makes it dereference nil.                                        *)

queryserviceEnrols     == Steps("enrol", <<"sign", "tls">>)
queryserviceStores     == Steps("store", <<"sign", "tls">>)
queryserviceConfigures == queryserviceEnrols \o queryserviceStores
queryserviceReads(s)   == IF s.postgres = "secret" THEN {"password"} ELSE {}
queryserviceBreaks(s)  == s.postgres = "bare"
queryserviceHashes     == {"config", "sign", "tls"}
queryserviceMounts     == {"config"}

queryserviceDeploys ==
  queryserviceEnrols \o queryserviceStores
    \o Steps("write", <<"config", "service", "deployment">>)

queryserviceDeletes == <<>>
=============================================================================
