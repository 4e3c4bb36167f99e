--------------------------------- MODULE CA ---------------------------------
(***************************************************************************)
(* The CA controller: configuration, three key pairs with self-signed      *)
(* certificates, storage, service, ingress and deployment of a Fabric CA,  *)
(* and a Job that copies its Idemix issuer keys into a secret.  A part     *)
(* that fails does not keep the others from being tried.                   *)
(***************************************************************************)
EXTENDS Frame

\* ingress: absent or disabled; enabled with a gateway; enabled without.
CASpec ==
  [config : Settings, ingress : {"off", "gateway", "bare"}, idemix : BOOLEAN]

KeyPairs == {"tls", "msp", "tlsca"}

ASSUME CAAssumption ==
  "ca" \in Kinds =>
    caOwns \subseteq Object /\ Specs["ca"] \subseteq CASpec

\* "config" stands for the ConfigMaps, "account" for the extractor's
\* service account, role and role binding.
CAPlan(s) ==
  << <<"config", "config">>, <<"secrets", "generate">>, <<"secrets", "tls">>,
     <<"secrets", "msp">>, <<"secrets", "tlsca">>, <<"pvc", "pvc">>,
     <<"service", "service">> >>
  \o (IF s.ingress = "off" THEN <<>> ELSE << <<"ingress", "ingress">> >>)
  \o << <<"deployment", "deployment">> >>
  \o (IF s.idemix THEN << <<"idemix", "account">>, <<"idemix", "job">> >>
                  ELSE <<>>)

CAStarts  == BeginWithStatus
CAPending == InitialiseStatus
CAGuarded == EnsureFinalizer(CAPlan(mem.spec))

ReconcileConfigMaps ==
  /\ At({<<"config", "config">>})
  /\ CreateOrUpdate("config", Owned(mem.spec.config))
  /\ UNCHANGED <<inside, mem, hand>>

\* Mutant: the keys are generated anew in every reconcile.
GenerateAlways ==
  /\ At({<<"secrets", "generate">>})
  /\ \E n \in Serials : NewSerial(n) /\ hand' = <<n, n, n>>
  /\ Proceed
  /\ UNCHANGED <<inside, outside, mem, queue, troubles>>

\* shouldRegenerateCertificates, getExistingCertificates: one secret that
\* the cache does not show, and all three pairs are generated.
GenerateKeys ==
  /\ At({<<"secrets", "generate">>})
  /\ IF \A k \in KeyPairs : seen[k].exists
       THEN hand' = <<seen["tls"].serial, seen["msp"].serial,
                      seen["tlsca"].serial>>
       ELSE \E n \in Serials : NewSerial(n) /\ hand' = <<n, n, n>>
  /\ Proceed
  /\ UNCHANGED <<inside, outside, mem, queue, troubles>>

StoreKeys ==
  /\ At({"secrets"} \X KeyPairs)
  /\ CreateOrUpdate(Subject, [Owned(Unset) EXCEPT !.serial = Issued])
  /\ hand' = IF plan' = Tail(plan) THEN Rest ELSE <<>>
  /\ UNCHANGED <<inside, mem>>

\* The claim keeps its class and its size, or grows.
ReconcilePVC ==
  /\ At({<<"pvc", "pvc">>})
  /\ CreateOrUpdate("pvc", Owned(Unset))
  /\ UNCHANGED <<inside, mem, hand>>

\* The specification lacks the API server's defaults: it is always updated.
ReconcileService ==
  /\ At({<<"service", "service">>})
  /\ CreateOr("service", Owned(Unset), Owned(Unset))
  /\ UNCHANGED <<inside, mem, hand>>

\* Without a gateway the ingress is deleted, if there is one.
ReconcileIngress ==
  /\ At({<<"ingress", "ingress">>})
  /\ \/ /\ mem.spec.ingress = "gateway"
        /\ CreateOr("ingress", Owned(Unset), Owned(Unset))
     \/ mem.spec.ingress = "bare" /\ Write("ingress", TRUE, NoObject)
  /\ UNCHANGED <<inside, mem, hand>>

\* ComputeConfigMapHash: of the ConfigMaps that the cache shows, or "unknown".
ConfigHash == {<<"config", seen["config"].content>>}

ReconcileDeployment ==
  /\ At({<<"deployment", "deployment">>})
  /\ LET wanted == [Owned(Unset) EXCEPT !.made = ConfigHash]
     IN CreateOr("deployment", wanted, wanted)
  /\ UNCHANGED <<inside, mem, hand>>

\* What is there is not looked at.
ReconcileAccount ==
  /\ At({<<"idemix", "account">>})
  /\ \/ seen["account"].exists
        /\ Proceed /\ UNCHANGED <<outside, queue, troubles>>
     \/ ~seen["account"].exists
        /\ Write("account", ~objects["account"].exists, Owned(Unset))
  /\ UNCHANGED <<inside, mem, hand>>

\* The CA may not run yet, or its issuer keys be in their secret already.
ReconcileKeysJob ==
  /\ At({<<"idemix", "job">>})
  /\ \/ Proceed /\ UNCHANGED <<outside, queue, troubles>>
     \/ /\ seen["deployment"].exists /\ ~seen["job"].exists
        /\ Write("job", ~objects["job"].exists, Owned(Unset))
  /\ UNCHANGED <<inside, mem, hand>>

CADone ==
  /\ pc = "work" /\ Finished
  /\ Goto(IF plan = <<>> THEN "succeeded" ELSE "failed")
  /\ UNCHANGED <<inside, outside, mem, queue, plan, hand, troubles>>

\* A success is not repeated: only the event of its own status may do that.
CARunning ==
  /\ pc = "succeeded"
  /\ UpdateStatus(State("RUNNING"), TRUE)
  /\ hand' = <<>> /\ Goto("idle")
  /\ UNCHANGED <<frame, outside, queue, plan>>

CAFailed == MarkFailed

\* deleteResources
CACleanup ==
  << <<"delete deployment", "deployment">>, <<"delete service", "service">>,
     <<"delete ingress", "ingress">>, <<"delete claim", "pvc">>,
     <<"delete config", "config">>, <<"delete tls", "tls">>,
     <<"delete msp", "msp">>, <<"delete tlsca", "tlsca">> >>

CADeleting ==
  /\ pc = "deleting"
  /\ UpdateStatus(State("PENDING"), TRUE)
  /\ Goto("cleanup") /\ plan' = CACleanup
  /\ UNCHANGED <<frame, outside, queue, hand>>

CADeletes ==
  /\ pc = "cleanup" /\ ~Finished
  /\ Write(Subject, TRUE, NoObject)
  /\ UNCHANGED <<inside, mem, hand>>

CADeleted ==
  /\ pc = "cleanup" /\ Finished
  /\ Goto(IF plan = <<>> THEN "removal" ELSE "failed")
  /\ UNCHANGED <<inside, outside, mem, queue, plan, hand, troubles>>

CAReleased == RemoveFinalizer("failed")

CAStep ==
  \/ CAStarts \/ CAPending \/ CAGuarded
  \/ ReconcileConfigMaps \/ GenerateKeys \/ StoreKeys \/ ReconcilePVC
  \/ ReconcileService \/ ReconcileIngress \/ ReconcileDeployment
  \/ ReconcileAccount \/ ReconcileKeysJob
  \/ CADone \/ CARunning \/ CAFailed
  \/ CADeleting \/ CADeletes \/ CADeleted \/ CAReleased
=============================================================================
