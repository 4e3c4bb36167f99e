--------------------------- MODULE ComponentProofs ---------------------------
(***************************************************************************)
(* Theorems about Component, for any of the nine controllers, any specs    *)
(* and any bounds: the inductive invariant, that nothing that belongs to a *)
(* live component is ever removed, that certificates keep their keys, and  *)
(* that every controller implements the finalizer protocol.                *)
(***************************************************************************)
EXTENDS Component, SequenceTheorems, TLAPS

-----------------------------------------------------------------------------
(* Pipelines are sequences of steps                                         *)

Verbs == {"enrol", "store", "check", "write", "wait", "delete"}

LEMMA StepsType ==
  ASSUME NEW verb \in Verbs, NEW os \in Seq(Object \cup Input)
  PROVE  Steps(verb, os) \in Seq(Step)
<1>1. /\ DOMAIN os = 1 .. Len(os) /\ Len(os) \in Nat
      /\ \A i \in 1 .. Len(os) : os[i] \in Object \cup Input
  OBVIOUS
<1>2. \A o \in Object \cup Input : <<verb, o>> \in Step
  BY DEF Step, Verbs
<1>3. Steps(verb, os) = [i \in 1 .. Len(os) |-> <<verb, os[i]>>]
  BY <1>1 DEF Steps
<1>4. Steps(verb, os) \in [1 .. Len(os) -> Step]
  BY <1>1, <1>2, <1>3
<1>5. QED BY <1>1, <1>4, SeqDef

\* No pipeline does the same to more than four objects in a row.
LEMMA RowType ==
  ASSUME NEW verb \in Verbs,
         NEW a \in Object \cup Input, NEW b \in Object \cup Input,
         NEW c \in Object \cup Input, NEW d \in Object \cup Input
  PROVE  /\ Steps(verb, <<a>>) \in Seq(Step)
         /\ Steps(verb, <<a, b>>) \in Seq(Step)
         /\ Steps(verb, <<a, b, c>>) \in Seq(Step)
         /\ Steps(verb, <<a, b, c, d>>) \in Seq(Step)
<1>1. /\ <<a>> \in Seq(Object \cup Input)
      /\ <<a, b>> \in Seq(Object \cup Input)
      /\ <<a, b, c>> \in Seq(Object \cup Input)
      /\ <<a, b, c, d>> \in Seq(Object \cup Input)
  OBVIOUS
<1>2. QED BY <1>1, StepsType

\* What all pipelines begin with.
LEMMA CertificatesType ==
  /\ Steps("enrol", <<"sign", "tls">>) \in Seq(Step)
  /\ Steps("store", <<"sign", "tls">>) \in Seq(Step)
  /\ Steps("check", <<"genesis">>) \in Seq(Step)
BY RowType DEF Verbs, Object, Cert, Input

LEMMA ConcatType == \A s, t \in Seq(Step) : s \o t \in Seq(Step)
OBVIOUS

LEMMA OrdererPlans ==
  /\ {consenterDeploys, batcherDeploys, assemblerDeploys, routerDeploys}
       \subseteq Seq(Step)
  /\ {consenterConfigures, batcherConfigures, assemblerConfigures,
      routerConfigures} \subseteq Seq(Step)
  /\ {consenterDeletes, batcherDeletes, assemblerDeletes, routerDeletes}
       \subseteq Seq(Step)
<1>1. /\ Steps("write", <<"config", "service", "deployment", "pvc">>)
           \in Seq(Step)
      /\ Steps("write", <<"config", "service", "pvc", "deployment">>)
           \in Seq(Step)
      /\ Steps("write", <<"config", "deployment", "pvc">>) \in Seq(Step)
      /\ Steps("write", <<"tlsroute">>) \in Seq(Step)
      /\ Steps("write", <<"service">>) \in Seq(Step)
      /\ Steps("write", <<"virtualservice", "destinationrule">>) \in Seq(Step)
      /\ Steps("write", <<"tlsroute", "httproute">>) \in Seq(Step)
      /\ Steps("wait", <<"pvc">>) \in Seq(Step)
      /\ Steps("delete", <<"tlsroute">>) \in Seq(Step)
      /\ Steps("delete", <<"tlsroute", "config", "deployment", "pvc">>)
           \in Seq(Step)
  BY RowType DEF Verbs, Object, Workload, Route, Istio
<1>2. consenterDeploys \in Seq(Step) /\ consenterConfigures \in Seq(Step)
  BY <1>1, CertificatesType, ConcatType
  DEF consenterDeploys, consenterConfigures, consenterEnrols, consenterStores
<1>3. batcherDeploys \in Seq(Step) /\ batcherConfigures \in Seq(Step)
  BY <1>1, CertificatesType, ConcatType
  DEF batcherDeploys, batcherConfigures, batcherEnrols, batcherStores
<1>4. assemblerDeploys \in Seq(Step) /\ assemblerConfigures \in Seq(Step)
  BY <1>1, CertificatesType, ConcatType
  DEF assemblerDeploys, assemblerConfigures, assemblerEnrols, assemblerStores
<1>5. routerDeploys \in Seq(Step) /\ routerConfigures \in Seq(Step)
  BY <1>1, CertificatesType, ConcatType
  DEF routerDeploys, routerConfigures, routerEnrols, routerStores
<1>6. QED
  BY <1>1, <1>2, <1>3, <1>4, <1>5
  DEF consenterDeletes, batcherDeletes, assemblerDeletes, routerDeletes

LEMMA CommitterPlans ==
  /\ {sidecarDeploys, coordinatorDeploys, validatorDeploys, verifierDeploys,
      queryserviceDeploys} \subseteq Seq(Step)
  /\ {sidecarConfigures, coordinatorConfigures, validatorConfigures,
      verifierConfigures, queryserviceConfigures} \subseteq Seq(Step)
  /\ {sidecarDeletes, coordinatorDeletes, validatorDeletes, verifierDeletes,
      queryserviceDeletes} \subseteq Seq(Step)
<1>1. Steps("write", <<"config", "service", "deployment">>) \in Seq(Step)
  BY RowType DEF Verbs, Object, Workload
<1>2. sidecarDeploys \in Seq(Step) /\ sidecarConfigures \in Seq(Step)
  BY <1>1, CertificatesType, ConcatType
  DEF sidecarDeploys, sidecarConfigures, sidecarEnrols, sidecarStores
<1>3. coordinatorDeploys \in Seq(Step) /\ coordinatorConfigures \in Seq(Step)
  BY <1>1, CertificatesType, ConcatType
  DEF coordinatorDeploys, coordinatorConfigures, coordinatorEnrols,
      coordinatorStores
<1>4. validatorDeploys \in Seq(Step) /\ validatorConfigures \in Seq(Step)
  BY <1>1, CertificatesType, ConcatType
  DEF validatorDeploys, validatorConfigures, validatorEnrols, validatorStores
<1>5. verifierDeploys \in Seq(Step) /\ verifierConfigures \in Seq(Step)
  BY <1>1, CertificatesType, ConcatType
  DEF verifierDeploys, verifierConfigures, verifierEnrols, verifierStores
<1>6. /\ queryserviceDeploys \in Seq(Step)
      /\ queryserviceConfigures \in Seq(Step)
  BY <1>1, CertificatesType, ConcatType
  DEF queryserviceDeploys, queryserviceConfigures, queryserviceEnrols,
      queryserviceStores
<1>7. <<>> \in Seq(Step)
  OBVIOUS
<1>8. QED
  BY <1>2, <1>3, <1>4, <1>5, <1>6, <1>7
  DEF sidecarDeletes, coordinatorDeletes, validatorDeletes, verifierDeletes,
      queryserviceDeletes

LEMMA PlanType ==
  ASSUME NEW k \in Orderers \cup Committers
  PROVE  /\ ConfigurePlan(k) \in Seq(Step) /\ DeletePlan(k) \in Seq(Step)
         /\ DeployPlan(k) \in Seq(Step)
<1>1. k \in {"consenter", "batcher", "assembler", "router", "sidecar",
             "coordinator", "validator", "verifier", "queryservice"}
  BY DEF Orderers, Committers
<1>2. DeployPlan(k) \in Seq(Step)
  BY <1>1, OrdererPlans, CommitterPlans DEF DeployPlan
<1>3. ConfigurePlan(k) \in Seq(Step)
  BY <1>1, OrdererPlans, CommitterPlans DEF ConfigurePlan
<1>4. DeletePlan(k) \in Seq(Step)
  BY <1>1, OrdererPlans, CommitterPlans DEF DeletePlan
<1>5. QED BY <1>2, <1>3, <1>4

-----------------------------------------------------------------------------
(* Objects and what is written to them                                      *)

LEMMA SpecType ==
  ASSUME NEW s \in Specs
  PROVE  /\ s.mode \in {"", "configure", "deploy"}
         /\ s.config \in Settings /\ s.pods \in Settings
         /\ s.storage \in Settings \cup {Unset}
BY ComponentAssumption DEF ComponentSpec

LEMMA NoObjectType ==
  NoObject \in Objects /\ ~NoObject.exists /\ NoObject.owner = 0
BY DEF NoObject, Objects, Hash, NoHash

LEMMA OwnedType ==
  ASSUME TypeOK, NEW content \in Settings \cup {Unset}
  PROVE  /\ Owned(content) \in Objects
         /\ Owned(content).exists /\ Owned(content).owner = mem.uid
         /\ \A n \in Serials \cup {0} :
              /\ [Owned(content) EXCEPT !.serial = n] \in Objects
              /\ [Owned(content) EXCEPT !.serial = n].exists
              /\ [Owned(content) EXCEPT !.serial = n].owner = mem.uid
         /\ \A p \in Nat :
              /\ [Owned(content) EXCEPT !.password = p] \in Objects
              /\ [Owned(content) EXCEPT !.password = p].exists
              /\ [Owned(content) EXCEPT !.password = p].owner = mem.uid
         /\ \A h \in Hash :
              /\ [Owned(content) EXCEPT !.hash = h] \in Objects
              /\ [Owned(content) EXCEPT !.hash = h].exists
              /\ [Owned(content) EXCEPT !.hash = h].owner = mem.uid
<1>1. mem.uid \in Nat
  BY DEF TypeOK, Components
<1>2. QED
  BY <1>1, NoObjectType DEF Owned, Objects

LEMMA TemplateHashType == TypeOK => TemplateHash \in Hash
<1> SUFFICES ASSUME TypeOK PROVE TemplateHash \in Hash
  OBVIOUS
<1>1. /\ "config" \in Object /\ "sign" \in Object /\ "tls" \in Object
  BY DEF Object, Cert, Workload
<1>2. /\ seen["config"] \in Objects /\ NoObject \in Objects
      /\ seen["sign"].serial \in Serials \cup {0}
      /\ seen["tls"].serial \in Serials \cup {0}
  BY <1>1, NoObjectType DEF TypeOK, Objects
<1>3. \A x \in Objects : /\ x.content \in Settings \cup {Unset}
                        /\ x.password \in Nat
  BY DEF Objects
<1>4. QED BY <1>2, <1>3 DEF TemplateHash, Hash

\* A write that leaves an object o behind, owned by a component that the
\* reconciler has read.
Writes(o, object) ==
  /\ o \in Object /\ object \in Objects
  /\ object.exists /\ object.owner <= mem.uid
  /\ Put(o, object)

\* The outcomes of a write by a pipeline.
LEMMA WriteOutcome ==
  ASSUME TypeOK, plan # <<>>, pc = "pipeline",
         NEW o \in Object, NEW accepted \in BOOLEAN, NEW object,
         accepted => /\ object \in Objects /\ object.exists
                     /\ object.owner <= mem.uid,
         Write(o, accepted, object)
  PROVE  /\ pc' \in {"pipeline", "failPipeline"}
         /\ plan' \in Seq(Step) /\ troubles' \in Nat
         /\ UNCHANGED outside \/ Writes(o, object)
<1>1. plan \in Seq(Step) /\ Tail(plan) \in Seq(Step) /\ troubles \in Nat
  BY DEF TypeOK
<1>2. pc' \in {"pipeline", "failPipeline"} /\ plan' \in {plan, Tail(plan)}
  BY DEF Write, Proceed, StepFails, Goto
<1>3. troubles' \in {troubles, troubles + 1}
  BY DEF Write, Trouble
<1>4. UNCHANGED outside \/ (accepted /\ Put(o, object))
  BY DEF Write, outside
<1>5. QED BY <1>1, <1>2, <1>3, <1>4 DEF Writes

\* Whether it replaces or compares, it writes what was built, or nothing.
LEMMA SaveOutcome ==
  ASSUME TypeOK, plan # <<>>, pc = "pipeline",
         NEW o \in Object, NEW built \in Objects,
         built.exists, built.owner <= mem.uid, Save(o, built)
  PROVE  /\ pc' \in {"pipeline", "failPipeline"}
         /\ plan' \in Seq(Step) /\ troubles' \in Nat
         /\ UNCHANGED outside \/ Writes(o, built)
<1>1. /\ TRUE \in BOOLEAN /\ (~objects[o].exists) \in BOOLEAN
      /\ (o \in seenFresh) \in BOOLEAN
  OBVIOUS
<1>2. \/ plan' = Tail(plan) /\ pc' = pc /\ UNCHANGED <<outside, troubles>>
      \/ \E a \in BOOLEAN : Write(o, a, built)
  BY <1>1 DEF Save, Replace, CreateOrUpdate, Proceed, outside
<1>3. CASE plan' = Tail(plan) /\ pc' = pc /\ UNCHANGED <<outside, troubles>>
  BY <1>3 DEF TypeOK
<1>4. CASE \E a \in BOOLEAN : Write(o, a, built)
  BY <1>4, WriteOutcome
<1>5. QED BY <1>2, <1>3, <1>4

\* A claim keeps its owner as it grows, and grows only if it is there.
LEMMA GrowOutcome ==
  ASSUME TypeOK, OwnedByPast, plan # <<>>, pc = "pipeline", GrowVolumeClaim
  PROVE  /\ pc' \in {"pipeline", "failPipeline"}
         /\ plan' \in Seq(Step) /\ troubles' \in Nat
         /\ UNCHANGED outside \/ \E o, object : Writes(o, object)
<1> DEFINE grown == [objects["pvc"] EXCEPT !.content = mem.spec.storage]
<1>1. "pvc" \in Object
  BY DEF Object
<1>2. /\ objects["pvc"] \in Objects /\ objects["pvc"].owner <= mem.uid
      /\ mem.spec.storage \in Settings \cup {Unset}
  BY <1>1, SpecType DEF TypeOK, Components, OwnedByPast
<1>3. /\ grown \in Objects /\ grown.exists = objects["pvc"].exists
      /\ grown.owner = objects["pvc"].owner
  BY <1>2 DEF Objects
<1>4. PICK a \in BOOLEAN : /\ a => objects["pvc"].exists
                          /\ Write("pvc", a, grown)
  BY DEF GrowVolumeClaim
<1> HIDE DEF grown
<1>5. /\ pc' \in {"pipeline", "failPipeline"}
      /\ plan' \in Seq(Step) /\ troubles' \in Nat
      /\ UNCHANGED outside \/ Writes("pvc", grown)
  BY <1>1, <1>2, <1>3, <1>4, WriteOutcome
<1>6. QED BY <1>5

\* The steps of the pipelines.
Pipeline ==
  \/ SkipStep \/ Enrol \/ StoreCertificate \/ CheckGenesis
  \/ ReconcileConfig \/ ReconcileService \/ ReconcileDeployment
  \/ ReplaceVolumeClaim \/ KeepVolumeClaim \/ WaitForVolume
  \/ ReconcileRoute \/ ReconcileIstio

LEMMA AtSubject ==
  ASSUME NEW steps, At(steps)
  PROVE  /\ pc = "pipeline" /\ plan # <<>>
         /\ \A a, S : steps = {a} \X S => Subject \in S
BY DEF At, Subject

\* Whatever step of a pipeline is taken, it writes one object or none.
LEMMA PipelineEffect ==
  ASSUME TypeOK, FreshIsCurrent, OwnedByPast, Pipeline
  PROVE  /\ UNCHANGED inside
         /\ pc' \in {pc, "failPipeline"} /\ pc \in {"pipeline", "cleanup"}
         /\ plan' \in Seq(Step) /\ troubles' \in Nat
         /\ hand' \in [Cert -> Serials \cup {0}]
         /\ \/ UNCHANGED outside
            \/ pc = "pipeline" /\ \E o, object : Writes(o, object)
<1> USE DEF Goto
<1>0. /\ plan \in Seq(Step) /\ troubles \in Nat /\ mem.uid \in Nat
      /\ hand \in [Cert -> Serials \cup {0}]
      /\ objects \in [Object -> Objects] /\ seen \in [Object -> Objects]
      /\ plan # <<>> => Tail(plan) \in Seq(Step)
      /\ \A o \in Object : objects[o].exists \in BOOLEAN
                             /\ objects[o].bound \in BOOLEAN
  BY DEF TypeOK, Components, Objects
<1>o. /\ Cert \subseteq Object /\ "pvc" \in Object
      /\ Workload \subseteq Object /\ Route \subseteq Object
  BY DEF Object
<1>w. /\ "config" \in Object /\ "service" \in Object
      /\ "deployment" \in Object
  BY <1>o DEF Workload
<1>s. /\ mem.spec.config \in Settings \cup {Unset}
      /\ mem.spec.pods \in Settings \cup {Unset}
      /\ mem.spec.storage \in Settings \cup {Unset}
  BY SpecType DEF TypeOK, Components
<1>u. /\ Owned(Unset) \in Objects /\ Owned(Unset).exists
      /\ Owned(Unset).owner <= mem.uid
  BY <1>0, OwnedType
<1>1. CASE SkipStep \/ CheckGenesis \/ WaitForVolume
  BY <1>0, <1>1
  DEF SkipStep, CheckGenesis, WaitForVolume, At, Proceed, StepFails, outside
<1>2. CASE Enrol
  <2>1. pc = "pipeline" /\ plan # <<>>
    BY <1>2, AtSubject DEF Enrol
  <2>2. /\ UNCHANGED <<inside, outside>> /\ pc' \in {pc, "failPipeline"}
        /\ plan' \in {plan, Tail(plan)}
        /\ troubles' \in {troubles, troubles + 1}
    BY <1>2 DEF Enrol, Proceed, StepFails, Trouble
  <2>3. hand' = hand \/ \E n \in Serials : hand' = [hand EXCEPT ![Subject] = n]
    BY <1>2 DEF Enrol
  <2>4. hand' \in [Cert -> Serials \cup {0}]
    BY <1>0, <2>3
  <2>5. plan' \in Seq(Step) /\ troubles' \in Nat
    <3>1. plan' \in Seq(Step) BY <1>0, <2>1, <2>2
    <3>2. troubles' \in Nat BY <1>0, <2>2
    <3>3. QED BY <3>1, <3>2
  <2>6. UNCHANGED inside /\ UNCHANGED outside
    BY <2>2
  <2>7. QED BY <2>1, <2>2, <2>4, <2>5, <2>6
<1>3. CASE StoreCertificate
  <2> DEFINE c == Subject
  <2>1. pc = "pipeline" /\ plan # <<>> /\ c \in Cert
    BY <1>3, AtSubject DEF StoreCertificate
  <2>2. UNCHANGED <<inside, hand>>
    BY <1>3 DEF StoreCertificate
  <2>3. hand[c] \in Serials \cup {0} /\ c \in Object
    BY <1>0, <1>o, <2>1
  <2>4. CASE hand[c] = 0
    BY <1>0, <1>3, <2>1, <2>2, <2>4 DEF StoreCertificate, Proceed, outside
  <2>5. CASE ~seen[c].exists
            /\ Write(c, ~objects[c].exists,
                     [Owned(Unset) EXCEPT !.serial = hand[c]])
    <3> DEFINE secret == [Owned(Unset) EXCEPT !.serial = hand[c]]
    <3>1. /\ secret \in Objects /\ secret.exists /\ secret.owner = mem.uid
      BY <2>3, OwnedType
    <3>2. \E a \in BOOLEAN : Write(c, a, secret)
      BY <2>5
    <3> HIDE DEF secret, c
    <3>3. /\ pc' \in {"pipeline", "failPipeline"}
          /\ plan' \in Seq(Step) /\ troubles' \in Nat
          /\ UNCHANGED outside \/ Writes(c, secret)
      BY <1>0, <2>1, <2>3, <3>1, <3>2, WriteOutcome
    <3>4. UNCHANGED outside \/ \E o, object : Writes(o, object)
      BY <3>3
    <3>5. UNCHANGED inside /\ hand' \in [Cert -> Serials \cup {0}]
      BY <1>0, <2>2
    <3>6. QED BY <2>1, <3>3, <3>4, <3>5
  <2>6. CASE seen[c].exists
            /\ Write(c, c \in seenFresh, [objects[c] EXCEPT !.serial = hand[c]])
    <3>1. c \in seenFresh => objects[c].exists
      BY <2>6 DEF FreshIsCurrent
    <3>2. /\ [objects[c] EXCEPT !.serial = hand[c]] \in Objects
          /\ [objects[c] EXCEPT !.serial = hand[c]].exists = objects[c].exists
          /\ [objects[c] EXCEPT !.serial = hand[c]].owner = objects[c].owner
      BY <1>0, <2>3 DEF Objects
    <3>3. objects[c].owner <= mem.uid
      BY <2>3 DEF OwnedByPast
    <3>4. (c \in seenFresh) \in BOOLEAN
      OBVIOUS
    <3>5. QED
      BY <1>0, <2>1, <2>2, <2>3, <2>6, <3>1, <3>2, <3>3, <3>4, WriteOutcome
  <2>7. QED BY <1>3, <2>4, <2>5, <2>6 DEF StoreCertificate
<1>4. CASE ReconcileConfig
  <2>1. pc = "pipeline" /\ plan # <<>> /\ UNCHANGED <<inside, hand>>
    BY <1>4, AtSubject DEF ReconcileConfig
  <2>2. CASE StepFails /\ UNCHANGED <<objects, seen, seenFresh, troubles>>
    BY <1>0, <2>1, <2>2 DEF StepFails, outside
  <2>3. ASSUME NEW p \in Nat,
               Save("config", [Owned(mem.spec.config) EXCEPT !.password = p])
        PROVE  /\ pc' \in {"pipeline", "failPipeline"}
               /\ plan' \in Seq(Step) /\ troubles' \in Nat
               /\ UNCHANGED outside \/ \E o, object : Writes(o, object)
    <3> DEFINE built == [Owned(mem.spec.config) EXCEPT !.password = p]
    <3>1. built \in Objects /\ built.exists /\ built.owner <= mem.uid
      BY <1>0, <1>s, OwnedType
    <3>2. Save("config", built)
      BY <2>3
    <3> HIDE DEF built
    <3>3. QED BY <1>w, <2>1, <3>1, <3>2, SaveOutcome
  <2>4. given.password \in Nat /\ 0 \in Nat
    BY DEF TypeOK
  <2>5. \/ StepFails /\ UNCHANGED <<objects, seen, seenFresh, troubles>>
        \/ \E p \in Nat :
             Save("config", [Owned(mem.spec.config) EXCEPT !.password = p])
    BY <1>4, <2>4 DEF ReconcileConfig
  <2>6. QED BY <1>0, <2>1, <2>2, <2>3, <2>5
<1>5. CASE ReconcileService
  <2>1. pc = "pipeline" /\ plan # <<>> /\ UNCHANGED <<inside, hand>>
    BY <1>5, AtSubject DEF ReconcileService
  <2>2. Save("service", Owned(Unset))
    BY <1>5 DEF ReconcileService
  <2>3. QED BY <1>0, <1>u, <1>w, <2>1, <2>2, SaveOutcome
<1>6. CASE ReconcileDeployment
  <2> DEFINE built == [Owned(mem.spec.pods) EXCEPT !.hash = TemplateHash]
  <2>1. pc = "pipeline" /\ plan # <<>> /\ UNCHANGED <<inside, hand>>
    BY <1>6, AtSubject DEF ReconcileDeployment
  <2>2. built \in Objects /\ built.exists /\ built.owner <= mem.uid
    BY <1>0, <1>s, OwnedType, TemplateHashType
  <2>3. \/ StepFails /\ UNCHANGED <<objects, seen, seenFresh, troubles>>
        \/ Save("deployment", built)
    BY <1>6 DEF ReconcileDeployment
  <2> HIDE DEF built
  <2>4. CASE StepFails /\ UNCHANGED <<objects, seen, seenFresh, troubles>>
    BY <1>0, <2>1, <2>4 DEF StepFails, outside
  <2>5. CASE Save("deployment", built)
    BY <1>0, <1>w, <2>1, <2>2, <2>5, SaveOutcome
  <2>6. QED BY <2>3, <2>4, <2>5
<1>7. CASE ReplaceVolumeClaim \/ KeepVolumeClaim
  <2> DEFINE claim == Owned(mem.spec.storage)
  <2>1. pc = "pipeline" /\ plan # <<>> /\ UNCHANGED <<inside, hand>>
    BY <1>7, AtSubject DEF ReplaceVolumeClaim, KeepVolumeClaim
  <2>2. claim \in Objects /\ claim.exists /\ claim.owner <= mem.uid
    BY <1>0, <1>s, OwnedType
  <2>3. \/ plan' = Tail(plan) /\ pc' = pc /\ UNCHANGED <<outside, troubles>>
        \/ GrowVolumeClaim
        \/ \E a \in BOOLEAN : Write("pvc", a, claim)
    <3>1. /\ (~objects["pvc"].exists) \in BOOLEAN
          /\ (objects["pvc"].exists
                => /\ ~objects["pvc"].bound
                   /\ objects["pvc"].content = mem.spec.storage) \in BOOLEAN
      OBVIOUS
    <3>2. QED
      BY <1>7, <3>1 DEF ReplaceVolumeClaim, KeepVolumeClaim, Proceed, outside
  <2> HIDE DEF claim
  <2>4. CASE GrowVolumeClaim
    BY <1>0, <2>1, <2>4, GrowOutcome
  <2>5. CASE \E a \in BOOLEAN : Write("pvc", a, claim)
    BY <1>0, <1>o, <2>1, <2>2, <2>5, WriteOutcome
  <2>6. QED BY <1>0, <2>1, <2>3, <2>4, <2>5
<1>8. CASE ReconcileRoute
  <2> DEFINE o == Subject
  <2>1. /\ pc = "pipeline" /\ plan # <<>> /\ UNCHANGED <<inside, hand>>
        /\ o \in Object
    <3>1. o \in Route \ Istio
      BY <1>8, AtSubject DEF ReconcileRoute
    <3>2. QED BY <1>8, <1>o, <3>1, AtSubject DEF ReconcileRoute
  <2>2. \/ Write(o, ~objects[o].exists, Owned(Unset))
        \/ seen[o].exists /\ Write(o, o \in seenFresh, objects[o])
    BY <1>8 DEF ReconcileRoute
  <2>3. o \in seenFresh /\ seen[o].exists => objects[o].exists
    BY DEF FreshIsCurrent
  <2>4. objects[o] \in Objects /\ objects[o].owner <= mem.uid
    BY <1>0, <2>1 DEF OwnedByPast
  <2>5. /\ (o \in seenFresh) \in BOOLEAN
        /\ (~objects[o].exists) \in BOOLEAN
    OBVIOUS
  <2> HIDE DEF o
  <2>6. QED BY <1>0, <1>u, <2>1, <2>2, <2>3, <2>4, <2>5, WriteOutcome
<1>9. CASE ReconcileIstio
  <2>1. /\ pc = "pipeline" /\ plan # <<>> /\ UNCHANGED <<inside, hand>>
        /\ Write(Subject, TRUE, Owned(Unset))
    BY <1>9, AtSubject DEF ReconcileIstio
  <2>2. Subject \in Istio
    BY <1>9, AtSubject DEF ReconcileIstio
  <2>3. Subject \in Object
    BY <1>o, <2>2 DEF Route
  <2>4. QED BY <1>0, <1>u, <2>1, <2>3, WriteOutcome
<1>10. QED
  BY <1>1, <1>2, <1>3, <1>4, <1>5, <1>6, <1>7, <1>8, <1>9 DEF Pipeline

-----------------------------------------------------------------------------
(* Types                                                                    *)

\* A write of an object, whichever it is.
LEMMA PutEffect ==
  ASSUME TypeOK, FreshIsCurrent, NEW o, NEW object \in Objects, Put(o, object)
  PROVE  /\ objects' \in [Object -> Objects] /\ seen' \in [Object -> Objects]
         /\ seenFresh' \subseteq Object
         /\ \A d \in Object : objects'[d] = IF d = o THEN object ELSE objects[d]
         /\ \A d \in seenFresh' : seen'[d] = objects'[d]
<1>1. /\ objects \in [Object -> Objects] /\ seen \in [Object -> Objects]
      /\ seenFresh \subseteq Object
      /\ \A d \in seenFresh : seen[d] = objects[d]
  BY DEF TypeOK, FreshIsCurrent
<1>2. /\ objects' = [objects EXCEPT ![o] = object]
      /\ \/ object = objects[o] /\ seen' = seen /\ seenFresh' = seenFresh
         \/ seen' = seen /\ seenFresh' = seenFresh \ {o}
         \/ seen' = [seen EXCEPT ![o] = object] /\ seenFresh' = seenFresh
  BY DEF Put
<1>3. \A d \in Object : objects'[d] = IF d = o THEN object ELSE objects[d]
  BY <1>1, <1>2
<1>4. \A d \in seenFresh' : seen'[d] = objects'[d]
  BY <1>1, <1>2, <1>3
<1>5. QED BY <1>1, <1>2, <1>3, <1>4

\* The outcomes of a write by the reconciler.
LEMMA AnswerType ==
  ASSUME TypeOK, NEW m \in Components, NEW k,
         Accepted(m) \/ (Refused(k, m) /\ UNCHANGED mem)
  PROVE  /\ res' \in Components /\ mem' \in Components
         /\ fresh' \subseteq {"cache", "mem"} /\ troubles' \in Nat
<1>1. res \in Components /\ mem \in Components /\ troubles \in Nat
  BY DEF TypeOK
<1>2. fresh \subseteq {"cache", "mem"}
  BY DEF TypeOK
<1>3. troubles' \in Nat
  BY <1>1 DEF Accepted, Refused, Trouble
<1>4. res' \in Components /\ mem' \in Components
  BY <1>1 DEF Accepted, Refused, Written
<1>5. fresh' \in {fresh, {}, {"mem"}}
  BY DEF Accepted, Refused, Written
<1>6. QED BY <1>2, <1>3, <1>4, <1>5

\* The outcomes of a status write.
LEMMA UpdateStatusType ==
  ASSUME TypeOK, NEW st \in Statuses, UpdateStatus(st)
  PROVE  /\ res' \in Components /\ mem' \in Components
         /\ fresh' \subseteq {"cache", "mem"} /\ troubles' \in Nat
<1> DEFINE reported == [res EXCEPT !.status = st]
<1>1. /\ res \in Components /\ mem \in Components /\ troubles \in Nat
      /\ fresh \subseteq {"cache", "mem"}
  BY DEF TypeOK
<1>2. reported \in Components /\ [mem EXCEPT !.status = st] \in Components
  BY <1>1 DEF Components
<1>3. \/ Accepted(reported)
      \/ mem' = res /\ UNCHANGED <<res, fresh, troubles>>
      \/ Refused("status", reported) /\ mem' = [mem EXCEPT !.status = st]
  BY DEF UpdateStatus
<1> HIDE DEF reported
<1>4. CASE Accepted(reported)
  BY <1>2, <1>4, AnswerType
<1>5. CASE mem' = res /\ UNCHANGED <<res, fresh, troubles>>
  BY <1>1, <1>5
<1>6. CASE Refused("status", reported) /\ mem' = [mem EXCEPT !.status = st]
  <2>1. troubles' \in Nat BY <1>1, <1>6 DEF Refused, Trouble
  <2>2. res' \in Components BY <1>1, <1>2, <1>6 DEF Refused, Written
  <2>3. fresh' \in {fresh, {}} BY <1>6 DEF Refused, Written
  <2>4. QED BY <1>1, <1>2, <1>6, <2>1, <2>2, <2>3
<1>7. QED BY <1>3, <1>4, <1>5, <1>6

LEMMA NoComponentType ==
  /\ NoComponent \in Components
  /\ ~NoComponent.exists /\ ~NoComponent.fin /\ ~NoComponent.deleting
  /\ NoComponent.uid = 0
<1>1. (CHOOSE s \in Specs : TRUE) \in Specs
  BY ComponentAssumption
<1>2. QED BY <1>1 DEF NoComponent, Components, Statuses

LEMMA InitType == Init => TypeOK
<1> SUFFICES ASSUME Init PROVE TypeOK
  OBVIOUS
<1>1. Nothing \in [Object -> Objects]
  BY NoObjectType DEF Nothing
<1>2. NoHand \in [Cert -> Serials \cup {0}]
  BY DEF NoHand
<1>3. <<>> \in Seq(Step)
  OBVIOUS
<1>4. QED
  BY <1>1, <1>2, <1>3, NoComponentType DEF Init, TypeOK, PCs

\* A cleanup removes one object or none.
LEMMA CleanupEffect ==
  ASSUME TypeOK, CleanupObject
  PROVE  /\ pc = "cleanup" /\ pc' = pc /\ UNCHANGED <<inside, hand>>
         /\ plan' \in Seq(Step) /\ troubles' \in Nat
         /\ UNCHANGED outside \/ Put(Subject, NoObject)
<1>1. /\ plan # <<>> /\ plan \in Seq(Step) /\ Tail(plan) \in Seq(Step)
      /\ <<>> \in Seq(Step) /\ troubles \in Nat
  BY DEF TypeOK, CleanupObject
<1>2. plan' \in {Tail(plan), <<>>} /\ troubles' \in {troubles, troubles + 1}
  BY DEF CleanupObject, Trouble
<1>3. UNCHANGED outside \/ Put(Subject, NoObject)
  BY DEF CleanupObject, Remove
<1>4. pc = "cleanup" /\ pc' = pc /\ UNCHANGED <<inside, hand>>
  BY DEF CleanupObject
<1>5. plan' \in Seq(Step)
  BY <1>1, <1>2
<1>6. troubles' \in Nat
  BY <1>1, <1>2
<1>7. QED BY <1>3, <1>4, <1>5, <1>6

LEMMA NextType ==
  TypeOK /\ FreshIsCurrent /\ OwnedByPast /\ [Next]_vars => TypeOK'
<1> SUFFICES ASSUME TypeOK, FreshIsCurrent, OwnedByPast, [Next]_vars
             PROVE  TypeOK'
  OBVIOUS
<1> USE DEF Goto, frame, outside, inside
<1>0. /\ res \in Components /\ mem \in Components /\ cache \in Components
      /\ fresh \subseteq {"cache", "mem"} /\ troubles \in Nat
      /\ res.uid \in Nat /\ kind \in Orderers \cup Committers
      /\ objects \in [Object -> Objects] /\ seen \in [Object -> Objects]
      /\ seenFresh \subseteq Object
      /\ NoHand \in [Cert -> Serials \cup {0}] /\ <<>> \in Seq(Step)
  BY ComponentAssumption DEF TypeOK, Components, NoHand
<1>s. \A st \in {"Pending", "Running", "Failed"} : st \in Statuses
  BY DEF Statuses
<1>1. ASSUME NEW s \in Specs, CreateComponent(s) PROVE TypeOK'
  <2>1. res.uid + 1 \in Nat
    BY <1>0
  <2>2. res' \in Components
    BY <1>1, <2>1, NoComponentType DEF CreateComponent, Written, Components
  <2>3. QED BY <1>0, <1>1, <2>2 DEF CreateComponent, Written, Trouble, TypeOK
<1>2. ASSUME NEW s \in Specs, EditSpec(s) PROVE TypeOK'
  <2>1. res' \in Components
    BY <1>0, <1>2 DEF EditSpec, Written, Components
  <2>2. QED BY <1>0, <1>2, <2>1 DEF EditSpec, Written, Trouble, TypeOK
<1>3. CASE DeleteComponent
  <2>1. res' \in Components
    BY <1>0, <1>3 DEF DeleteComponent, Written, Components
  <2>2. QED BY <1>3, <2>1 DEF DeleteComponent, Written, TypeOK
<1>4. CASE CacheSync
  BY <1>4 DEF CacheSync, TypeOK
<1>5. CASE StartReconcile
  <2>1. pc' \in PCs
    BY <1>5 DEF StartReconcile, PCs
  <2>2. fresh' \subseteq {"cache", "mem"}
    BY <1>5 DEF StartReconcile, Read
  <2>3. QED BY <1>0, <1>5, <2>1, <2>2 DEF StartReconcile, Read, TypeOK
<1>6. CASE InitialiseStatus
  BY <1>6, <1>s, UpdateStatusType DEF InitialiseStatus, TypeOK, PCs
<1>7. CASE EnsureFinalizer
  <2> DEFINE guarded == [res EXCEPT !.fin = TRUE]
  <2>1. guarded \in Components BY <1>0 DEF Components
  <2>2. \/ UNCHANGED <<res, mem, fresh, troubles>>
        \/ Accepted(guarded) \/ (Refused("object", guarded) /\ UNCHANGED mem)
    BY <1>7 DEF EnsureFinalizer
  <2>3. /\ res' \in Components /\ mem' \in Components
        /\ fresh' \subseteq {"cache", "mem"} /\ troubles' \in Nat
    <3> HIDE DEF guarded
    <3>1. QED BY <1>0, <2>1, <2>2, AnswerType
  <2>4. pc' \in PCs BY <1>7 DEF EnsureFinalizer, PCs
  <2>5. QED BY <1>7, <2>3, <2>4 DEF EnsureFinalizer, TypeOK
<1>8. CASE SelectMode
  <2>1. plan' \in {<<>>, ConfigurePlan(kind), DeployPlan(kind)}
    BY <1>8 DEF SelectMode
  <2>2. plan' \in Seq(Step)
    BY <1>0, <2>1, PlanType
  <2>3. QED BY <1>8, <2>2 DEF SelectMode, TypeOK, PCs
<1>9. CASE Pipeline
  <2>1. objects' \in [Object -> Objects] /\ seen' \in [Object -> Objects]
          /\ seenFresh' \subseteq Object
    BY <1>0, <1>9, PipelineEffect, PutEffect DEF Writes
  <2>2. /\ UNCHANGED inside /\ pc' \in {pc, "failPipeline"}
        /\ plan' \in Seq(Step) /\ troubles' \in Nat
        /\ hand' \in [Cert -> Serials \cup {0}]
    BY <1>9, PipelineEffect
  <2>3. QED BY <2>1, <2>2 DEF TypeOK, PCs
<1>10. CASE PipelineDone
  BY <1>10 DEF PipelineDone, TypeOK, PCs
<1>11. CASE MarkRunning
  <2>1. /\ res' \in Components /\ mem' \in Components
        /\ fresh' \subseteq {"cache", "mem"} /\ troubles' \in Nat
    BY <1>11, <1>s, UpdateStatusType DEF MarkRunning
  <2>2. QED BY <1>0, <1>11, <2>1 DEF MarkRunning, TypeOK, PCs
<1>12. CASE MarkFailed
  <2>1. /\ res' \in Components /\ mem' \in Components
        /\ fresh' \subseteq {"cache", "mem"} /\ troubles' \in Nat
    BY <1>12, <1>s, UpdateStatusType DEF MarkFailed
  <2>2. QED BY <1>0, <1>12, <2>1 DEF MarkFailed, TypeOK, PCs
<1>13. CASE MarkDeleting
  <2>1. /\ res' \in Components /\ mem' \in Components
        /\ fresh' \subseteq {"cache", "mem"} /\ troubles' \in Nat
    BY <1>13, <1>s, UpdateStatusType DEF MarkDeleting
  <2>2. plan' \in Seq(Step)
    BY <1>0, <1>13, PlanType DEF MarkDeleting
  <2>3. QED BY <1>0, <1>13, <2>1, <2>2 DEF MarkDeleting, TypeOK, PCs
<1>14. CASE CleanupObject
  <2>1. objects' \in [Object -> Objects] /\ seen' \in [Object -> Objects]
          /\ seenFresh' \subseteq Object
    BY <1>0, <1>14, CleanupEffect, PutEffect, NoObjectType
  <2>2. QED BY <1>14, <2>1, CleanupEffect DEF TypeOK
<1>15. CASE CleanupDone
  BY <1>15 DEF CleanupDone, TypeOK, PCs
<1>16. CASE RemoveFinalizer
  <2> DEFINE released == [res EXCEPT !.fin = FALSE, !.exists = ~res.deleting]
  <2>1. released \in Components BY <1>0 DEF Components
  <2>2. Accepted(released) \/ (Refused("object", released) /\ UNCHANGED mem)
    BY <1>16 DEF RemoveFinalizer
  <2>3. /\ res' \in Components /\ mem' \in Components
        /\ fresh' \subseteq {"cache", "mem"} /\ troubles' \in Nat
    <3> HIDE DEF released
    <3>1. QED BY <1>0, <2>1, <2>2, AnswerType
  <2>4. QED BY <1>16, <2>3 DEF RemoveFinalizer, TypeOK, PCs
<1>17. ASSUME NEW o \in Object, ObjectSync(o) PROVE TypeOK'
  BY <1>0, <1>17 DEF ObjectSync, TypeOK
<1>18. ASSUME NEW o \in Object, Touch(o) PROVE TypeOK'
  BY <1>0, <1>18 DEF Touch, Trouble, TypeOK
<1>19. ASSUME NEW o \in Object, GarbageCollect(o) PROVE TypeOK'
  <2>1. objects' \in [Object -> Objects] /\ seen' \in [Object -> Objects]
          /\ seenFresh' \subseteq Object
    BY <1>19, PutEffect, NoObjectType DEF GarbageCollect, Remove
  <2>2. QED BY <1>19, <2>1 DEF GarbageCollect, TypeOK
<1>20. CASE BindVolume
  <2>1. [objects["pvc"] EXCEPT !.bound = TRUE] \in Objects
    <3>1. "pvc" \in Object BY DEF Object
    <3>2. objects["pvc"] \in Objects BY <1>0, <3>1
    <3>3. QED BY <3>2 DEF Objects
  <2>2. Put("pvc", [objects["pvc"] EXCEPT !.bound = TRUE])
    BY <1>20 DEF BindVolume
  <2>3. objects' \in [Object -> Objects] /\ seen' \in [Object -> Objects]
          /\ seenFresh' \subseteq Object
    BY <2>1, <2>2, PutEffect
  <2>4. QED BY <1>20, <2>3 DEF BindVolume, TypeOK
<1>21. CASE StoreGenesis \/ StorePassword \/ RotatePassword
  <2>0. /\ [given EXCEPT !.genesis = TRUE] \in [genesis : BOOLEAN, password : Nat]
        /\ [given EXCEPT !.password = 1] \in [genesis : BOOLEAN, password : Nat]
        /\ [given EXCEPT !.password = 2] \in [genesis : BOOLEAN, password : Nat]
    BY DEF TypeOK
  <2>1. given' \in [genesis : BOOLEAN, password : Nat]
    BY <1>21, <2>0 DEF StoreGenesis, StorePassword, RotatePassword, Give
  <2>2. troubles' \in Nat
    BY <1>0, <1>21 DEF StoreGenesis, StorePassword, RotatePassword, Trouble
  <2>3. QED
    BY <1>21, <2>1, <2>2
    DEF StoreGenesis, StorePassword, RotatePassword, Give, TypeOK
<1>22. CASE OperatorCrash
  <2>1. res.exists \in BOOLEAN BY <1>0 DEF Components
  <2>2. QED BY <1>0, <1>22, <2>1 DEF OperatorCrash, Trouble, TypeOK, PCs
<1>23. CASE UNCHANGED vars
  BY <1>23 DEF vars, TypeOK
<1>24. CASE RecoverOrderer
  BY <1>0, <1>24 DEF RecoverOrderer, Panics, TypeOK, PCs
<1>25. CASE RecoverCommitter
  <2>1. mem' = cache /\ fresh' \subseteq {"cache", "mem"}
    BY <1>25 DEF RecoverCommitter, Read
  <2>2. QED BY <1>0, <1>25, <2>1 DEF RecoverCommitter, Panics, TypeOK, PCs
<1>26. CASE MarkPanicked
  <2>1. /\ res' \in Components /\ mem' \in Components
        /\ fresh' \subseteq {"cache", "mem"} /\ troubles' \in Nat
    BY <1>26, <1>s, UpdateStatusType DEF MarkPanicked
  <2>2. QED BY <1>0, <1>26, <2>1 DEF MarkPanicked, TypeOK, PCs
<1>27. QED
  BY <1>1, <1>2, <1>3, <1>4, <1>5, <1>6, <1>7, <1>8, <1>9, <1>10, <1>11,
     <1>12, <1>13, <1>14, <1>15, <1>16, <1>17, <1>18, <1>19, <1>20, <1>21,
     <1>22, <1>23, <1>24, <1>25, <1>26
  DEF Next, User, Reconciler, Environment, Pipeline

-----------------------------------------------------------------------------
(* The inductive invariant                                                  *)

LEMMA InitInv == Init => Base
<1> SUFFICES ASSUME Init PROVE Base
  OBVIOUS
<1>1. TypeOK BY InitType
<1>2. FreshIsCurrent
  <2>1. mem = [res EXCEPT !.status = mem.status]
    BY NoComponentType DEF Init, Components
  <2>2. QED BY <2>1 DEF Init, FreshIsCurrent
<1>3. Guarded BY NoComponentType DEF Init, Guarded
<1>4. DeletionSeen BY NoComponentType DEF Init, DeletionSeen
<1>5. OwnedByPast
  BY NoComponentType, NoObjectType DEF Init, Nothing, OwnedByPast
<1>6. QED BY <1>1, <1>2, <1>3, <1>4, <1>5 DEF Base

\* What a status write does to the fields the invariant is about.
LEMMA StatusEffect ==
  ASSUME TypeOK, FreshIsCurrent, NEW st \in Statuses, UpdateStatus(st)
  PROVE  /\ \A f \in {"exists", "uid", "spec", "fin", "deleting"} :
              res'[f] = res[f] /\ mem'[f] = mem[f]
         /\ \/ res' = res /\ fresh' = fresh
            \/ fresh' \subseteq {"mem"}
         /\ "mem" \in fresh' => mem' = [res' EXCEPT !.status = mem'.status]
<1> DEFINE reported == [res EXCEPT !.status = st]
<1>1. res \in Components /\ mem \in Components
  BY DEF TypeOK
<1>2. CASE Accepted(reported)
  <2>1. mem = [res EXCEPT !.status = mem.status]
    BY <1>2 DEF Accepted, Current, FreshIsCurrent
  <2>2. res' = reported /\ mem' = reported /\ fresh' = {"mem"}
    BY <1>2 DEF Accepted
  <2>3. QED BY <1>1, <2>1, <2>2 DEF Components
<1>3. CASE Current /\ mem' = res /\ UNCHANGED <<res, fresh, troubles>>
  <2>1. mem = [res EXCEPT !.status = mem.status]
    BY <1>3 DEF Current, FreshIsCurrent
  <2>2. QED BY <1>1, <1>3, <2>1 DEF Components
<1>4. CASE Refused("status", reported) /\ mem' = [mem EXCEPT !.status = st]
  <2>1. \/ UNCHANGED <<res, fresh>>
        \/ res' = reported /\ fresh' = {}
    BY <1>4 DEF Refused, Written
  <2>2. "mem" \in fresh => mem = [res EXCEPT !.status = mem.status]
    BY DEF FreshIsCurrent
  <2>3. QED BY <1>1, <1>4, <2>1, <2>2 DEF Components
<1>5. QED BY <1>2, <1>3, <1>4 DEF UpdateStatus

\* A status write, with the other variables the invariant is about unchanged.
LEMMA StatusStep ==
  ASSUME Base, TypeOK', NEW st \in Statuses, UpdateStatus(st),
         UNCHANGED <<cache, outside>>,
         \/ pc' \in {"idle", "cleanup"} /\ (pc' = "cleanup" => pc = "deleting")
         \/ pc' = "finalizer" /\ pc = "init"
  PROVE  Base'
<1>1. TypeOK /\ FreshIsCurrent /\ Guarded /\ DeletionSeen /\ OwnedByPast
  BY DEF Base
<1>2. /\ res'.exists = res.exists /\ res'.uid = res.uid /\ res'.fin = res.fin
      /\ res'.deleting = res.deleting
      /\ mem'.exists = mem.exists /\ mem'.uid = mem.uid /\ mem'.fin = mem.fin
      /\ mem'.deleting = mem.deleting
  BY <1>1, StatusEffect
<1>3. UNCHANGED <<objects, seen, seenFresh>>
  BY DEF outside
<1>4. FreshIsCurrent'
  BY <1>1, <1>3, StatusEffect DEF FreshIsCurrent
<1>5. Guarded'
  BY <1>1, <1>2 DEF Guarded, Held
<1>6. DeletionSeen'
  BY <1>1, <1>2 DEF DeletionSeen
<1>7. OwnedByPast'
  BY <1>1, <1>2, <1>3 DEF OwnedByPast
<1>8. QED BY <1>4, <1>5, <1>6, <1>7 DEF Base

\* A step that leaves the component and its copies alone, and writes at most
\* one object, with an owner that the reconciler has read.
LEMMA ObjectStep ==
  ASSUME Base, TypeOK', UNCHANGED <<res, cache, mem, fresh>>,
         \/ UNCHANGED outside
         \/ \E o, object : /\ object \in Objects /\ object.owner <= mem.uid
                           /\ Put(o, object),
         \/ pc' = pc
         \/ pc = "pipeline" /\ pc' \in {"failPipeline", "running",
                                        "recovered"}
         \/ pc = "cleanup" /\ pc' \in {"failPipeline", "removal"}
         \/ pc = "mode" /\ pc' \in {"failPipeline", "pipeline"}
  PROVE  Base'
<1>1. TypeOK /\ FreshIsCurrent /\ Guarded /\ DeletionSeen /\ OwnedByPast
  BY DEF Base
<1>2. Guarded'
  BY <1>1 DEF Guarded, Held
<1>3. DeletionSeen'
  BY <1>1 DEF DeletionSeen
<1>4. CASE UNCHANGED outside
  <2>1. FreshIsCurrent' /\ OwnedByPast'
    BY <1>1, <1>4 DEF outside, FreshIsCurrent, OwnedByPast
  <2>2. QED BY <1>2, <1>3, <2>1 DEF Base
<1>5. ASSUME NEW o, NEW object \in Objects, object.owner <= mem.uid,
             Put(o, object)
      PROVE  Base'
  <2>1. /\ \A d \in Object : objects'[d] = IF d = o THEN object ELSE objects[d]
        /\ \A d \in seenFresh' : seen'[d] = objects'[d]
    BY <1>1, <1>5, PutEffect
  <2>2. FreshIsCurrent'
    BY <1>1, <2>1 DEF FreshIsCurrent
  <2>3. OwnedByPast'
    BY <1>1, <1>5, <2>1 DEF OwnedByPast
  <2>4. QED BY <1>2, <1>3, <2>2, <2>3 DEF Base
<1>6. QED BY <1>4, <1>5

LEMMA InductiveStep == Base /\ [Next]_vars => Base'
<1> SUFFICES ASSUME Base, [Next]_vars PROVE Base'
  OBVIOUS
<1> USE DEF Goto
<1>0. TypeOK /\ FreshIsCurrent /\ Guarded /\ DeletionSeen /\ OwnedByPast
  BY DEF Base
<1>t. TypeOK' BY <1>0, NextType
<1>n. /\ res \in Components /\ mem \in Components /\ cache \in Components
      /\ res.uid \in Nat /\ mem.uid \in Nat /\ cache.uid \in Nat
      /\ objects \in [Object -> Objects]
      /\ \A o \in Object : objects[o].owner \in Nat
      /\ NoObject \in Objects /\ NoObject.owner <= mem.uid
  BY <1>0, NoObjectType DEF TypeOK, Components, Objects
<1>s. \A st \in {"Pending", "Running", "Failed"} : st \in Statuses
  BY DEF Statuses
<1>1. ASSUME NEW s \in Specs, CreateComponent(s) PROVE Base'
  <2>1. /\ res'.exists /\ res'.uid = res.uid + 1 /\ ~res'.fin
        /\ ~res'.deleting
    BY <1>1, NoComponentType DEF CreateComponent, Written, Components
  <2>2. /\ ~res.exists /\ fresh' = {}
        /\ UNCHANGED <<cache, mem, pc, objects, seen, seenFresh>>
    BY <1>1 DEF CreateComponent, Written, frame, outside
  <2>3. FreshIsCurrent' BY <1>0, <2>2 DEF FreshIsCurrent
  <2>4. Guarded' BY <1>0, <2>1, <2>2 DEF Guarded, Held
  <2>5. DeletionSeen' BY <1>0, <1>n, <2>1, <2>2 DEF DeletionSeen, OwnedByPast
  <2>6. OwnedByPast' BY <1>0, <1>n, <2>1, <2>2 DEF OwnedByPast
  <2>7. QED BY <1>t, <2>3, <2>4, <2>5, <2>6 DEF Base
<1>2. ASSUME NEW s \in Specs, EditSpec(s) PROVE Base'
  <2>1. /\ res'.exists = res.exists /\ res'.uid = res.uid
        /\ res'.fin = res.fin /\ res'.deleting = res.deleting
    BY <1>2, <1>n DEF EditSpec, Written, Components
  <2>2. fresh' = {} /\ UNCHANGED <<cache, mem, pc, objects, seen, seenFresh>>
    BY <1>2 DEF EditSpec, Written, frame, outside
  <2>3. FreshIsCurrent' BY <1>0, <2>2 DEF FreshIsCurrent
  <2>4. Guarded' BY <1>0, <2>1, <2>2 DEF Guarded, Held
  <2>5. DeletionSeen' BY <1>0, <2>1, <2>2 DEF DeletionSeen
  <2>6. OwnedByPast' BY <1>0, <2>1, <2>2 DEF OwnedByPast
  <2>7. QED BY <1>t, <2>3, <2>4, <2>5, <2>6 DEF Base
<1>3. CASE DeleteComponent
  <2>1. /\ res'.uid = res.uid
        /\ res.fin => res'.exists /\ res'.fin /\ res'.deleting
        /\ ~res.fin => ~res'.exists /\ ~res'.fin
    BY <1>3, <1>n DEF DeleteComponent, Written, Components
  <2>2. /\ res.exists /\ ~res.deleting /\ fresh' = {}
        /\ UNCHANGED <<cache, mem, pc, objects, seen, seenFresh>>
    BY <1>3 DEF DeleteComponent, Written, frame, outside
  <2>3. FreshIsCurrent' BY <1>0, <2>2 DEF FreshIsCurrent
  <2>4. Guarded' BY <1>0, <2>1, <2>2 DEF Guarded, Held
  <2>5. DeletionSeen' BY <1>0, <2>1, <2>2 DEF DeletionSeen
  <2>6. OwnedByPast' BY <1>0, <2>1, <2>2 DEF OwnedByPast
  <2>7. QED BY <1>t, <2>3, <2>4, <2>5, <2>6 DEF Base
<1>4. CASE CacheSync
  <2>1. /\ cache' = res /\ fresh' = fresh \cup {"cache"}
        /\ UNCHANGED <<res, mem, pc, objects, seen, seenFresh>>
    BY <1>4 DEF CacheSync, outside
  <2>2. FreshIsCurrent' BY <1>0, <2>1 DEF FreshIsCurrent
  <2>3. Guarded' BY <1>0, <2>1 DEF Guarded, Held
  <2>4. DeletionSeen' BY <1>0, <1>n, <2>1 DEF DeletionSeen
  <2>5. OwnedByPast' BY <1>0, <1>n, <2>1 DEF OwnedByPast
  <2>6. QED BY <1>t, <2>2, <2>3, <2>4, <2>5 DEF Base
<1>5. CASE StartReconcile
  <2>1. /\ pc = "idle" /\ mem' = cache
        /\ fresh' = IF "cache" \in fresh THEN {"cache", "mem"} ELSE {}
        /\ UNCHANGED <<res, cache, objects, seen, seenFresh>>
    BY <1>5 DEF StartReconcile, Read, frame, outside
  <2>2. /\ ~cache.exists => pc' = "idle"
        /\ cache.exists /\ cache.deleting => pc' = "deleting"
        /\ cache.exists /\ ~cache.deleting => pc' \in {"init", "finalizer"}
    BY <1>5 DEF StartReconcile
  <2>3. FreshIsCurrent'
    <3>1. cache = [cache EXCEPT !.status = cache.status] BY <1>n DEF Components
    <3>2. QED BY <1>0, <2>1, <3>1 DEF FreshIsCurrent
  <2>4. Guarded' BY <1>0, <2>1, <2>2 DEF Guarded, Held
  <2>5. DeletionSeen' BY <1>0, <1>n, <2>1, <2>2 DEF DeletionSeen
  <2>6. OwnedByPast' BY <1>0, <1>n, <2>1 DEF OwnedByPast
  <2>7. QED BY <1>t, <2>3, <2>4, <2>5, <2>6 DEF Base
<1>6. CASE InitialiseStatus
  BY <1>6, <1>t, <1>s, StatusStep DEF InitialiseStatus, frame
<1>7. CASE EnsureFinalizer
  <2> DEFINE guarded == [res EXCEPT !.fin = TRUE]
  <2>1. /\ pc = "finalizer" /\ UNCHANGED <<cache, objects, seen, seenFresh>>
        /\ \/ mem.fin /\ pc' = "mode" /\ UNCHANGED <<res, mem, fresh>>
           \/ /\ Current /\ pc' = "mode" /\ fresh' = {"mem"}
              /\ res' = guarded /\ mem' = guarded
           \/ pc' = "failFinalizer" /\ UNCHANGED <<res, mem, fresh>>
           \/ /\ Current /\ pc' = "failFinalizer" /\ UNCHANGED mem
              /\ res' = guarded /\ fresh' = {}
    BY <1>7 DEF EnsureFinalizer, Accepted, Refused, Written, frame, outside
  <2>2. /\ guarded.exists = res.exists /\ guarded.uid = res.uid
        /\ guarded.fin /\ guarded.deleting = res.deleting
        /\ guarded = [guarded EXCEPT !.status = guarded.status]
    BY <1>n DEF Components
  <2>3. Current => /\ res.exists /\ res.uid = mem.uid
                   /\ res.deleting = mem.deleting
    BY <1>0, <1>n DEF Current, FreshIsCurrent, Components
  <2> HIDE DEF guarded
  <2>4. FreshIsCurrent' BY <1>0, <2>1, <2>2 DEF FreshIsCurrent
  <2>5. Guarded' BY <1>0, <2>1, <2>2, <2>3 DEF Guarded, Held
  <2>6. DeletionSeen' BY <1>0, <2>1, <2>2, <2>3 DEF DeletionSeen
  <2>7. OwnedByPast' BY <1>0, <2>1, <2>2, <2>3 DEF OwnedByPast
  <2>8. QED BY <1>t, <2>4, <2>5, <2>6, <2>7 DEF Base
<1>8. CASE SelectMode
  BY <1>8, <1>t, ObjectStep DEF SelectMode, frame
<1>9. CASE Pipeline
  <2>1. /\ UNCHANGED <<res, cache, mem, fresh>>
        /\ pc' \in {pc, "failPipeline"} /\ pc \in {"pipeline", "cleanup"}
    BY <1>0, <1>9, PipelineEffect DEF inside, frame
  <2>2. \/ UNCHANGED outside
        \/ \E o, object : /\ object \in Objects /\ object.owner <= mem.uid
                          /\ Put(o, object)
    BY <1>0, <1>9, PipelineEffect DEF Writes
  <2>3. QED BY <1>t, <2>1, <2>2, ObjectStep
<1>10. CASE PipelineDone
  BY <1>10, <1>t, ObjectStep DEF PipelineDone, inside, frame
<1>11. CASE MarkRunning
  BY <1>11, <1>t, <1>s, StatusStep DEF MarkRunning, frame
<1>12. CASE MarkFailed
  BY <1>12, <1>t, <1>s, StatusStep DEF MarkFailed, frame
<1>13. CASE MarkDeleting
  BY <1>13, <1>t, <1>s, StatusStep DEF MarkDeleting, frame
<1>14. CASE CleanupObject
  <2>1. /\ UNCHANGED <<res, cache, mem, fresh, pc>>
        /\ UNCHANGED outside \/ Put(Subject, NoObject)
    BY <1>0, <1>14, CleanupEffect DEF inside, frame
  <2>2. QED BY <1>n, <1>t, <2>1, ObjectStep
<1>15. CASE CleanupDone
  BY <1>15, <1>t, ObjectStep DEF CleanupDone, inside, frame
<1>16. CASE RemoveFinalizer
  <2> DEFINE released == [res EXCEPT !.fin = FALSE, !.exists = ~res.deleting]
  <2>1. /\ pc = "removal" /\ UNCHANGED <<cache, objects, seen, seenFresh>>
        /\ \/ /\ Current /\ pc' = "idle" /\ fresh' = {"mem"}
              /\ res' = released /\ mem' = released
           \/ pc' = "failDeletion" /\ UNCHANGED <<res, mem, fresh>>
           \/ /\ Current /\ pc' = "failDeletion" /\ UNCHANGED mem
              /\ res' = released /\ fresh' = {}
    BY <1>16 DEF RemoveFinalizer, Accepted, Refused, Written, frame, outside
  <2>2. /\ released.exists = ~res.deleting /\ released.uid = res.uid
        /\ ~released.fin /\ released.deleting = res.deleting
        /\ released = [released EXCEPT !.status = released.status]
    BY <1>n DEF Components
  <2>3. Current => res.exists /\ res.uid = mem.uid /\ res.deleting
    BY <1>0, <1>n, <2>1 DEF Current, FreshIsCurrent, DeletionSeen, Components
  <2> HIDE DEF released
  <2>4. FreshIsCurrent' BY <1>0, <2>1, <2>2 DEF FreshIsCurrent
  <2>5. Guarded'
    BY <1>0, <2>1, <2>2, <2>3 DEF Guarded, Held, DeletionSeen
  <2>6. DeletionSeen' BY <1>0, <1>n, <2>1, <2>2, <2>3 DEF DeletionSeen
  <2>7. OwnedByPast' BY <1>0, <2>1, <2>2, <2>3 DEF OwnedByPast
  <2>8. QED BY <1>t, <2>4, <2>5, <2>6, <2>7 DEF Base
<1>17. ASSUME NEW o \in Object, ObjectSync(o) PROVE Base'
  <2>1. /\ UNCHANGED <<res, cache, mem, fresh, pc, objects>>
        /\ seenFresh' = seenFresh \cup {o}
        /\ seen' = [seen EXCEPT ![o] = objects[o]]
    BY <1>17 DEF ObjectSync, frame
  <2>2. FreshIsCurrent'
    BY <1>0, <2>1 DEF FreshIsCurrent, TypeOK
  <2>3. Guarded' /\ DeletionSeen' /\ OwnedByPast'
    BY <1>0, <2>1 DEF Guarded, Held, DeletionSeen, OwnedByPast
  <2>4. QED BY <1>t, <2>2, <2>3 DEF Base
<1>18. ASSUME NEW o \in Object, Touch(o) PROVE Base'
  <2>1. /\ UNCHANGED <<res, cache, mem, fresh, pc, objects, seen>>
        /\ seenFresh' = seenFresh \ {o}
    BY <1>18 DEF Touch, inside, frame
  <2>2. FreshIsCurrent'
    BY <1>0, <2>1 DEF FreshIsCurrent
  <2>3. Guarded' /\ DeletionSeen' /\ OwnedByPast'
    BY <1>0, <2>1 DEF Guarded, Held, DeletionSeen, OwnedByPast
  <2>4. QED BY <1>t, <2>2, <2>3 DEF Base
<1>19. ASSUME NEW o \in Object, GarbageCollect(o) PROVE Base'
  BY <1>19, <1>n, <1>t, ObjectStep DEF GarbageCollect, Remove, inside, frame
<1>20. CASE BindVolume
  <2>1. /\ [objects["pvc"] EXCEPT !.bound = TRUE] \in Objects
        /\ [objects["pvc"] EXCEPT !.bound = TRUE].owner <= mem.uid
    <3>1. "pvc" \in Object BY DEF Object
    <3>2. objects["pvc"] \in Objects /\ objects["pvc"].owner <= mem.uid
      BY <1>0, <1>n, <3>1 DEF OwnedByPast
    <3>3. QED BY <3>2 DEF Objects
  <2>2. QED BY <1>20, <1>t, <2>1, ObjectStep DEF BindVolume, inside, frame
<1>21. CASE StoreGenesis \/ StorePassword \/ RotatePassword
  BY <1>21, <1>t, ObjectStep
  DEF StoreGenesis, StorePassword, RotatePassword, Give, frame
<1>22. CASE OperatorCrash
  <2>1. /\ pc' = "idle" /\ cache' = res /\ fresh' = {"cache"}
        /\ seen' = objects /\ UNCHANGED <<res, mem, objects>>
    BY <1>22 DEF OperatorCrash
  <2>2. FreshIsCurrent' BY <2>1 DEF FreshIsCurrent
  <2>3. Guarded' BY <1>0, <2>1 DEF Guarded, Held
  <2>4. DeletionSeen' BY <1>0, <1>n, <2>1 DEF DeletionSeen
  <2>5. OwnedByPast' BY <1>0, <1>n, <2>1 DEF OwnedByPast
  <2>6. QED BY <1>t, <2>2, <2>3, <2>4, <2>5 DEF Base
<1>23. CASE UNCHANGED vars
  BY <1>23, <1>t, ObjectStep DEF vars, outside
<1>24. CASE RecoverOrderer
  BY <1>24, <1>t, ObjectStep DEF RecoverOrderer, Panics, frame
<1>25. CASE RecoverCommitter
  <2>1. /\ mem' = cache /\ pc' \in {"recovered", "idle"}
        /\ fresh' = IF "cache" \in fresh THEN {"cache", "mem"} ELSE {}
        /\ UNCHANGED <<res, cache, objects, seen, seenFresh>>
    BY <1>25 DEF RecoverCommitter, Read, frame, outside
  <2>2. FreshIsCurrent'
    <3>1. cache = [cache EXCEPT !.status = cache.status] BY <1>n DEF Components
    <3>2. QED BY <1>0, <2>1, <3>1 DEF FreshIsCurrent
  <2>3. Guarded' BY <1>0, <2>1 DEF Guarded, Held
  <2>4. DeletionSeen' BY <1>0, <2>1 DEF DeletionSeen
  <2>5. OwnedByPast' BY <1>0, <1>n, <2>1 DEF OwnedByPast
  <2>6. QED BY <1>t, <2>2, <2>3, <2>4, <2>5 DEF Base
<1>26. CASE MarkPanicked
  BY <1>26, <1>t, <1>s, StatusStep DEF MarkPanicked, frame
<1>27. QED
  BY <1>1, <1>2, <1>3, <1>4, <1>5, <1>6, <1>7, <1>8, <1>9, <1>10, <1>11,
     <1>12, <1>13, <1>14, <1>15, <1>16, <1>17, <1>18, <1>19, <1>20, <1>21,
     <1>22, <1>23, <1>24, <1>25, <1>26
  DEF Next, User, Reconciler, Environment, Pipeline

\* Late as a reconcile's reads may be, they are enough to know that the
\* finalizer holds the component while its objects are written, and that
\* what a cleanup removes by name belongs to no later component.
LEMMA BaseInvariance == Spec => []Base
BY InitInv, InductiveStep, PTL DEF Spec

-----------------------------------------------------------------------------
(* Objects come and go                                                      *)

\* Every other step leaves all objects as they are.
LEMMA QuietSteps ==
  ASSUME [Next]_vars
  PROVE  \/ Pipeline \/ CleanupObject \/ BindVolume
         \/ \E o \in Object : GarbageCollect(o)
         \/ UNCHANGED objects
BY DEF Next, User, Reconciler, Environment, Pipeline, vars, outside, inside,
       frame, CreateComponent, EditSpec, DeleteComponent, CacheSync,
       StartReconcile, InitialiseStatus, EnsureFinalizer, SelectMode,
       PipelineDone, MarkRunning, MarkFailed, MarkDeleting, CleanupDone,
       RemoveFinalizer, RecoverOrderer, RecoverCommitter, MarkPanicked,
       ObjectSync, Touch, StoreGenesis, StorePassword, RotatePassword, Give,
       OperatorCrash

LEMMA BindEffect ==
  ASSUME TypeOK, FreshIsCurrent, BindVolume
  PROVE  \A d \in Object : objects'[d].exists = objects[d].exists
<1>1. "pvc" \in Object
  BY DEF Object
<1>2. /\ [objects["pvc"] EXCEPT !.bound = TRUE] \in Objects
      /\ [objects["pvc"] EXCEPT !.bound = TRUE].exists = objects["pvc"].exists
  <2>1. objects["pvc"] \in Objects BY <1>1 DEF TypeOK
  <2>2. QED BY <2>1 DEF Objects
<1>3. Put("pvc", [objects["pvc"] EXCEPT !.bound = TRUE])
  BY DEF BindVolume
<1>4. QED BY <1>2, <1>3, PutEffect

\* No step removes what belongs to a component that is not being deleted:
\* what the cleanup of an earlier one removes has an owner that the
\* reconciler has read.
THEOREM LiveObjectsRemain == Spec => LiveObjectsStay
<1>1. Base /\ [Next]_vars =>
        [\A o \in Object :
           /\ objects[o].exists /\ ~objects'[o].exists
           /\ res.exists /\ objects[o].owner = res.uid
           => res.deleting]_vars
  <2> SUFFICES ASSUME Base, [Next]_vars, NEW o \in Object,
                      objects[o].exists, ~objects'[o].exists,
                      res.exists, objects[o].owner = res.uid
               PROVE  res.deleting
    OBVIOUS
  <2>t. /\ TypeOK /\ FreshIsCurrent /\ DeletionSeen /\ OwnedByPast
        /\ res.uid \in Nat /\ mem.uid \in Nat /\ cache.uid \in Nat
        /\ NoObject \in Objects
    BY NoObjectType DEF Base, TypeOK, Components
  <2>1. ~Pipeline
    <3> SUFFICES ASSUME Pipeline PROVE FALSE
      OBVIOUS
    <3>1. UNCHANGED objects \/ \E d, object : Writes(d, object)
      BY <2>t, PipelineEffect DEF outside
    <3>2. \A d, object : Writes(d, object) => objects'[o].exists
      BY <2>t, PutEffect DEF Writes
    <3>3. QED BY <3>1, <3>2
  <2>2. ~BindVolume
    BY <2>t, BindEffect
  <2>3. CASE CleanupObject
    <3>1. pc = "cleanup" /\ objects[o].owner <= mem.uid
      BY <2>3, <2>t, CleanupEffect DEF OwnedByPast
    <3>2. res.uid = mem.uid
      BY <2>t, <3>1 DEF OwnedByPast
    <3>3. QED BY <2>t, <3>1, <3>2 DEF DeletionSeen
  <2>4. ASSUME NEW d \in Object, GarbageCollect(d) PROVE FALSE
    <3>1. \A e \in Object : objects'[e] = IF e = d THEN NoObject ELSE objects[e]
      BY <2>4, <2>t, PutEffect DEF GarbageCollect, Remove
    <3>2. o = d
      BY <3>1
    <3>3. QED BY <2>4, <3>2 DEF GarbageCollect
  <2>5. QED BY <2>1, <2>2, <2>3, <2>4, QuietSteps
<1>2. QED BY <1>1, BaseInvariance, PTL DEF Spec, LiveObjectsStay

-----------------------------------------------------------------------------
(* Certificates keep their keys                                             *)

\* The only writes that matter to c are those of c.
Apart(c) ==
  \/ UNCHANGED outside
  \/ \E o, object : o # c /\ Put(o, object)

LEMMA ApartEffect ==
  ASSUME TypeOK, NEW c \in Cert, Apart(c)
  PROVE  objects'[c] = objects[c] /\ seen'[c] = seen[c]
<1>1. /\ objects \in [Object -> Objects] /\ seen \in [Object -> Objects]
      /\ c \in Object
  BY DEF TypeOK, Object
<1>2. CASE UNCHANGED outside
  BY <1>2 DEF outside
<1>3. ASSUME NEW o, NEW object, o # c, Put(o, object)
      PROVE  objects'[c] = objects[c] /\ seen'[c] = seen[c]
  <2>1. /\ objects' = [objects EXCEPT ![o] = object]
        /\ seen' = seen \/ seen' = [seen EXCEPT ![o] = object]
    BY <1>3 DEF Put
  <2>2. QED BY <1>1, <1>3, <2>1
<1>4. QED BY <1>2, <1>3 DEF Apart

LEMMA WriteApart ==
  ASSUME NEW c, NEW o, o # c, NEW accepted, NEW object,
         Write(o, accepted, object)
  PROVE  Apart(c)
BY DEF Write, Apart, outside

LEMMA SaveApart ==
  ASSUME NEW c, NEW o, o # c, NEW built, Save(o, built)
  PROVE  Apart(c)
<1>1. \/ UNCHANGED outside
      \/ \E accepted : Write(o, accepted, built)
  BY DEF Save, Replace, CreateOrUpdate, outside
<1>2. QED BY <1>1, WriteApart DEF Apart

\* A pipeline enrols what the cache does not show, and stores what it has in
\* hand: a settled certificate is neither.
LEMMA PipelineSettled ==
  ASSUME TypeOK, NEW c \in Cert, Settled(c), Pipeline
  PROVE  hand'[c] = 0 /\ Apart(c)
<1>1. /\ hand \in [Cert -> Serials \cup {0}] /\ hand[c] = 0 /\ seen[c].exists
      /\ c \notin Workload /\ c \notin Route /\ c # "pvc"
  BY DEF TypeOK, Settled, Cert, Workload, Route, Istio
<1>2. CASE SkipStep \/ CheckGenesis \/ WaitForVolume
  BY <1>1, <1>2 DEF SkipStep, CheckGenesis, WaitForVolume, Apart
<1>3. CASE Enrol
  <2>1. UNCHANGED outside
    BY <1>3 DEF Enrol
  <2>2. hand' = hand \/ Subject # c
    BY <1>1, <1>3 DEF Enrol
  <2>3. hand' = hand \/ \E n : hand' = [hand EXCEPT ![Subject] = n]
    BY <1>3 DEF Enrol
  <2>4. QED BY <1>1, <2>1, <2>2, <2>3 DEF Apart
<1>4. CASE StoreCertificate
  <2>1. hand' = hand
    BY <1>4 DEF StoreCertificate
  <2>2. UNCHANGED outside \/ Subject # c
    BY <1>1, <1>4 DEF StoreCertificate, outside
  <2>3. UNCHANGED outside \/ \E a, object : Write(Subject, a, object)
    BY <1>4 DEF StoreCertificate, outside
  <2>4. QED BY <1>1, <2>1, <2>2, <2>3, WriteApart DEF Apart
<1>5. CASE ReconcileConfig \/ ReconcileService \/ ReconcileDeployment
  <2>1. hand' = hand
    BY <1>5 DEF ReconcileConfig, ReconcileService, ReconcileDeployment
  <2>2. \/ UNCHANGED outside
        \/ \E o \in Workload : \E built : Save(o, built)
    <3>1. {"config", "service", "deployment"} \subseteq Workload
      BY DEF Workload
    <3>2. QED
      BY <1>5, <3>1
      DEF ReconcileConfig, ReconcileService, ReconcileDeployment, outside
  <2>3. QED BY <1>1, <2>1, <2>2, SaveApart DEF Apart
<1>6. CASE ReplaceVolumeClaim \/ KeepVolumeClaim
  <2>1. hand' = hand
    BY <1>6 DEF ReplaceVolumeClaim, KeepVolumeClaim
  <2>2. UNCHANGED outside \/ \E a, object : Write("pvc", a, object)
    BY <1>6 DEF ReplaceVolumeClaim, KeepVolumeClaim, GrowVolumeClaim, outside
  <2>3. QED BY <1>1, <2>1, <2>2, WriteApart DEF Apart
<1>7. CASE ReconcileRoute \/ ReconcileIstio
  <2>1. hand' = hand
    BY <1>7 DEF ReconcileRoute, ReconcileIstio
  <2>2. Subject \in Route
    <3>1. CASE ReconcileRoute
      BY <3>1, AtSubject DEF ReconcileRoute
    <3>2. CASE ReconcileIstio
      BY <3>2, AtSubject DEF ReconcileIstio, Route
    <3>3. QED BY <1>7, <3>1, <3>2
  <2>3. \E a, object : Write(Subject, a, object)
    BY <1>7 DEF ReconcileRoute, ReconcileIstio
  <2>4. QED BY <1>1, <2>1, <2>2, <2>3, WriteApart
<1>8. QED BY <1>2, <1>3, <1>4, <1>5, <1>6, <1>7 DEF Pipeline

\* What remains: no certificate is enrolled, and no object written.
LEMMA RestSettled ==
  ASSUME [Next]_vars
  PROVE  \/ Pipeline \/ CleanupObject
         \/ BindVolume \/ \E o \in Object : GarbageCollect(o)
         \/ hand' \in {hand, NoHand} /\ UNCHANGED outside
         \/ UNCHANGED <<hand, objects>>
              /\ \E o \in Object : seen' = [seen EXCEPT ![o] = objects[o]]
         \/ UNCHANGED <<hand, objects, seen>>
         \/ hand' = NoHand /\ UNCHANGED objects /\ seen' = objects
<1>1. CASE User \/ CacheSync \/ UNCHANGED vars
  BY <1>1 DEF User, CreateComponent, EditSpec, DeleteComponent, CacheSync,
              vars, outside
<1>2. CASE Reconciler /\ ~Pipeline /\ ~CleanupObject
  <2>1. \/ StartReconcile \/ InitialiseStatus \/ EnsureFinalizer
        \/ SelectMode \/ PipelineDone \/ MarkRunning \/ MarkFailed
        \/ RecoverOrderer \/ RecoverCommitter \/ MarkPanicked
        \/ MarkDeleting \/ CleanupDone \/ RemoveFinalizer
    BY <1>2 DEF Reconciler, Pipeline
  <2>2. CASE \/ StartReconcile \/ InitialiseStatus \/ EnsureFinalizer
             \/ SelectMode \/ PipelineDone \/ CleanupDone \/ MarkDeleting
             \/ RemoveFinalizer
    BY <2>2 DEF StartReconcile, InitialiseStatus, EnsureFinalizer, SelectMode,
                PipelineDone, CleanupDone, MarkDeleting, RemoveFinalizer,
                inside, outside
  <2>3. CASE \/ MarkRunning \/ MarkFailed \/ MarkPanicked
             \/ RecoverOrderer \/ RecoverCommitter
    BY <2>3 DEF MarkRunning, MarkFailed, MarkPanicked, RecoverOrderer,
                RecoverCommitter, Panics, outside
  <2>4. QED BY <2>1, <2>2, <2>3
<1>3. CASE Environment
  BY <1>3 DEF Environment, ObjectSync, Touch, StoreGenesis, StorePassword,
              RotatePassword, Give, inside, outside
<1>4. CASE OperatorCrash
  BY <1>4 DEF OperatorCrash
<1>5. QED BY <1>1, <1>2, <1>3, <1>4 DEF Next

\* Once the cache shows a certificate, it keeps its key for as long as its
\* secret exists.
THEOREM CertificatesRemain == Spec => CertificatesStay
<1>1. Base /\ [Next]_vars =>
        [\A c \in Cert :
           Settled(c) /\ objects'[c].exists
           => Settled(c)' /\ objects'[c].serial = objects[c].serial]_vars
  <2> SUFFICES ASSUME Base, [Next]_vars, NEW c \in Cert,
                      Settled(c), objects'[c].exists
               PROVE  Settled(c)' /\ objects'[c].serial = objects[c].serial
    OBVIOUS
  <2>t. /\ TypeOK /\ hand[c] = 0 /\ NoHand[c] = 0
        /\ objects[c].exists /\ seen[c].exists
        /\ seen[c].serial = objects[c].serial
        /\ objects \in [Object -> Objects] /\ seen \in [Object -> Objects]
        /\ c \in Object /\ c # "pvc" /\ ~NoObject.exists
    BY DEF Base, TypeOK, Settled, NoHand, Object, Cert, NoObject
  <2>a. ASSUME hand'[c] = 0, Apart(c)
        PROVE  Settled(c)' /\ objects'[c].serial = objects[c].serial
    BY <2>a, <2>t, ApartEffect DEF Settled
  <2>1. CASE Pipeline
    BY <2>1, <2>t, <2>a, PipelineSettled
  \* An object removed is another, as c exists after the step.
  <2>r. ASSUME NEW o, Put(o, NoObject), hand' = hand PROVE Apart(c)
    <3>1. o # c
      BY <2>r, <2>t DEF Put
    <3>2. QED BY <2>r, <3>1 DEF Apart
  <2>2. CASE CleanupObject
    <3>1. hand' = hand /\ (UNCHANGED outside \/ Put(Subject, NoObject))
      BY <2>2, <2>t, CleanupEffect
    <3>2. QED BY <3>1, <2>t, <2>a, <2>r DEF Apart
  <2>3. CASE \E o \in Object : GarbageCollect(o)
    BY <2>3, <2>t, <2>a, <2>r DEF GarbageCollect, Remove
  <2>4. CASE BindVolume
    BY <2>4, <2>t, <2>a DEF BindVolume, Apart
  <2>5. CASE hand' \in {hand, NoHand} /\ UNCHANGED outside
    BY <2>5, <2>t, <2>a DEF Apart
  <2>6. CASE UNCHANGED <<hand, objects>>
               /\ \E o \in Object : seen' = [seen EXCEPT ![o] = objects[o]]
    BY <2>6, <2>t DEF Settled
  <2>7. CASE UNCHANGED <<hand, objects, seen>>
    BY <2>7, <2>t DEF Settled
  <2>8. CASE hand' = NoHand /\ UNCHANGED objects /\ seen' = objects
    BY <2>8, <2>t DEF Settled
  <2>9. QED
    BY <2>1, <2>2, <2>3, <2>4, <2>5, <2>6, <2>7, <2>8, RestSettled
<1>2. QED BY <1>1, BaseInvariance, PTL DEF Spec, CertificatesStay

-----------------------------------------------------------------------------
(* The finalizer protocol                                                   *)

\* A status write is invisible to the protocol.
LEMMA StatusPhase ==
  ASSUME TypeOK, FreshIsCurrent, NEW st \in Statuses, UpdateStatus(st)
  PROVE  Phase' = Phase
<1>1. res'.exists = res.exists /\ res'.fin = res.fin
        /\ res'.deleting = res.deleting
  BY StatusEffect
<1>2. QED BY <1>1 DEF Phase

\* Whichever of the nine it is, the controller implements the finalizer
\* protocol: no object comes into being for a component that the finalizer
\* does not hold.
THEOREM ImplementsFinalizerProtocol == Spec => FollowsFinalizerProtocol
<1> DEFINE deps == {o \in Object : objects[o].exists}
<1>1. Init => Protocol!Init
  <2> SUFFICES ASSUME Init PROVE Phase = "absent" /\ deps = {}
    BY DEF Protocol!Init
  <2>1. ~res.exists BY NoComponentType DEF Init
  <2>2. \A o \in Object : ~objects[o].exists
    BY NoObjectType DEF Init, Nothing
  <2>3. QED BY <2>1, <2>2 DEF Phase
<1>2. Base /\ [Next]_vars => [Protocol!Next]_(Protocol!vars)
  <2> SUFFICES ASSUME Base, [Next]_vars
               PROVE  Protocol!Next \/ (Phase' = Phase /\ deps' = deps)
    BY DEF Protocol!vars
  <2> USE DEF Goto, outside, frame
  <2>t. /\ TypeOK /\ FreshIsCurrent /\ Guarded /\ DeletionSeen /\ OwnedByPast
        /\ res \in Components /\ mem \in Components
        /\ objects \in [Object -> Objects]
        /\ NoObject \in Objects /\ ~NoObject.exists
    BY NoObjectType DEF Base, TypeOK
  <2>s. \A st \in {"Pending", "Running", "Failed"} : st \in Statuses
    BY DEF Statuses
  <2>r. ASSUME NEW o, Put(o, NoObject), UNCHANGED res
        PROVE  Protocol!Next \/ (Phase' = Phase /\ deps' = deps)
    <3>1. \A d \in Object : objects'[d] = IF d = o THEN NoObject ELSE objects[d]
      BY <2>t, <2>r, PutEffect
    <3>2. Phase' = Phase BY <2>r DEF Phase
    <3>3. deps' = deps \ {o} BY <2>t, <3>1
    <3>4. CASE o \in deps
      BY <3>2, <3>3, <3>4 DEF Protocol!Next, Protocol!Reclaim
    <3>5. CASE o \notin deps
      BY <3>2, <3>3, <3>5
    <3>6. QED BY <3>4, <3>5
  <2>1. ASSUME NEW s \in Specs, CreateComponent(s) PROVE Protocol!Create
    <3>1. ~res.exists /\ res'.exists /\ ~res'.fin
      BY <2>1, NoComponentType DEF CreateComponent, Written, Components
    <3>2. deps' = deps BY <2>1 DEF CreateComponent
    <3>3. QED BY <3>1, <3>2 DEF Phase, Protocol!Create, Protocol!Become
  <2>2. ASSUME NEW s \in Specs, EditSpec(s) PROVE Phase' = Phase /\ deps' = deps
    BY <2>2, <2>t DEF EditSpec, Written, Phase, Components
  <2>3. CASE DeleteComponent
    <3>1. CASE res.fin
      BY <2>3, <2>t, <3>1
      DEF DeleteComponent, Written, Phase, Components, Protocol!Next,
          Protocol!Terminate, Protocol!Become
    <3>2. CASE ~res.fin
      BY <2>3, <2>t, <3>2
      DEF DeleteComponent, Written, Phase, Components, Protocol!Next,
          Protocol!Abandon, Protocol!Become
    <3>3. QED BY <3>1, <3>2
  <2>4. CASE UNCHANGED <<res, objects>>
    BY <2>4 DEF Phase
  <2>5. CASE \/ InitialiseStatus \/ MarkRunning \/ MarkFailed \/ MarkDeleting
             \/ MarkPanicked
    BY <2>5, <2>t, <2>s, StatusPhase
    DEF InitialiseStatus, MarkRunning, MarkFailed, MarkDeleting, MarkPanicked
  <2>6. CASE EnsureFinalizer
    <3> DEFINE guarded == [res EXCEPT !.fin = TRUE]
    <3>1. /\ pc = "finalizer" /\ UNCHANGED objects
          /\ \/ UNCHANGED res
             \/ ~mem.fin /\ Current /\ res' = guarded
      BY <2>6 DEF EnsureFinalizer, Accepted, Refused, Written
    <3>2. CASE UNCHANGED res
      BY <2>4, <3>1, <3>2
    <3>3. CASE ~mem.fin /\ Current /\ res' = guarded
      <4>1. res.exists /\ ~res.fin /\ ~res.deleting
        BY <2>t, <3>1, <3>3 DEF Current, FreshIsCurrent, Guarded, Components
      <4>2. res'.exists /\ res'.fin /\ ~res'.deleting
        BY <2>t, <3>3, <4>1 DEF Components
      <4>3. Protocol!Guard
        BY <3>1, <4>1, <4>2 DEF Phase, Protocol!Guard, Protocol!Become
      <4>4. QED BY <4>3 DEF Protocol!Next
    <3>4. QED BY <3>1, <3>2, <3>3
  <2>7. CASE Pipeline
    <3>1. res' = res BY <2>7, <2>t, PipelineEffect DEF inside
    <3>2. CASE UNCHANGED objects
      BY <2>4, <3>1, <3>2
    <3>3. ASSUME pc = "pipeline", NEW o, NEW object, Writes(o, object)
          PROVE  Protocol!Next \/ (Phase' = Phase /\ deps' = deps)
      <4>1. Phase \in {"guarded", "terminating"} /\ Phase' = Phase
        BY <2>t, <3>1, <3>3 DEF Guarded, Held, Phase
      <4>2. /\ o \in Object /\ object.exists
            /\ \A d \in Object :
                 objects'[d] = IF d = o THEN object ELSE objects[d]
        BY <2>t, <3>3, PutEffect DEF Writes
      <4>3. deps' = deps \cup {o}
        BY <4>2
      <4>4. CASE o \in deps
        BY <4>1, <4>3, <4>4
      <4>5. CASE o \notin deps
        BY <4>1, <4>2, <4>3, <4>5 DEF Protocol!Next, Protocol!Produce
      <4>6. QED BY <4>4, <4>5
    <3>4. QED BY <2>7, <2>t, <3>2, <3>3, PipelineEffect
  <2>8. CASE CleanupObject
    <3>1. UNCHANGED res /\ (UNCHANGED objects \/ Put(Subject, NoObject))
      BY <2>8, <2>t, CleanupEffect DEF inside
    <3>2. QED BY <2>4, <2>r, <3>1
  <2>9. CASE RemoveFinalizer
    <3> DEFINE released == [res EXCEPT !.fin = FALSE, !.exists = ~res.deleting]
    <3>1. /\ pc = "removal" /\ UNCHANGED objects
          /\ UNCHANGED res \/ (Current /\ res' = released)
      BY <2>9 DEF RemoveFinalizer, Accepted, Refused, Written
    <3>2. CASE UNCHANGED res
      BY <2>4, <3>1, <3>2
    <3>3. CASE Current /\ res' = released
      <4>1. res.exists /\ res.deleting /\ res.fin
        BY <2>t, <3>1, <3>3 DEF Current, DeletionSeen, Guarded
      <4>2. ~res'.exists
        BY <2>t, <3>3, <4>1 DEF Components
      <4>3. Protocol!Release
        BY <3>1, <4>1, <4>2 DEF Phase, Protocol!Release, Protocol!Become
      <4>4. QED BY <4>3 DEF Protocol!Next
    <3>4. QED BY <3>1, <3>2, <3>3
  <2>10. ASSUME NEW o \in Object, GarbageCollect(o)
         PROVE  Protocol!Next \/ (Phase' = Phase /\ deps' = deps)
    BY <2>10, <2>r DEF GarbageCollect, Remove, inside
  <2>11. CASE BindVolume
    <3>1. deps' = deps BY <2>11, <2>t, BindEffect
    <3>2. Phase' = Phase BY <2>11 DEF BindVolume, inside, Phase
    <3>3. QED BY <3>1, <3>2
  <2>12. QED
    BY <2>1, <2>2, <2>3, <2>4, <2>5, <2>6, <2>7, <2>8, <2>9, <2>10, <2>11
    DEF Next, User, Reconciler, Environment, Pipeline, vars, inside, CacheSync,
        StartReconcile, SelectMode, PipelineDone, CleanupDone, OperatorCrash,
        RecoverOrderer, RecoverCommitter, ObjectSync, Touch, StoreGenesis,
        StorePassword, RotatePassword, Give, Protocol!Next
<1>3. QED
  BY <1>1, <1>2, BaseInvariance, PTL
  DEF Spec, FollowsFinalizerProtocol, Protocol!Spec
=============================================================================
