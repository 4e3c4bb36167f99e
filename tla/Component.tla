------------------------------ MODULE Component ------------------------------
(***************************************************************************)
(* The nine component controllers: consenter, batcher, assembler and       *)
(* router of the orderer, sidecar, coordinator, validator, verifier and    *)
(* query service of the committer.  They share one frame; what sets them   *)
(* apart is in Orderers and Committers.                                    *)
(*                                                                         *)
(* fresh and seenFresh name the copies that are the API server's current   *)
(* version: all that a comparison of resourceVersions can tell.            *)
(***************************************************************************)
EXTENDS Naturals, Orderers, Committers

CONSTANTS
  Kinds,       \* the controllers looked at
  Settings,    \* what a spec can say: of a configuration, of pods, of a size
  Specs,       \* the specs users write
  Chosen,      \* Chosen[k]: which of them for a component of kind k
  Serials,     \* names for issued certificates
  Omitted,     \* Omitted[k]: objects left out: the code has them all
  Lagging,     \* Lagging[k]: the objects whose cached copies may be behind
  Troubles,    \* Troubles[k]: what may go wrong, or get in the way
  MaxTroubles  \* how often in all

\* Calls that fail for no reason of their own; and other people's doings.
Faults == {"object", "status", "write", "enrol", "crash"}
Doings == {"edit", "recreate", "touch", "rotate"}

\* enrolment, genesis, gateway, istio: whether the spec has such a section;
\* sections: the certificates that enrolment speaks of; secure: TLS enabled;
\* postgres: no such section, one with a literal password or none, one that
\* names a secret, one without retries; storage: the size of a claim.
ComponentSpec ==
  [mode : {"", "configure", "deploy"},
   enrolment : BOOLEAN, sections : SUBSET Cert, genesis : BOOLEAN,
   gateway : BOOLEAN, istio : BOOLEAN, secure : BOOLEAN,
   postgres : {"none", "plain", "secret", "bare"},
   storage : Settings \cup {Unset}, config : Settings, pods : Settings]

-----------------------------------------------------------------------------
(* Which controller does what                                               *)

DeployPlan(k) ==
  CASE k = "consenter"    -> consenterDeploys
    [] k = "batcher"      -> batcherDeploys
    [] k = "assembler"    -> assemblerDeploys
    [] k = "router"       -> routerDeploys
    [] k = "sidecar"      -> sidecarDeploys
    [] k = "coordinator"  -> coordinatorDeploys
    [] k = "validator"    -> validatorDeploys
    [] k = "verifier"     -> verifierDeploys
    [] k = "queryservice" -> queryserviceDeploys

ConfigurePlan(k) ==
  CASE k = "consenter"    -> consenterConfigures
    [] k = "batcher"      -> batcherConfigures
    [] k = "assembler"    -> assemblerConfigures
    [] k = "router"       -> routerConfigures
    [] k = "sidecar"      -> sidecarConfigures
    [] k = "coordinator"  -> coordinatorConfigures
    [] k = "validator"    -> validatorConfigures
    [] k = "verifier"     -> verifierConfigures
    [] k = "queryservice" -> queryserviceConfigures

\* Everything else is left to the garbage collector.
DeletePlan(k) ==
  CASE k = "consenter"    -> consenterDeletes
    [] k = "batcher"      -> batcherDeletes
    [] k = "assembler"    -> assemblerDeletes
    [] k = "router"       -> routerDeletes
    [] k = "sidecar"      -> sidecarDeletes
    [] k = "coordinator"  -> coordinatorDeletes
    [] k = "validator"    -> validatorDeletes
    [] k = "verifier"     -> verifierDeletes
    [] k = "queryservice" -> queryserviceDeletes

\* What the hash in the pods' template covers.
Hashed(k) ==
  CASE k = "consenter"    -> consenterHashes
    [] k = "batcher"      -> batcherHashes
    [] k = "assembler"    -> assemblerHashes
    [] k = "router"       -> routerHashes
    [] k = "sidecar"      -> sidecarHashes
    [] k = "coordinator"  -> coordinatorHashes
    [] k = "validator"    -> validatorHashes
    [] k = "verifier"     -> verifierHashes
    [] k = "queryservice" -> queryserviceHashes

Mounts(k) ==
  CASE k = "consenter"    -> consenterMounts
    [] k = "batcher"      -> batcherMounts
    [] k = "assembler"    -> assemblerMounts
    [] k = "router"       -> routerMounts
    [] k = "sidecar"      -> sidecarMounts
    [] k = "coordinator"  -> coordinatorMounts
    [] k = "validator"    -> validatorMounts
    [] k = "verifier"     -> verifierMounts
    [] k = "queryservice" -> queryserviceMounts

Routes(k, s) ==
  CASE k = "consenter" -> consenterRoutes(s)
    [] k = "batcher"   -> batcherRoutes(s)
    [] k = "assembler" -> assemblerRoutes(s)
    [] k = "router"    -> routerRoutes(s)
    [] OTHER           -> {}

Claims(k, s) ==
  CASE k = "consenter" -> consenterClaims(s)
    [] k = "batcher"   -> batcherClaims(s)
    [] k = "assembler" -> assemblerClaims(s)
    [] k = "router"    -> routerClaims(s)
    [] OTHER           -> {}

Reads(k, s) ==
  CASE k = "validator"    -> validatorReads(s)
    [] k = "queryservice" -> queryserviceReads(s)
    [] OTHER              -> {}

\* These two Create, and Update without a resourceVersion what exists; the
\* others compare with the cached copy.
Replacing == {"assembler", "router"}

\* Functions that return at once: what they are for is not in the spec.
Skipped(k, s, step) ==
  \/ step[2] \in Omitted[k]
  \/ step[1] \in {"enrol", "store"} /\ ~s.enrolment
  \/ step[2] = "genesis" /\ ~s.genesis
  \/ step[1] = "write" /\ step[2] \in Route \ Routes(k, s)
  \/ step = <<"delete", "tlsroute">> /\ ~s.gateway
  \/ step[1] \in {"write", "wait"} /\ step[2] = "pvc" /\ Claims(k, s) = {}

\* What a spec leaves out that is dereferenced all the same.
Breaks(k, s, step) ==
  \/ step[1] = "enrol" /\ step[2] \notin s.sections
  \/ step = <<"write", "config">> /\ k = "queryservice"
       /\ queryserviceBreaks(s)
-----------------------------------------------------------------------------

Statuses == {"", "Pending", "Running", "Failed"}

Components ==
  [exists : BOOLEAN, uid : Nat, spec : Specs, status : Statuses,
   fin : BOOLEAN, deleting : BOOLEAN]

\* What a template's hash was computed from.
Hash == [config : Settings \cup {Unset}, password : Nat,
         sign : Serials \cup {0}, tls : Serials \cup {0}]
NoHash == [config |-> Unset, password |-> 0, sign |-> 0, tls |-> 0]

\* owner is the uid in the controller reference. content is what the spec
\* says of a configuration, of pods or of a claim, password the one in a
\* configuration, serial names a certificate and its key, hash is in the
\* template of a deployment, bound in a volume claim.
Objects ==
  [exists : BOOLEAN, owner : Nat, content : Settings \cup {Unset},
   password : Nat, serial : Serials \cup {0}, hash : Hash, bound : BOOLEAN]

NoObject == [exists |-> FALSE, owner |-> 0, content |-> Unset, password |-> 0,
             serial |-> 0, hash |-> NoHash, bound |-> FALSE]

ASSUME ComponentAssumption ==
  /\ Kinds \subseteq Orderers \cup Committers
  /\ Settings \cup {Unset} \subseteq Nat
  /\ Specs \subseteq ComponentSpec /\ Specs # {}
  /\ Serials \subseteq Nat \ {0}
  /\ \A k \in Kinds : /\ Chosen[k] \subseteq Specs
                      /\ Omitted[k] \subseteq Object \ {"config"}
                      /\ Lagging[k] \subseteq Object
                      /\ Troubles[k] \subseteq Faults \cup Doings
  /\ MaxTroubles \in Nat

PCs == {"idle", "init", "finalizer", "mode", "pipeline", "running",
        "failFinalizer", "failPipeline", "recovered",
        "deleting", "cleanup", "removal", "failDeletion"}

VARIABLES
  kind,       \* which controller this is
  res,        \* the component's resource in the API server
  cache,      \* the informer's copy
  mem,        \* the reconciler's copy
  fresh,      \* which of the two copies are current
  queue,      \* TRUE when the work queue holds the key, or will
  pc,         \* where the reconciler is
  plan,       \* the steps left to it
  hand,       \* certificates enrolled and not stored yet
  objects,    \* the component's objects in the API server
  seen,       \* the informers' copies of them
  seenFresh,  \* the objects whose copy is current
  given,      \* what the cache shows of the block and of the password
  troubles    \* how often something has gone wrong, or got in the way

vars == <<kind, res, cache, mem, fresh, queue, pc, plan, hand, objects, seen,
          seenFresh, given, troubles>>

\* The groups that most actions leave alone together.
frame   == <<kind, cache>>
outside == <<objects, seen, seenFresh>>

TypeOK ==
  /\ kind \in Kinds
  /\ res \in Components /\ cache \in Components /\ mem \in Components
  /\ fresh \subseteq {"cache", "mem"}
  /\ queue \in BOOLEAN /\ pc \in PCs
  /\ plan \in Seq(Step)
  /\ hand \in [Cert -> Serials \cup {0}]
  /\ objects \in [Object -> Objects] /\ seen \in [Object -> Objects]
  /\ seenFresh \subseteq Object
  /\ given \in [genesis : BOOLEAN, password : Nat]
  /\ troubles \in Nat

NoComponent ==
  [exists |-> FALSE, uid |-> 0, spec |-> CHOOSE s \in Specs : TRUE,
   status |-> "", fin |-> FALSE, deleting |-> FALSE]

Nothing == [o \in Object |-> NoObject]
NoHand  == [c \in Cert |-> 0]

Init ==
  /\ kind \in Kinds
  /\ res = NoComponent /\ cache = NoComponent /\ mem = NoComponent
  /\ fresh = {"cache", "mem"}
  /\ queue = FALSE /\ pc = "idle" /\ plan = <<>>
  /\ hand = NoHand
  /\ objects = Nothing /\ seen = Nothing /\ seenFresh = Object
  /\ given = [genesis |-> FALSE, password |-> 0]
  /\ troubles = 0

-----------------------------------------------------------------------------
(* Users                                                                    *)

\* A write by someone else: no copy is current any more.
Written(m) == res' = m /\ fresh' = {}

\* The bound that keeps the model finite.
Trouble(k) ==
  k \in Troubles[kind] /\ troubles < MaxTroubles /\ troubles' = troubles + 1

CreateComponent(s) ==
  /\ ~res.exists
  /\ IF res.uid = 0 THEN UNCHANGED troubles ELSE Trouble("recreate")
  /\ Written([NoComponent EXCEPT !.exists = TRUE, !.uid = res.uid + 1,
                                 !.spec = s])
  /\ UNCHANGED <<frame, outside, mem, queue, pc, plan, hand, given>>

EditSpec(s) ==
  /\ res.exists /\ s # res.spec /\ Trouble("edit")
  /\ Written([res EXCEPT !.spec = s])
  /\ UNCHANGED <<frame, outside, mem, queue, pc, plan, hand, given>>

\* The API server only marks an object that still has a finalizer.
DeleteComponent ==
  /\ res.exists /\ ~res.deleting
  /\ Written(IF res.fin THEN [res EXCEPT !.deleting = TRUE]
                        ELSE [res EXCEPT !.exists = FALSE])
  /\ UNCHANGED <<frame, outside, mem, queue, pc, plan, hand, given,
                 troubles>>

-----------------------------------------------------------------------------
(* The informers. Only the component's own events queue it: no Owns().      *)

CacheSync ==
  /\ "cache" \notin fresh
  /\ cache' = res /\ fresh' = fresh \cup {"cache"}
  /\ queue' = TRUE
  /\ UNCHANGED <<outside, kind, res, mem, pc, plan, hand, given,
                 troubles>>

ObjectSync(o) ==
  /\ o \notin seenFresh
  /\ seen' = [seen EXCEPT ![o] = objects[o]]
  /\ seenFresh' = seenFresh \cup {o}
  /\ UNCHANGED <<frame, res, mem, fresh, queue, pc, plan, hand, objects,
                 given, troubles>>

\* A write leaves the cached copy behind, or takes it along where the
\* instance lets no copy lag.
Put(o, object) ==
  /\ objects' = [objects EXCEPT ![o] = object]
  /\ IF object = objects[o]
       THEN UNCHANGED <<seen, seenFresh>>
     ELSE IF o \in Lagging[kind]
       THEN seenFresh' = seenFresh \ {o} /\ UNCHANGED seen
     ELSE seen' = [seen EXCEPT ![o] = object] /\ UNCHANGED seenFresh

Remove(o) == Put(o, NoObject)

-----------------------------------------------------------------------------
(* The API server's answer to the reconciler                                *)

Current == res.exists /\ res.uid = mem.uid /\ "mem" \in fresh

\* An accepted write: the answer is decoded into the reconciler's copy.
Accepted(m) ==
  /\ Current
  /\ res' = m /\ mem' = m /\ fresh' = {"mem"}
  /\ UNCHANGED troubles

\* A write that returns an error: a conflict, a fault before the write, or
\* one after it (the answer is lost).
Refused(k, m) ==
  \/ ~Current /\ UNCHANGED <<res, fresh, troubles>>
  \/ Current /\ Trouble(k) /\ UNCHANGED <<res, fresh>>
  \/ Current /\ Trouble(k) /\ Written(m)

\* update<Component>Status writes every time, with a new condition time of
\* whole seconds; a failed write is logged and forgotten.
UpdateStatus(st) ==
  LET reported == [res EXCEPT !.status = st]
  IN \/ Accepted(reported)
     \/ /\ Current /\ res = reported
        /\ mem' = res /\ UNCHANGED <<res, fresh, troubles>>
     \/ Refused("status", reported) /\ mem' = [mem EXCEPT !.status = st]

-----------------------------------------------------------------------------
(* Reconcile                                                                *)

Goto(next) == pc' = next

Read ==
  /\ mem' = cache
  /\ fresh' = IF "cache" \in fresh THEN {"cache", "mem"} ELSE {}

StartReconcile ==
  /\ pc = "idle" /\ queue
  /\ queue' = FALSE
  /\ Read
  /\ Goto(CASE ~cache.exists -> "idle"
            [] cache.exists /\ cache.deleting -> "deleting"
            [] cache.exists /\ ~cache.deleting /\ cache.status = "" -> "init"
            [] OTHER -> "finalizer")
  /\ UNCHANGED <<frame, outside, res, plan, hand, given, troubles>>

InitialiseStatus ==
  /\ pc = "init"
  /\ UpdateStatus("Pending")
  /\ Goto("finalizer")
  /\ UNCHANGED <<frame, outside, queue, plan, hand, given>>

\* Mutant: a refused finalizer is logged and forgotten, like a status.
EnsureFinalizerIgnoringErrors ==
  /\ pc = "finalizer"
  /\ LET guarded == [res EXCEPT !.fin = TRUE]
     IN \/ mem.fin /\ UNCHANGED <<res, mem, fresh, troubles>>
        \/ ~mem.fin /\ Accepted(guarded)
        \/ ~mem.fin /\ Refused("object", guarded) /\ UNCHANGED mem
  /\ Goto("mode")
  /\ UNCHANGED <<frame, outside, queue, plan, hand, given>>

EnsureFinalizer ==
  /\ pc = "finalizer"
  /\ LET guarded == [res EXCEPT !.fin = TRUE]
     IN \/ /\ mem.fin /\ UNCHANGED <<res, mem, fresh, troubles>>
           /\ Goto("mode")
        \/ ~mem.fin /\ Accepted(guarded) /\ Goto("mode")
        \/ /\ ~mem.fin /\ Refused("object", guarded) /\ UNCHANGED mem
           /\ Goto("failFinalizer")
  /\ UNCHANGED <<frame, outside, queue, plan, hand, given>>

\* reconcile<Component>: the empty mode is refused.
SelectMode ==
  /\ pc = "mode"
  /\ \/ /\ mem.spec.mode = ""
        /\ plan' = <<>> /\ Goto("failPipeline")
     \/ /\ mem.spec.mode = "configure"
        /\ plan' = ConfigurePlan(kind) /\ Goto("pipeline")
     \/ /\ mem.spec.mode = "deploy"
        /\ plan' = DeployPlan(kind) /\ Goto("pipeline")
  /\ UNCHANGED <<frame, outside, res, mem, fresh, queue, hand, given,
                 troubles>>

-----------------------------------------------------------------------------
(* The steps of a pipeline                                                  *)

At(steps) == pc = "pipeline" /\ plan # <<>> /\ Head(plan) \in steps
               /\ ~Skipped(kind, mem.spec, Head(plan))
               /\ ~Breaks(kind, mem.spec, Head(plan))
Proceed   == plan' = Tail(plan) /\ UNCHANGED pc
StepFails == Goto("failPipeline") /\ UNCHANGED plan

Subject == Head(plan)[2]

\* What a step of the pipeline leaves alone.
inside == <<frame, res, mem, fresh, queue, given>>

SkipStep ==
  /\ pc \in {"pipeline", "cleanup"} /\ plan # <<>>
  /\ Skipped(kind, mem.spec, Head(plan))
  /\ Proceed
  /\ UNCHANGED <<inside, outside, hand, troubles>>

\* A write of o that the API server accepts if it may: else it fails. A
\* fault may come before or after it takes effect.
Write(o, accepted, object) ==
  \/ accepted /\ Put(o, object) /\ Proceed /\ UNCHANGED troubles
  \/ /\ ~accepted /\ StepFails
     /\ UNCHANGED <<objects, seen, seenFresh, troubles>>
  \/ /\ Trouble("write") /\ StepFails
     /\ \/ accepted /\ Put(o, object)
        \/ UNCHANGED <<objects, seen, seenFresh>>

\* A serial that nothing mentions any more may be given again.
Mentioned ==
  {hand[c] : c \in Cert} \cup {objects[c].serial : c \in Cert}
    \cup {seen[c].serial : c \in Cert}
    \cup UNION {{h.sign, h.tls} :
                  h \in {objects["deployment"].hash, seen["deployment"].hash}}

NewSerial(n) ==
  /\ n \in Serials \ Mentioned
  /\ \A k \in Serials \ Mentioned : n <= k

\* Mutant: the functions that provision without looking for a secret.
EnrolWhateverIsThere ==
  /\ At({"enrol"} \X Cert)
  /\ \/ /\ \E n \in Serials :
             NewSerial(n) /\ hand' = [hand EXCEPT ![Subject] = n]
        /\ Proceed /\ UNCHANGED troubles
     \/ Trouble("enrol") /\ StepFails /\ UNCHANGED hand
  /\ UNCHANGED <<inside, outside>>

\* CreateSignCertificate, CreateTLSCertificate: nothing to do when the cache
\* shows the secret; a new key and certificate otherwise.
Enrol ==
  /\ At({"enrol"} \X Cert)
  /\ \/ /\ seen[Subject].exists
        /\ Proceed /\ UNCHANGED <<hand, troubles>>
     \/ /\ ~seen[Subject].exists
        /\ \E n \in Serials :
             NewSerial(n) /\ hand' = [hand EXCEPT ![Subject] = n]
        /\ Proceed /\ UNCHANGED troubles
     \/ /\ ~seen[Subject].exists /\ Trouble("enrol")
        /\ StepFails /\ UNCHANGED hand
  /\ UNCHANGED <<inside, outside>>

Owned(content) ==
  [NoObject EXCEPT !.exists = TRUE, !.owner = mem.uid, !.content = content]

\* createCertificateSecrets reads the cache once more; an existing secret
\* gets the new data and keeps its owner.
StoreCertificate ==
  /\ At({"store"} \X Cert)
  /\ LET c == Subject
     IN \/ /\ hand[c] = 0
           /\ Proceed /\ UNCHANGED <<objects, seen, seenFresh, troubles>>
        \/ /\ hand[c] # 0 /\ ~seen[c].exists
           /\ Write(c, ~objects[c].exists,
                    [Owned(Unset) EXCEPT !.serial = hand[c]])
        \/ /\ hand[c] # 0 /\ seen[c].exists
           /\ Write(c, c \in seenFresh,
                    [objects[c] EXCEPT !.serial = hand[c]])
  /\ UNCHANGED <<inside, hand>>

CheckGenesis ==
  /\ At({<<"check", "genesis">>})
  /\ IF given.genesis THEN Proceed ELSE StepFails
  /\ UNCHANGED <<inside, outside, hand, troubles>>

\* Of these the cached copy, with the server's defaults, never equals what is
\* built: CreateOrUpdate sends an Update every time.
Defaulted == {"service", "deployment"}

\* controllerutil.CreateOrUpdate.
CreateOrUpdate(o, built) ==
  /\ kind \notin Replacing
  /\ \/ ~seen[o].exists /\ Write(o, ~objects[o].exists, built)
     \/ /\ seen[o] = built /\ o \notin Defaulted
        /\ Proceed /\ UNCHANGED <<objects, seen, seenFresh, troubles>>
     \/ /\ seen[o].exists /\ (o \in Defaulted \/ seen[o] # built)
        /\ Write(o, o \in seenFresh, built)

\* Mutant: what is there is deleted, to be created by the next reconcile.
ReplaceByDeletion(o, built) ==
  /\ kind \in Replacing
  /\ \/ ~objects[o].exists /\ Write(o, TRUE, built)
     \/ objects[o].exists /\ Remove(o) /\ StepFails /\ UNCHANGED troubles

\* Create, then Update over whatever is there.
Replace(o, built) == kind \in Replacing /\ Write(o, TRUE, built)

Save(o, built) == Replace(o, built) \/ CreateOrUpdate(o, built)

\* A password that the spec only refers to is read as the configuration is
\* composed.
ReconcileConfig ==
  /\ At({<<"write", "config">>})
  /\ LET password == IF Reads(kind, mem.spec) = {} THEN 0 ELSE given.password
     IN IF Reads(kind, mem.spec) # {} /\ password = 0
          THEN StepFails /\ UNCHANGED <<objects, seen, seenFresh, troubles>>
          ELSE Save("config",
                    [Owned(mem.spec.config) EXCEPT !.password = password])
  /\ UNCHANGED <<inside, hand>>

ReconcileService ==
  /\ At({<<"write", "service">>})
  /\ Save("service", Owned(Unset))
  /\ UNCHANGED <<inside, hand>>

\* compute{ConfigMap,Secret}Hash read the cache; a secret that is not there
\* counts for nothing.
TemplateHash ==
  LET config == IF "config" \in Hashed(kind) THEN seen["config"] ELSE NoObject
  IN [config   |-> config.content,
      password |-> config.password,
      sign     |-> IF "sign" \in Hashed(kind) THEN seen["sign"].serial ELSE 0,
      tls      |-> IF "tls" \in Hashed(kind) THEN seen["tls"].serial ELSE 0]

\* The API server wants a name for a secret that is mounted.
NamesMounts(s) == "genesis" \in Mounts(kind) => s.genesis

ReconcileDeployment ==
  /\ At({<<"write", "deployment">>})
  /\ IF NamesMounts(mem.spec)
       THEN Save("deployment",
                 [Owned(mem.spec.pods) EXCEPT !.hash = TemplateHash])
       ELSE StepFails /\ UNCHANGED <<objects, seen, seenFresh, troubles>>
  /\ UNCHANGED <<inside, hand>>

\* The update is built without the name of the volume: one that is bound
\* cannot take it, nor may an unbound one change.
ReplaceVolumeClaim ==
  /\ At({<<"write", "pvc">>}) /\ kind \in Replacing
  /\ LET claim == objects["pvc"]
     IN Write("pvc",
              claim.exists => ~claim.bound /\ claim.content = mem.spec.storage,
              Owned(mem.spec.storage))
  /\ UNCHANGED <<inside, hand>>

\* The API server lets nothing of a claim change but its size, which may grow
\* when it is bound. A conflict is retried with the cached resourceVersion,
\* five times: an old copy may have been replaced by then, or not.
GrowVolumeClaim ==
  LET claim    == objects["pvc"]
      growable == /\ claim.exists /\ seen["pvc"].owner = claim.owner
                  /\ seen["pvc"].bound = claim.bound
                  /\ \/ mem.spec.storage = claim.content
                     \/ claim.bound /\ mem.spec.storage > claim.content
  IN \E current \in BOOLEAN :
       /\ "pvc" \in seenFresh => current
       /\ Write("pvc", current /\ growable,
                [claim EXCEPT !.content = mem.spec.storage])

KeepVolumeClaim ==
  /\ At({<<"write", "pvc">>}) /\ kind \notin Replacing
  /\ \/ /\ ~seen["pvc"].exists
        /\ Write("pvc", ~objects["pvc"].exists, Owned(mem.spec.storage))
     \/ /\ seen["pvc"].exists /\ seen["pvc"].content = mem.spec.storage
        /\ Proceed /\ UNCHANGED <<objects, seen, seenFresh, troubles>>
     \/ /\ seen["pvc"].exists /\ seen["pvc"].content # mem.spec.storage
        /\ GrowVolumeClaim
  /\ UNCHANGED <<inside, hand>>

\* waitForPVCReady gives up after a minute.
WaitForVolume ==
  /\ At({<<"wait", "pvc">>})
  /\ IF seen["pvc"].bound THEN Proceed ELSE StepFails
  /\ UNCHANGED <<inside, outside, hand, troubles>>

\* ReconcileTLSRoute, ReconcileHTTPRoute: an existing route keeps its owner.
ReconcileRoute ==
  /\ At({"write"} \X (Route \ Istio))
  /\ \/ /\ ~seen[Subject].exists
        /\ Write(Subject, ~objects[Subject].exists, Owned(Unset))
     \/ /\ seen[Subject].exists
        /\ Write(Subject, Subject \in seenFresh, objects[Subject])
  /\ UNCHANGED <<inside, hand>>

\* Unstructured objects are read from the API server, and taken over.
ReconcileIstio ==
  /\ At({"write"} \X Istio)
  /\ Write(Subject, TRUE, Owned(Unset))
  /\ UNCHANGED <<inside, hand>>

PipelineDone ==
  /\ pc = "pipeline" /\ plan = <<>>
  /\ Goto("running")
  /\ UNCHANGED <<inside, outside, plan, hand, troubles>>

\* Mutant: no RequeueAfter.
MarkRunningNoRequeue ==
  /\ pc = "running"
  /\ UpdateStatus("Running")
  /\ hand' = NoHand
  /\ Goto("idle")
  /\ UNCHANGED <<frame, outside, queue, plan, given>>

\* Success puts the key back after a minute.
MarkRunning ==
  /\ pc = "running"
  /\ UpdateStatus("Running")
  /\ queue' = TRUE
  /\ hand' = NoHand
  /\ Goto("idle")
  /\ UNCHANGED <<frame, outside, plan, given>>

\* A returned error puts the key back, rate limited.
MarkFailed ==
  /\ pc \in {"failFinalizer", "failPipeline", "failDeletion"}
  /\ UpdateStatus("Failed")
  /\ queue' = TRUE
  /\ plan' = <<>> /\ hand' = NoHand
  /\ Goto("idle")
  /\ UNCHANGED <<frame, outside, given>>

-----------------------------------------------------------------------------
(* Panics                                                                   *)

Panics ==
  /\ pc = "pipeline" /\ plan # <<>>
  /\ ~Skipped(kind, mem.spec, Head(plan))
  /\ Breaks(kind, mem.spec, Head(plan))
  /\ plan' = <<>> /\ hand' = NoHand

\* reconcileOrderer<Component> recovers, and knows its component.
RecoverOrderer ==
  /\ kind \in Orderers /\ Panics
  /\ Goto("recovered")
  /\ UNCHANGED <<frame, outside, res, mem, fresh, queue, given, troubles>>

\* Reconcile recovers, and reads the component once more.
RecoverCommitter ==
  /\ kind \in Committers /\ Panics
  /\ Read
  /\ Goto(IF cache.exists THEN "recovered" ELSE "idle")
  /\ UNCHANGED <<frame, outside, res, queue, given, troubles>>

\* Mutant: the panic is recovered, and nothing more.
MarkPanickedSilently ==
  /\ pc = "recovered"
  /\ queue' = (queue \/ kind \in Orderers)
  /\ Goto("idle")
  /\ UNCHANGED <<frame, outside, res, mem, fresh, plan, hand, given, troubles>>

\* No error is returned. An orderer's reconcile goes on as after a success:
\* back in a minute. A committer's ends, and nothing brings it back.
MarkPanicked ==
  /\ pc = "recovered"
  /\ UpdateStatus("Failed")
  /\ queue' = (queue \/ kind \in Orderers)
  /\ Goto("idle")
  /\ UNCHANGED <<frame, outside, plan, hand, given>>

-----------------------------------------------------------------------------
(* handleDeletion                                                           *)

MarkDeleting ==
  /\ pc = "deleting"
  /\ UpdateStatus("Pending")
  /\ plan' = DeletePlan(kind)
  /\ Goto("cleanup")
  /\ UNCHANGED <<frame, outside, queue, hand, given>>

\* An object that is gone is as good as deleted. Errors are only logged: one
\* of the route ends nothing, one of another object the rest of the cleanup.
CleanupObject ==
  /\ pc = "cleanup" /\ plan # <<>>
  /\ ~Skipped(kind, mem.spec, Head(plan))
  /\ \/ objects[Subject].exists /\ Remove(Subject)
        /\ plan' = Tail(plan) /\ UNCHANGED troubles
     \/ ~objects[Subject].exists /\ UNCHANGED <<outside, troubles>>
        /\ plan' = Tail(plan)
     \/ /\ Trouble("write")
        /\ plan' = IF Subject \in Route THEN Tail(plan) ELSE <<>>
        /\ \/ objects[Subject].exists /\ Remove(Subject)
           \/ UNCHANGED outside
  /\ UNCHANGED <<inside, pc, hand>>

CleanupDone ==
  /\ pc = "cleanup" /\ plan = <<>>
  /\ Goto("removal")
  /\ UNCHANGED <<inside, outside, plan, hand, troubles>>

\* Mutant: the error is logged but not returned.
RemoveFinalizerIgnoringErrors ==
  /\ pc = "removal"
  /\ LET released == [res EXCEPT !.fin = FALSE, !.exists = ~res.deleting]
     IN \/ Accepted(released)
        \/ Refused("object", released) /\ UNCHANGED mem
  /\ Goto("idle")
  /\ UNCHANGED <<frame, outside, queue, plan, hand, given>>

\* The API server removes a marked object with its last finalizer.
RemoveFinalizer ==
  /\ pc = "removal"
  /\ LET released == [res EXCEPT !.fin = FALSE, !.exists = ~res.deleting]
     IN \/ Accepted(released) /\ Goto("idle")
        \/ /\ Refused("object", released) /\ UNCHANGED mem
           /\ Goto("failDeletion")
  /\ UNCHANGED <<frame, outside, queue, plan, hand, given>>

-----------------------------------------------------------------------------
(* The environment                                                          *)

\* Deployment controller, volume binder and others write to an object.
Touch(o) ==
  /\ o \in Lagging[kind] /\ objects[o].exists /\ Trouble("touch")
  /\ seenFresh' = seenFresh \ {o}
  /\ UNCHANGED <<inside, pc, plan, hand, objects, seen>>

BindVolume ==
  /\ objects["pvc"].exists /\ ~objects["pvc"].bound
  /\ Put("pvc", [objects["pvc"] EXCEPT !.bound = TRUE])
  /\ UNCHANGED <<inside, pc, plan, hand, troubles>>

\* What a component is given by others: the Genesis controller's block, and
\* the administrator's password, where it has a use for them.
Give(g) ==
  /\ given' = g
  /\ UNCHANGED <<frame, outside, res, mem, fresh, queue, pc, plan, hand>>

StoreGenesis ==
  /\ ~given.genesis /\ "genesis" \in Mounts(kind)
  /\ Give([given EXCEPT !.genesis = TRUE]) /\ UNCHANGED troubles

StorePassword ==
  /\ given.password = 0 /\ \E s \in Chosen[kind] : Reads(kind, s) # {}
  /\ Give([given EXCEPT !.password = 1]) /\ UNCHANGED troubles

RotatePassword ==
  /\ given.password = 1 /\ Trouble("rotate")
  /\ Give([given EXCEPT !.password = 2])

\* Objects whose owner is gone are collected.
GarbageCollect(o) ==
  /\ objects[o].exists
  /\ ~(res.exists /\ res.uid = objects[o].owner)
  /\ Remove(o)
  /\ UNCHANGED <<inside, pc, plan, hand, troubles>>

\* The operator dies and comes back: the informers list afresh, and a listed
\* component is queued.
OperatorCrash ==
  /\ Trouble("crash")
  /\ Goto("idle")
  /\ cache' = res /\ fresh' = {"cache"}
  /\ queue' = res.exists
  /\ plan' = <<>> /\ hand' = NoHand
  /\ seen' = objects /\ seenFresh' = Object
  /\ UNCHANGED <<kind, res, mem, objects, given>>

-----------------------------------------------------------------------------

User ==
  \/ \E s \in Specs \cap Chosen[kind] : CreateComponent(s) \/ EditSpec(s)
  \/ DeleteComponent

Reconciler ==
  \/ StartReconcile \/ InitialiseStatus \/ EnsureFinalizer \/ SelectMode
  \/ SkipStep \/ Enrol \/ StoreCertificate \/ CheckGenesis
  \/ ReconcileConfig \/ ReconcileService \/ ReconcileDeployment
  \/ ReplaceVolumeClaim \/ KeepVolumeClaim \/ WaitForVolume
  \/ ReconcileRoute \/ ReconcileIstio
  \/ PipelineDone \/ MarkRunning \/ MarkFailed
  \/ RecoverOrderer \/ RecoverCommitter \/ MarkPanicked
  \/ MarkDeleting \/ CleanupObject \/ CleanupDone \/ RemoveFinalizer

Environment ==
  \/ \E o \in Object : ObjectSync(o) \/ Touch(o) \/ GarbageCollect(o)
  \/ BindVolume \/ StoreGenesis \/ StorePassword \/ RotatePassword

Next == User \/ CacheSync \/ Reconciler \/ Environment \/ OperatorCrash

\* Watches deliver, the worker runs, so do Kubernetes and Genesis, and the
\* password comes. A claim may have to wait for its first pod.
Fairness ==
  /\ WF_vars(CacheSync) /\ WF_vars(Reconciler)
  /\ WF_vars(objects["deployment"].exists /\ BindVolume)
  /\ WF_vars(StoreGenesis) /\ WF_vars(StorePassword)
  /\ WF_vars(\E o \in Object : ObjectSync(o))
  /\ WF_vars(\E o \in Object : GarbageCollect(o))

Spec     == Init /\ [][Next]_vars
FairSpec == Spec /\ Fairness
-----------------------------------------------------------------------------
(* Properties                                                               *)

\* A copy that counts as current is the server's object; only the status in
\* memory may differ, after a write of it that failed.
FreshIsCurrent ==
  /\ "cache" \in fresh => cache = res
  /\ "mem" \in fresh => mem = [res EXCEPT !.status = mem.status]
  /\ \A o \in seenFresh : seen[o] = objects[o]

\* The finalizer seen in the copy m is the one the component carries.
Held(m) == res.exists /\ res.uid = m.uid /\ res.fin

Guarded ==
  /\ res.exists /\ res.deleting => res.fin
  /\ cache.exists /\ cache.fin /\ ~cache.deleting => Held(cache)
  /\ pc \in {"init", "finalizer"} =>
       mem.exists /\ ~mem.deleting /\ (mem.fin => Held(mem))
  /\ pc \in {"mode", "pipeline", "running"} => Held(mem)

\* During the deletion of a component the cache never shows it unmarked.
DeletionSeen ==
  /\ cache.exists /\ cache.deleting /\ res.exists /\ cache.uid = res.uid
       => res.deleting
  /\ pc \in {"deleting", "cleanup", "removal"} =>
       /\ mem.deleting
       /\ res.exists /\ res.uid = mem.uid => res.deleting
       /\ cache.exists /\ cache.uid = mem.uid => cache.deleting

\* Nothing is owned by a component that the reconciler has not read yet.
OwnedByPast ==
  /\ \A o \in Object : objects[o].owner <= mem.uid
  /\ mem.uid <= cache.uid /\ cache.uid <= res.uid

\* What the reconciler reads, late as it may be, is enough to know that the
\* component is held whenever objects are written, and that what a cleanup
\* deletes by name belongs to no later component.
Base == TypeOK /\ FreshIsCurrent /\ Guarded /\ DeletionSeen /\ OwnedByPast

\* What exists belongs to someone, and so did what the cache shows of it.
Belongs ==
  /\ res.exists => res.uid > 0
  /\ \A o \in Object :
       /\ objects[o].exists => objects[o].owner > 0
       /\ seen[o].exists => seen[o].owner > 0
       /\ seen[o].owner <= mem.uid

\* What the cache shows of a component's objects may be old, but they are
\* there, as long as the reconciler has not seen that the component is marked.
Unmarked ==
  \/ ~res.deleting
  \/ cache.exists /\ ~cache.deleting /\ cache.uid = res.uid
  \/ pc \in {"init", "finalizer", "mode", "pipeline"} /\ mem.uid = res.uid

SeenIsThere ==
  res.exists /\ Unmarked =>
    \A o \in Object :
      seen[o].exists /\ seen[o].owner = res.uid =>
        objects[o].exists /\ objects[o].owner = res.uid

\* A configuration without a password was made for a spec that needs none.
Passwordless(k) ==
  \E s \in Chosen[k] :
    Reads(k, s) = {} /\ ~Breaks(k, s, <<"write", "config">>)

PasswordsChosen ==
  /\ res.exists => res.spec \in Chosen[kind]
  /\ cache.exists => cache.spec \in Chosen[kind]
  /\ pc \in {"init", "finalizer", "mode", "pipeline"} =>
       mem.spec \in Chosen[kind]
  /\ objects["config"].exists /\ objects["config"].password = 0 =>
       Passwordless(kind)

\* The steps up to the deployment that depend on their order, in three ranks.
Rank(step) ==
  CASE step[1] = "enrol"                -> 1
    [] step[1] \in {"store", "check"}   -> 2
    [] step = <<"write", "config">>     -> 2
    [] step = <<"write", "deployment">> -> 3
    [] OTHER                            -> 0

Ordered(p) ==
  \A i, j \in 1 .. Len(p) :
    i < j /\ Rank(p[j]) # 0 => Rank(p[i]) <= Rank(p[j])

Left(step) == \E i \in 1 .. Len(plan) : plan[i] = step

GenesisMounted == {"consenter", "batcher", "assembler", "sidecar"}

\* What the steps have done that are not left, if the deployment is.
ConfigDone ==
  ~Left(<<"write", "config">>) =>
    /\ objects["config"].exists /\ objects["config"].owner = mem.uid
    /\ Reads(kind, mem.spec) # {} => given.password # 0

GenesisDone ==
  kind \in GenesisMounted /\ ~Left(<<"check", "genesis">>)
    /\ mem.spec.genesis => given.genesis

CertificateDone(c) ==
  /\ ~Left(<<"enrol", c>>) => hand[c] # 0 \/ objects[c].exists
  /\ ~Left(<<"store", c>>) => objects[c].exists

InputsFirst ==
  pc = "pipeline" /\ Left(<<"write", "deployment">>) =>
    /\ Ordered(plan) /\ ConfigDone /\ GenesisDone
    /\ mem.spec.enrolment /\ mem.uid = 1 =>
         \A c \in Cert \ Omitted[kind] : CertificateDone(c)

\* The inductive invariant behind the safety properties below.
IInv == Base /\ Belongs /\ SeenIsThere /\ PasswordsChosen /\ InputsFirst

Phase ==
  CASE ~res.exists             -> "absent"
    [] res.exists /\ ~res.fin  -> "bare"
    [] res.exists /\ res.fin /\ ~res.deleting -> "guarded"
    [] OTHER                   -> "terminating"

Protocol == INSTANCE FinalizerProtocol
  WITH Dependent  <- Object,
       phase      <- Phase,
       dependents <- {o \in Object : objects[o].exists}

\* In spite of stale reads, conflicts, lost answers, crashes and re-creation
\* no object comes into being for a component that the finalizer does not
\* hold (ensureFinalizer before reconcile<Component>).
FollowsFinalizerProtocol == Protocol!Spec

\* What belongs to a component that is not being deleted is never removed:
\* not by the cleanup, by name, that an earlier component of that name still
\* has coming (assembler's cleanupDeploymentResources, the routes' cleanup).
LiveObjectsStay ==
  [][\A o \in Object :
       /\ objects[o].exists /\ ~objects'[o].exists
       /\ res.exists /\ objects[o].owner = res.uid
       => res.deleting]_vars

\* A certificate that has reached the cache, while no other is in hand.
Settled(c) ==
  /\ hand[c] = 0 /\ objects[c].exists
  /\ seen[c].exists /\ seen[c].serial = objects[c].serial

\* A certificate may be issued again as long as the cache does not show the
\* first, but from then on it keeps its key as long as its secret exists: no
\* reconcile, retry or restart enrols again (CreateSignCertificate,
\* CreateTLSCertificate), or stores what an earlier attempt had in hand.
CertificatesStay ==
  [][\A c \in Cert :
       Settled(c) /\ objects'[c].exists
       => Settled(c)' /\ objects'[c].serial = objects[c].serial]_vars

\* A deployment comes into being after its inputs: the configuration is the
\* component's own, and if it needs the password this has been given and is in
\* it (unless another spec needs none: then the cache may show a configuration
\* that an edit has replaced since), the genesis block is there, and so are
\* the certificates, unless the component was created again: then it may have
\* found those of its predecessor, and lost them to the collector (the order of
\* the steps in reconcileDeployMode).
DeployedWithInputs ==
  [][~objects["deployment"].exists /\ objects'["deployment"].exists =>
       /\ objects["config"].exists /\ objects["config"].owner = mem.uid
       /\ Reads(kind, mem.spec) # {} =>
            /\ given.password # 0
            /\ objects["config"].password # 0 \/ Passwordless(kind)
       /\ kind \in GenesisMounted /\ mem.spec.genesis => given.genesis
       /\ mem.spec.enrolment /\ mem.uid = 1
            => \A c \in Cert \ Omitted[kind] : objects[c].exists]_vars

Staying == res.exists /\ ~res.deleting

\* What a controller can carry out: a mode, an enrolment with both sections,
\* or none, retries for a query service, and a block if the pods mount it.
Usable(s) ==
  /\ s.mode # ""
  /\ s.enrolment => s.sections = Cert
  /\ s.mode = "deploy" =>
       NamesMounts(s) /\ ~(kind = "queryservice" /\ queryserviceBreaks(s))

\* The storage of an assembler or router cannot be reconciled twice, and no
\* claim can shrink.
Storable ==
  /\ kind \in Replacing => Claims(kind, res.spec) = {}
  /\ kind \notin Replacing /\ objects["pvc"].exists =>
       objects["pvc"].content <= res.spec.storage

CurrentHash ==
  LET config == IF "config" \in Hashed(kind) THEN objects["config"]
                                             ELSE NoObject
  IN [config   |-> config.content,
      password |-> config.password,
      sign     |-> IF "sign" \in Hashed(kind) THEN objects["sign"].serial
                                              ELSE 0,
      tls      |-> IF "tls" \in Hashed(kind) THEN objects["tls"].serial
                                             ELSE 0]

Deployed ==
  LET d == objects["deployment"]
      c == objects["config"]
      s == res.spec
  IN /\ c.exists /\ c.content = s.config
     /\ Reads(kind, s) # {} => c.password = given.password
     /\ d.exists /\ d.content = s.pods /\ d.hash = CurrentHash
     /\ s.enrolment => \A x \in Cert \ Omitted[kind] : objects[x].exists
     /\ \A o \in Claims(kind, s) \ Omitted[kind] :
          objects[o].exists /\ objects[o].content = s.storage
     /\ \A o \in Routes(kind, s) \ Omitted[kind] : objects[o].exists
     /\ \A o \in Object : objects[o].exists => objects[o].owner = res.uid

\* A component that stays in deploy mode with a spec that can be carried out
\* ends up deployed as its last spec says, with its claim and its routes, in a
\* template with the hash of what its pods mount, and Running: conflicts with
\* other writers, hashes computed from old copies, objects of an earlier
\* component that are collected meanwhile, a late genesis block, password or
\* volume, failed calls, panics over an earlier spec and crashes are all
\* overcome.
EventuallyDeployed ==
  <>[](Staying /\ res.spec.mode = "deploy" /\ Usable(res.spec) /\ Storable)
    => <>[](Deployed /\ res.status = "Running")

\* The pods of a component that stays in deploy mode find all that they mount,
\* even if its storage cannot be made as large or as small as the spec says.
\* Not those of the assembler: nothing makes their claim if there is no
\* storage in the spec (reconcilePVC), and nothing updates it else.
PodsCanStart ==
  <>[](/\ Staying /\ res.spec.mode = "deploy" /\ Usable(res.spec)
       /\ Mounts(kind) \cap Cert # {} => res.spec.enrolment
       /\ kind \in Replacing => Claims(kind, res.spec) = {}
       /\ kind # "assembler")
    => <>[](/\ objects["deployment"].exists
            /\ \A o \in Mounts(kind) \ (Omitted[kind] \cup Input) :
                 objects[o].exists
            /\ "genesis" \in Mounts(kind) => given.genesis)

\* A spec that cannot be carried out shows in the status, whether a step
\* fails over it or panics: the recovered panic is not an error that
\* controller-runtime would retry. A committer has one attempt to write the
\* status then, and may not lose it (the recover in Reconcile).
FailureReported ==
  <>[](Staying /\ ~Usable(res.spec))
    /\ (kind \in Orderers \/ "status" \notin Troubles[kind])
    => <>[](res.status = "Failed")

\* A deleted component goes away, although its cleanup may fail.
DeletionCompletes == []<>~(res.exists /\ res.deleting)

\* "All components use persistent storage" (docs/quick-start.md): one that
\* stays in deploy mode with storage, and with a spec that can be carried out,
\* ends up Running, also once its claim is bound (reconcilePVC).
StorageRuns ==
  <>[](/\ Staying /\ res.spec.mode = "deploy" /\ Usable(res.spec)
       /\ res.spec.storage # Unset)
    => <>[](res.status = "Running")
=============================================================================
