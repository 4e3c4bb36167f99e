# A TLA+ model of the Fabric-X operator

The Fabric-X operator is a Kubernetes operator (controller-runtime, Go) that
runs a Fabric-X network from custom resources. This directory holds TLA+
modules that model its controllers, the TLC configurations that check them on
small instances, and TLAPS proofs of what matters most for all instances.

## 1. Inventory

Every controller has the same frame. An informer watches one kind of custom
resource, keeps a **cache** of it and puts the name of every changed object in
a **work queue**. One worker per controller takes names from the queue and
calls `Reconcile`, which reads the object *from the cache* (`r.Get`), writes
other objects and its own object to the API server, and returns nothing (done),
an error (the name is queued again, rate limited) or a `RequeueAfter`. The
cache is behind the API server, also behind the reconciler's own writes. A
write of an object carries the `resourceVersion` of the copy that was read, and
the API server refuses it when the object has changed since.

| Component | Source (`internal/controller/`) | State it keeps | Operations | Talks to |
|---|---|---|---|---|
| OrdererGroup | `orderergroup_controller.go` | finalizer, status | create or update children; delete them | child custom resources (uncached client) |
| Committer | `committer_controller.go` | finalizer, status | the same with five children | child custom resources (cached client) |
| Orderer component controllers (consenter, batcher, assembler, router) | `orderer{consenter,batcher,assembler,router}_controller.go` | finalizer, status, ConfigMap, certificates, Deployment, Service, PVCs | the bootstrap pipeline `configure` / `deploy` | certificate provisioning, the genesis secret, Istio |
| Committer component controllers (coordinator, sidecar, validator, verifier, query service) | `committer*_controller.go` | the same | the same | the same |
| Certificate provisioning | `certs/` | secrets with keys and certificates | enrol with a Fabric CA, unless the secret is there | Fabric CA |
| Genesis | `genesis_controller.go`, `genesis/` | the genesis block secret, status | build the block from certificates of organisations and orderers, store it | secrets of other controllers |
| Identity | `identity_controller.go` | secrets, status | enrol an identity (X.509, Idemix) | Fabric CA |
| CA | `ca/` | CA certificates, ConfigMap, Deployment, Service, PVC | deploy a Fabric CA | workloads |
| CAEnrollment | `caenrollment_controller.go` | registered user, status | register a user with a CA | Fabric CA |
| Endorser | `endorser_controller.go` | certificates, ConfigMap, workload | deploy an endorser | Fabric CA, workloads |
| ChainNamespace | `chainnamespace_controller.go` | finalizer, status with the transaction id | sign and broadcast a namespace transaction | Identity, the orderer |
| Helpers | `utils/`, `gateway_helpers.go`, `istio_helpers.go` | none | templates, hashes, Istio objects | |
| Manager, kubectl plugin, generated client | `cmd/`, `kubectl-fabricx/`, `pkg/client/` | none | wiring, user commands | |

They interact through the API server only: an OrdererGroup writes component
resources, the component controllers react to them; certificates reach the
Genesis controller as secrets and the genesis block reaches the components as a
secret; an Identity's secret is what a ChainNamespace signs with.

**What is hard.** A reconcile acts on an old copy of its object while users
edit, delete and re-create it; each of its calls can fail, fail after having
taken effect, or conflict; it can stop half way (an error, a crash) and must
come back; whether it comes back depends on what it returns and on what is
watched; and its own status writes wake it up again. Deletion needs the
finalizer to be in place before anything is created and to be given up only
after the cleanup.

**What makes each component correct.**

* OrdererGroup, Committer: children exist exactly as the current spec says
  once the operator rests; none is created for a group that is not held by the
  finalizer; none goes back to an older spec; a deleted group goes away and its
  children with it; the operator comes to rest.
* Component controllers: nothing is deployed before certificates, genesis
  block and configuration are there; the pods' template follows the current
  configuration and certificates; nothing is written for a component that the
  finalizer does not hold, and nothing of a live component is removed; waiting
  (for the genesis block, for a volume, for a bound claim) ends.
* Genesis: the block in the secret comes to be the one of the last spec, built
  from complete inputs.
* Identity, CA, CAEnrollment, Endorser: enrol once, keep the key and its
  certificate together, retry after failure, clean up on deletion.
* ChainNamespace: the recorded transaction is one the orderer accepted for
  this resource; the operator tries until then; it does not send twice; the
  version sent is the one the user asked for.

## 2. Plan

Order of work; the first six are done.

1. `OrdererGroup`: the frame (cache, queue, conflicts, faults, crash), finalizer
   and children. Abstract specification: `FinalizerProtocol`. Proved: the
   inductive invariant, two action properties, what holds when the operator
   rests, the refinement.
2. `ChainNamespace`: the frame with an external effect that cannot be undone.
   Abstract specification: `Submission`. Proved: the inductive invariant, "never
   gives up", the refinement.
3. `Committer`: the cached client for children, children without owner
   references, `RequeueAfter`, and status writes that wake the controller.
   Refines `FinalizerProtocol`. Proved: the inductive invariant, no roll-back,
   the refinement.
4. `Component`, with `Pipelines`, `Orderers` and `Committers`: the nine component
   controllers as one frame and nine pipelines (certificates, genesis check,
   workloads, volume, routes), cached reads of every object, recovered panics,
   the garbage collector and re-creation. Refines `FinalizerProtocol`. Proved:
   the inductive invariant, that live objects stay, that certificates keep
   their keys and that a deployment follows its inputs, the refinement.
5. `Frame` with `Genesis`, `Identity`, `CAEnrollment`, `Endorser` and `CA`: the
   controllers that provide what the others need.
6. `Provisioning`: the composition of these five. Refines `FinalizerProtocol`.
   Proved: the inductive invariant, the refinement, and that a CA keeps its
   keys once the cache shows them.
7. A composition: OrdererGroup with its components and Genesis (the bootstrap
   order `configure` -> genesis -> `deploy`), each component reduced to what
   `Component` promises of it, with the panics of OrdererGroup, ChainNamespace,
   Committer, Genesis, Endorser and CA.
8. More proofs: the steps of a re-created component (its certificates may go to
   the collector between two of its steps), and what the composition promises.

## 3. Modules

| Module | What it is |
|---|---|
| `FinalizerProtocol` | Abstract: an owner and the set of its dependents; dependents appear only while the owner is held |
| `OrdererGroup` | The OrdererGroup controller in its frame |
| `MCOrdererGroup` | Specs and bounds for TLC |
| `OrdererGroupProofs` | TLAPS proofs |
| `Submission` | Abstract: a log of accepted submissions, of which one is recorded for good |
| `ChainNamespace` | The ChainNamespace controller in its frame |
| `MCChainNamespace` | Specs and bounds for TLC |
| `ChainNamespaceProofs` | TLAPS proofs |
| `Committer` | The Committer controller in its frame, with cached children |
| `MCCommitter` | Specs and bounds for TLC |
| `CommitterProofs` | TLAPS proofs |
| `Pipelines` | What the pipelines of all components consist of: objects and steps |
| `Orderers`, `Committers` | What sets the four orderer and the five committer components apart |
| `Component` | The nine component controllers in their frame, with cached objects |
| `MCComponent` | Specs for TLC |
| `ComponentProofs` | TLAPS proofs: the copies and the finalizer, live objects, certificates, the refinement |
| `DeploymentProofs` | TLAPS proofs: the order of the steps, the whole invariant, a deployment's inputs |
| `Frame` | The frame of the next five controllers: resource, copies, queue, finalizer, status, objects |
| `Genesis`, `Identity`, `CAEnrollment`, `Endorser`, `CA` | One controller each: its specs, its plan and its steps |
| `Provisioning` | Their composition, its fairness and its properties |
| `MCProvisioning` | Specs and bounds for TLC |
| `ProvisioningProofs` | TLAPS proofs: the copies and the finalizer, the refinement |
| `KeyPairProofs` | TLAPS proofs: the plan of a CA, the whole invariant, its key pairs |

### OrdererGroup

`group` is the resource in the API server, `cache` the informer's copy, `mem`
the reconciler's in-memory copy, `queue` whether the key is queued, `pc` and
`todo` where the reconciler is, `children` the child resources. The reconciler
is a sequential process; one action is one API call with the control flow
around it.

| Action | Code |
|---|---|
| `StartReconcile` | `Reconcile` up to the branch on deletion |
| `InitialiseStatus`, `EnsureFinalizer` | the status and finalizer steps of `Reconcile` |
| `ReconcileChild` | `reconcile{Consenter,Batcher}CRDs`, `reconcile{Assembler,Router}CRD`, one child per step, in the order of `reconcileChildCRDs` |
| `ChildrenReconciled`, `MarkRunning` | the end of `reconcileOrdererGroup` |
| `MarkFailed` | the error returns |
| `MarkDeleting`, `CleanupChild`, `CleanupDone`, `RemoveFinalizer` | `handleDeletion` and the `cleanup*` functions |
| `CreateGroup`, `EditSpec`, `DeleteGroup` | users |
| `CacheSync` | the watch |
| `ComponentDone`, `GarbageCollect` | component controllers, Kubernetes |
| `OperatorCrash` | restart of the operator |

Abstractions. The cache jumps to the latest version; delivering the versions
one by one adds only intermediate copies, and every copy the reconciler can
read is still one it can read here, because `CacheSync` may happen at any time.
The Get and the Update of a child are one step, since the Update carries the
version of the Get. A failed call may have been applied. All values a component
inherits from `spec.common` are one field, `setting`. Messages of failures are
one per phase. Not modelled: recovery from a panic (which returns no error and
so drops the key), the resync every ten hours, two operators at once.

### ChainNamespace

`ns`, `cache`, `mem`, `queue` and `pc` are as above. A resourceVersion is
represented by the set `fresh` of copies that are the server's current version,
which is all a comparison can tell. `chain` is the sequence of envelopes the
orderer accepted and `txID` an index in it: each envelope has a new nonce and
so a new id. `available` holds what a deployment needs from outside and can be
missing. `Marshalled` is the JSON round trip of the spec through an Update.

| Action | Code |
|---|---|
| `StartReconcile`, `EnsureFinalizer` | `Reconcile` |
| `PrepareEnvelope` | the skip test, `deployNamespace` up to the signed envelope |
| `Broadcast` | `broadcast` |
| `MarkDeployed`, `MarkFailed` | `updateStatus` and the returns of `Reconcile` |
| `HandleDeletion` | `handleDeletion` |
| `Toggle` | Identity, secret, key file, CA secret and orderer come and go |

An edit after the deployment is ignored by the code (it skips), and "Deployed"
means accepted by the orderer, not committed; what the committer does with the
versions is outside the repository.

### Committer

`committer`, `cache`, `mem`, `queue`, `pc`, `todo` as in OrdererGroup, `fresh`
as in ChainNamespace. `seen` and `seenFresh` are the informers' copies of the
children and which of them are current: this controller reads children with
the manager's cached client.

| Action | Code |
|---|---|
| `StartReconcile`, `InitialiseStatus`, `EnsureFinalizer` | `Reconcile` |
| `ReconcileChild` | `reconcile<Component>CRD`, one child per step, in the order of `reconcileChildCRDs` |
| `ChildrenReconciled`, `MarkRunning` | the end of `reconcileCommitter` and `RequeueAfter` |
| `MarkFailed` | the error returns |
| `MarkDeleting`, `CleanupChild`, `CleanupDone`, `RemoveFinalizer` | `handleDeletion` and the `cleanup*` functions |
| `UpdateStatus` (in the actions above) | `updateCommitterStatus` |
| `CacheSync`, `ChildSync` | the watches |
| `ComponentWrites`, `ComponentDone` | component controllers write to a child, and release a marked one |

Abstractions. There is no clock: the key that a success puts back after a
minute is queued at once, so every delay between the two is covered, and the
liveness properties say nothing of how long it takes. `Last` is the number of
children in their order; the code has five, TLC takes the first one or two and
the proofs all. An update that changes nothing leaves the resourceVersion as it
is. A read from a cache fails only with NotFound. Of a child's spec three
fields are kept: one copied from `spec.common` (replicas), one inherited
with a fallback (enrollment), and the endpoints, which every component builds
differently. A component's own replicas are not in the model, as the code never
reads them (the comment "Override common replicas" in `COMMITTER_README.md`
notwithstanding).

### Component

The nine component controllers share their frame line by line, each in its own
copy, and differ in data. `Orderers` and `Committers` say what sets each kind
apart: which certificates it enrols and stores, its pipelines in the two modes,
what the hash in its pods' template covers, what the pods mount, which routes
and claims a spec asks for, what a configuration has to be composed from, and
what the deletion removes by name. `Component` looks these up by `kind`, which
`Init` chooses.

`res`, `cache`, `mem`, `fresh`, `queue` and `pc` are as above. `plan` is what
is left of the pipeline, a sequence of steps such as `<<"write", "config">>`.
`objects` are the component's objects in the API server (the two certificate
secrets, configuration, service, deployment, volume claim, and four kinds of
routes), `seen` and `seenFresh` the informers' copies. `hand` holds certificates
that are enrolled and not stored, `given` whether the genesis block and which
password are there.

| Definition | Code |
|---|---|
| `<kind>Deploys`, `<kind>Configures`, `<kind>Deletes` | `reconcileDeployMode`, `reconcile<Component>` with `reconcileConfigureMode`, `handleDeletion` |
| `<kind>Enrols`, `<kind>Stores` | `reconcileCertificates` with the conversions, `createCertificateSecrets` |
| `<kind>Hashes`, `<kind>Mounts` | the template of the deployment |
| `<kind>Routes`, `<kind>Claims`, `<kind>Reads` | `reconcileGateway*`, `reconcilePVC`, `reconcileSecret` |
| `StartReconcile`, `InitialiseStatus`, `EnsureFinalizer` | `Reconcile` |
| `SelectMode` | `reconcile<Component>` |
| `Enrol`, `StoreCertificate` | `Create{Sign,TLS}Certificate`, `createCertificateSecrets` |
| `CheckGenesis` | `reconcileGenesisBlock` |
| `ReconcileConfig`, `ReconcileService`, `ReconcileDeployment` | the functions of these names (`reconcileConfigMap`, `reconcileSecret`) |
| `CreateOrUpdate`, `Replace` (in these actions) | `controllerutil.CreateOrUpdate`; assembler and router: Create, then Update |
| `KeepVolumeClaim`, `GrowVolumeClaim`, `WaitForVolume` | consenter and batcher: `reconcilePVC`, `createPVCWithRetry`, `updatePVCWithRetry`, `waitForPVCReady` |
| `ReplaceVolumeClaim` | assembler and router: `reconcilePVC` |
| `ReconcileRoute`, `ReconcileIstio` | `gateway_helpers.go`, `istio_helpers.go` |
| `TemplateHash` | `computeConfigMapHash`, `computeSecretHash` as the templates use them |
| `RecoverOrderer`, `RecoverCommitter`, `MarkPanicked` | the recovered panics: in `reconcileOrderer<Component>`, in the committers' `Reconcile` |
| `MarkRunning`, `MarkFailed` | the end of `reconcile<Component>`, `RequeueAfter` |
| `MarkDeleting`, `CleanupObject`, `CleanupDone`, `RemoveFinalizer` | `handleDeletion`, `cleanup*` |
| `CacheSync`, `ObjectSync` | the informers; only the component's own events queue it |
| `Touch`, `BindVolume`, `StoreGenesis`, `StorePassword`, `RotatePassword`, `GarbageCollect`, `OperatorCrash` | other writers, the volume binder, Genesis, an administrator, Kubernetes, a restart |

Abstractions. A certificate and its key are one number, new for each enrolment;
a number that nothing mentions any more is given again, so that the model stays
finite. A hash is what it was computed from. The content of an object is one
setting of the spec, one for the configuration, one for the pods and one for
the size of a claim, where the smallest, `Unset`, stands for the default size
or for no storage. For consenter and batcher that size is `pvcStorageSize` (they
ignore `spec.storage`), for assembler and router `spec.storage.size`. An
existing object of an earlier component of the same name is taken over by
`SetControllerReference`, which compares group, kind and name but not the uid;
the certificate secrets, the routes of the gateway and a claim that exists keep
their owner, since their update does not set one. Istio's objects are
unstructured, and the manager's client reads those from the API server, not
from a cache. A deployment or service read from the cache never equals what is
built, because the server has filled in defaults: it is updated in every
reconcile. Of what a spec can lack, the model has what the code dereferences
all the same: one section of an enrolment (`Breaks`, a panic in the conversion)
and a query service's retries. Password and block exist only for the kinds
that have a use for them. The clock is abstracted as in Committer.

### Frame, Genesis, Identity, CAEnrollment, Endorser, CA

`Frame` has the variables of Component (`inputs` is the version the cache shows
of each thing a controller needs of others: secrets, a CA) and the operators
these controllers share, each of which ends in what sets them apart as a
parameter: where `Begin` goes, how a status is reported (`UpdateStatus`, timed
or not), what a failed removal of the finalizer returns. A status is a state
with the set of facts recorded besides it, which for the Endorser is the names
of its certificate secrets. `made` is what an object was computed from. Three
of the controllers watch what they own (`Owns`), so that also these events
queue the resource.

| Module | Action | Code |
|---|---|---|
| `Frame` | `Begin`, `EnsureFinalizer`, `RemoveFinalizer`, `MarkFailed` | `Reconcile`, `ensureFinalizer`, `removeFinalizer`, `update*Status` |
| `Frame` | `Enrol` | a call of the CA: `EnrollUser`, `provisionComponentCertificateWithClient` |
| `Genesis` | `ValidateGenesis`, `FetchCertificate`, `GenerateBlock`, `StoreGenesisBlock` | `reconcileGenesis`, `genesis_service.go`, `shared_config.go`; the secrets in the order in which they are read |
| `Genesis` | `GenesisRunning`, `GenesisDeleting` | `updateGenesisStatus`, `handleDeletion` |
| `Identity` | `CheckOutput`, `EnrolX509`, `EnrolIdemix`, `StoreCredentials` | `outputSecretsExist`, `enrollment/x509.go`, `idemix/enrollment.go`, the writes of the secrets |
| `Identity` | `IdentityReports` | `updateStatusWithTime`: on the cached copy of the moment, failures returned as success |
| `CAEnrollment` | `CheckSecret`, `EnrolUser`, `StoreEnrolment`, `CAEnrollmentReady`, `CAEnrollmentDeleting`, `Expire` | `needsRenewal`, the enrolment, the secret, the daily look, `handleDeletion`, the passing of time |
| `Endorser` | `EnrolCertificate`, `StoreCertificate`, `WriteConfig`, `WriteService`, `RollOut`, `EndorserRunning` | `reconcileCertificates`, `reconcileCoreConfigSecret`, `reconcileService`, `reconcileDeployment`, the end of `Reconcile` |
| `CA` | `ReconcileConfigMaps`, `GenerateKeys`, `StoreKeys`, `ReconcilePVC`, `ReconcileService`, `ReconcileIngress`, `ReconcileDeployment`, `ReconcileAccount`, `ReconcileKeysJob` | the parts of `reconcileCA`; one that fails leaves the others to be tried (`StepFails`) |
| `CA` | `CADeleting`, `CADeletes`, `CADeleted` | `deleteResources` |

Abstractions. A certificate that does not parse counts as missing. What makes a
Genesis spec valid is three Booleans of it. A pair of keys that a CA makes in
one go is one number in each of its secrets. `Due` is the content of a secret
whose certificate expires within thirty days; `Expire` says nothing of when.
The three ConfigMaps of a CA, which `reconcileConfigMaps` writes one after the
other, are one object, as are the extractor's service account, role and binding:
a failure between two of them is in the model a failure of the one write, which
may have taken effect.
The number of a block stands for the nonce and the time in its header.
`ValidConfig` is whether the service makes a configuration of the spec at all: a
consensus section, parties with their nodes, an organisation of orderers, none
twice.

## 4. Runs

| Run | Shows |
|---|---|
| `OrdererGroup_safety` | type invariant, inductive invariant, refinement of `FinalizerProtocol`, children only for the live group, no roll-back of a child's spec; with edits, two incarnations, faults of every kind |
| `OrdererGroup_live` | at rest every listed child is as the current spec builds it and the status says so; the operator comes to rest; a deleted group and its children go away |
| `OrdererGroup_downsize` (violated) | a batcher dropped from the list stays |
| `ChainNamespace_check` | inductive invariant, refinement of `Submission`, never at rest before deployment; a resource that stays deployable is deployed in the end; a deleted one goes away |
| `ChainNamespace_duplicate` (violated) | a second broadcast after the deployment was recorded |
| `ChainNamespace_version` (violated) | version 0 becomes -1 when the finalizer is added |
| `Committer_check` | inductive invariant, refinement of `FinalizerProtocol`, no roll-back of a child's spec; a committer that stays has all its children in the end and says Running; a deleted one goes away |
| `Committer_leak` (violated) | a child created just before the deletion outlives the committer |
| `Component_check` | all nine component controllers, with an edited spec, deletion and re-creation, old copies, other writers, failed calls, panics, a rotated password and crashes: inductive invariant, refinement of `FinalizerProtocol`, live objects stay, and so does a certificate that the cache has shown; a component that stays in deploy mode ends up deployed as its last spec says, and Running; a deployment never precedes its inputs, and in the end its pods find all that they mount; a spec that cannot be carried out is reported; a deleted component goes away |
| `Component_storage` (violated) | an assembler with storage, which has all it needs and nothing else going wrong, does not stay Running: it replaces its bound claim, which the API server refuses |
| `Provisioning_check` | Genesis, Identity, CAEnrollment, Endorser and CA: inductive invariant, refinement of `FinalizerProtocol`; the stored block is that of the last spec with every certificate in it; an Identity gets a verdict that stays true; an enrolment is kept through its expiry; endorser and CA are rolled out for what they mount; the keys of a CA, once the cache shows them, are never replaced under it; deleted resources go away |
| `Provisioning_mounted` (violated) | an endorser whose status write is lost after its certificates were stored never mounts them |

Bounds. In OrdererGroup_safety and ChainNamespace `MaxUid` 2 allows one
re-creation, which is what relates two incarnations; one edit and one or two
faults make every single-failure interleaving happen at every step; one or two
batchers besides the three fixed children exercise the loop's early exit.
`MaxStale` bounds the reconciles that start before the cache caught up: one is
enough for a duplicate. Committer, Component and Provisioning have one budget:
`MaxTroubles` bounds how often one of the `Troubles` happens, a call that
fails, a crash, an edit, a write by somebody else, a re-creation. One trouble,
at any step, of any kind, is what the passing runs have; the deletion is free,
so that each trouble also meets a deletion. The counters (`edits`, `faults`,
`stale`, `troubles`) exist for these bounds only, and the proofs hold without
any.

In Component and Provisioning `Lagging` names the objects whose cached copies
may be behind, `Omitted` those that an instance leaves out, and `Chosen` the two
specs of a kind between which an edit or a re-creation may switch. For each kind
they are chosen for what is special about it: the consenter's configuration
lags, which is where an old read ends up in the pods' template, and its claim
shrinks or grows; the verifier's and the validator's certificate lag, which is
where a second enrolment meets the first and, after a re-creation, the
collector; sidecar and batcher go from a spec with half an enrolment, which
panics, to a whole one, the query service from one without retries; assembler
and router have the two kinds of Istio objects and the two kinds of routes.
Where the second certificate and the service are treated like the first
certificate and the deployment they are left out; the configuration never is.
The proofs take every kind with every spec, and any objects lagging. `Serials`
is large enough that a number is always free.

Fairness. `WF(CacheSync)`: a watch delivers, and reconnects when it breaks.
`WF(Reconciler)`: the work queue hands out queued keys and retries end.
`WF` of the component controllers and the garbage collector: they are
controllers of their own. Users and faults are not fair. In
`OrdererGroup_live` status writes do not fail: `updateOrdererGroupStatus`
drops the error and a successful reconcile is not repeated, so after a failed
status write the group shows an old status until the next event. A Committer
and a component repeat also their successes, so their runs have status faults
too. Component adds `WF(StoreGenesis)`, `WF(StorePassword)` and `WF` of
`BindVolume` once the deployment exists (a claim may wait for its first pod):
block, password and volume come in the end, however late; without them a
component waits, and is Failed, for good, as it should. `WF(ObjectSync)` and
`WF(GarbageCollect)` are those of the watches and of Kubernetes. In Provisioning
nobody has to supply what a controller needs: the liveness properties assume
it, for the resource they speak of (`Stays`). `FailureReported` does not ask of
a committer to overcome a lost status write, since its recovered panic is not
repeated.

## 5. Proofs

`OrdererGroupProofs` proves, for all values of the constants that satisfy
`GroupAssumption`: `TypeCorrect`, `Invariance`, `ChildrenOfLiveGroup`,
`SpecsMoveForward`, `ImplementsFinalizerProtocol`, `RestingGroupRuns`,
`RestingGroupConverged`, `MarkedGroupIsAttended`. The properties alone are not
inductive. That children are created only for the held group depends on the
finalizer seen in an *old copy* being still in place: `Base` says of the two
copies that they are snapshots of the group's past (`Snapshot`), that a
finalizer seen in an unmarked copy is held (`Guarded`: only this controller
removes it, and only after it saw the mark), that during a deletion the cache
no longer shows the group unmarked (`DeletionSeen`), and that children were
written from a generation no newer than the one in memory (`WrittenFromPast`).

What holds when the operator rests is about the reconcile before: as long as the
cache is up to date and the key is not queued (`Undisturbed`) no write of the
group has gone by since the reconcile began. Such a reconcile has the group
itself in memory, none of its writes is refused but by a fault, and every way
out of it either puts the key back, or changes the group, or leaves it RUNNING
and unmarked (`Attended`). The children it has passed are then as the group
builds them (`FirstConverges`) as no one marks a child of an unmarked group
(`FirstOwned`). `IInv` is `Base` with these three. `RestingGroupRuns` assumes
that no status write was lost to a fault (`StatusTold`), and
`RestingGroupConverged` is about the first group of its name; section 6 and the
hazards in `PROJECT.json` say what the code does otherwise.

`ChainNamespaceProofs` proves `Invariance`, `NeverGivesUp` and
`ImplementsSubmission` from `NamespaceAssumption`. Its `IInv` adds to the
guards that every id about to be recorded is an accepted envelope of the same
incarnation (`Recorded`) and that a queue without the key is backed either by a
recorded deployment or by a reconcile that works on the current version
(`Owed`).

`CommitterProofs` proves `Invariance`, `SpecsMoveForward` and
`ImplementsFinalizerProtocol` from `CommitterAssumption`, for one to five
children. Its `IInv` is that of OrdererGroup with `FreshIsCurrent` in the place
of the snapshots: a copy that counts as current differs from the server's
object at most in the status, which a failed write leaves changed in memory.

`ComponentProofs` proves `LiveObjectsRemain`, `CertificatesRemain` and
`ImplementsFinalizerProtocol` from `ComponentAssumption`, and `BaseInvariance`,
the part `Base` of the invariant that they rest on, for each of the nine
kinds, with any specs and any objects lagging. The pipelines enter through two
lemmas only: every plan is a sequence of steps (`PlanType`, from those of
`Orderers` and `Committers`), and whichever step is taken it writes one object,
owned by a component that the reconciler has read, or none (`PipelineEffect`).
A recovered panic keeps the copy in memory or replaces it by the cached one
(`RecoverCommitter`), which the invariant allows because "recovered" is not
among the places where objects are written. The refinement needs that a
component seen with the finalizer is held (`Guarded`), and that no cleanup
starts for an unmarked one (`DeletionSeen`). `LiveObjectsStay` is not inductive: a cleanup
deletes by name, and could meet an object of a later component. `OwnedByPast`
excludes this: the owner of every object is at most the uid in memory, which is
at most the cached one, which is at most the current one, so that an object
owned by the current component can only be met by a cleanup for that very
component. `CertificatesStay` is its own induction: whether a certificate is
settled (nothing in hand, and the cache shows what is stored) decides both steps
that could replace it, the enrolment by the cache and the storing by the hand,
and every other write is one of another object (`Apart`).

`DeploymentProofs` proves the whole invariant (`Invariance`) and
`DeploymentsHaveInputs`, for each of the nine kinds. The argument is about
order, so that the plans now have to be known step by step. `Rank` numbers the
steps a deployment waits for: enrol, then store, check and configuration, then
the deployment. A `Row` of steps has its ranks in order; rows put one after the
other are one (`RowConcat`), which gives the plans of the nine kinds from
their parts, with every step that has to be in them (`DeployPlans`). Then, as
long as the deployment is among the steps that are left (`Left`), each step that
is not left has done its work and nobody has undone it (`InputsFirst`): when a
step is taken off the plan it has made its object (`ConfigMade`, `GenesisMade`,
`EnrolMade`, `StoreMade`), and what is made stays (`MadeStays`), as the
component is held and a cleanup of it cannot have begun (`LiveKept`).

Three further parts are needed, since what a step makes depends on the cache.
`CreateOrUpdate` takes an object for made if the cache shows it as built; that
it exists, and not only did, is `SeenIsThere`: objects of the live component
are not removed before its reconciler has seen the mark (`Unmarked`). `Belongs`
excludes objects without an owner. Last, the password. With an edit and an edit
back before the cache shows the configuration written in between,
`CreateOrUpdate` skips the write and the deployment is made on the
configuration of the other spec; TLC found this for a query service or validator
with one spec that refers to a password and one that does not. So
`DeployedWithInputs` says `Passwordless`: without such a second spec the
password is in every configuration (`PasswordsChosen`). For a re-created
component the certificates are not promised, as section 6 explains.

`ProvisioningProofs` proves `BaseInvariance` and `ImplementsFinalizerProtocol`
from the assumptions of `Frame` and its five extensions, for any specs. The
operators of `Frame` have a lemma each, so that a controller's actions are
proved by naming the ones they are made of; the CA deletes by name during its
cleanup, and the Identity writes its status on the copy in the cache, which are
the two that need an argument of their own.

`KeyPairProofs` proves `Invariance` and `KeyPairsOfCARemain`. That no key pair of
a CA is replaced is decided when the three are generated or read, and happens
when they are stored, up to three steps later; between the two a crash, a
failure or the cache may intervene. `HandFollowsPlan` relates them: what is in
hand are the pairs that the plan stores next (`HandNext`), every reading is
followed by all three (`PairsFollow`), and none is stored without one
(`PairsHeld`). It holds of the plan as `reconcileCA` makes it (`PlanBegun`), and
a part that fails takes what is left of it off the plan with its hand emptied
(`FailsEmptyHanded`). So a settled CA has in hand only what was read from the
secrets themselves (`IssuedIsThere`), and storing that changes no key.

TLC only: the liveness properties, as liveness under fairness is out of the
proof system's reach.

## 6. Not modelled

See `PROJECT.json`, "components". Text layout of configuration templates, the
construction of Istio objects' contents, generated clients, the command line
plugin and flag parsing have no state of their own; leader election is off by
default, and two operators at once are not modelled, nor is the resync every
ten hours.

What the models leave out of the controllers they have:

* Recovered panics of OrdererGroup, ChainNamespace, Committer, Genesis, Endorser
  and CA.
* Pods and their roll-out: the models end with the deployment's template. The
  PVC-protection finalizer, and storage classes that allow no expansion;
  `ReplaceVolumeClaim` takes it that the class is named.
* A CA's claim that changes its size or class, and its Secrets and ConfigMaps
  that somebody made immutable, which `updateSecret` and `updateConfigMap` would
  delete and create again (`ca_controller.go:1861-1880`, `1811-1830`): the
  operator makes none.
* Identity: `validateExistingSecrets` finding a secret without one of its keys.
  An Identity whose Idemix section says disabled enrols again in every
  reconcile, as `outputSecretsExist` looks for the X.509 secret that is never
  made; `IdentityVerdict` is checked for the other specs.
* A query service whose password secret lacks the key composes its
  configuration with an empty password (the validator fails); the models have
  the key with the secret.

What the models have, and no property claims:

* The templates of router and assembler carry no hash, those of consenter and
  batcher one of the configuration alone (`docs/hash-based-rollout.md:89-92` has
  all four hash configuration and certificates), so that `CurrentHash` lacks
  them and what is new reaches the pods only with their next restart.
* After an edit that is taken back before the cache shows the configuration
  written in between, `CreateOrUpdate` skips the write
  (`committervalidator_controller.go:577`), and pods may start on the other
  spec's configuration, even one without the password, until the next
  reconcile.
* A component that is created again finds the certificate secrets of its
  predecessor, and may lose them to the garbage collector after it has passed
  them: its first deployment may come before its own certificates, which
  `DeployedWithInputs` asks for only of a first component. `EventuallyDeployed`
  has them come.
* The assembler's template mounts a claim that is made only with storage;
  `PodsCanStart` leaves the assembler out.
* The committer controller writes a fresh condition time in every reconcile
  (`committer_controller.go:815`), and the event of its own write wakes it again
  (`docs/reconciliation-loop-fix.md`). The models have these wake-ups; how often
  they come is a matter of rate, and they have no clock.
* Routes and claims of an earlier spec (a gateway that became Istio) are never
  removed before the component goes.
* The CA's ingress stays when it is disabled: `updateIngress`
  (`ca_controller.go:1985`) deletes it only when an enabled one loses its
  gateway. The secret that the extractor's Job writes is not deleted by
  `deleteResources`.
* `KeysStay` is about a CA whose cache has shown its three key pairs, and in
  `Provisioning_check` it is the CA's ConfigMap that lags, not its secrets. Before
  that, also of a deployed CA, the pairs may be replaced: `Certificates don't
  exist, need to generate` (`ca_controller.go:599`) is what the code makes of a
  secret that the cache does not show. All three pairs are generated, and when
  the cache has caught up by the time they are stored, `updateSecret`, which
  reads again, replaces the existing ones. With `"ca"` in `MCLagging` set to
  `{"tls"}` the model has this behaviour, without any trouble. A reconcile that
  read an old pair may likewise write it back over a new one, and while the cache keeps lagging
  this may repeat: no property says that the pairs settle.
* A genesis block has a new nonce and time whenever it is built, so that every
  reconcile of a Genesis, also the one after a restart of the operator, replaces
  the stored block by another one, under running nodes too.
* Genesis does not read changed certificates again by itself:
  `BlockFollowsSpec` asks for some version of each that was there.
* No certificate of a component, an endorser or an Identity is renewed, whatever
  `CERTIFICATE_PROVISIONING.md:221` and `235-237` say of renewal.
* A group that is created again while its children terminate adopts them, and
  is left without them: with `MaxUid` 2 `QuietMeansConverged` fails, which is
  why its theorem is about the first group.
