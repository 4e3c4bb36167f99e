---------------------------- MODULE ChainNamespace ----------------------------
(***************************************************************************)
(* The ChainNamespace controller                                           *)
(* (internal/controller/chainnamespace_controller.go): one custom          *)
(* resource, the informer cache its reconciler reads, the work queue, the  *)
(* reconciler as a sequential process, and the orderer it broadcasts       *)
(* namespace transactions to.                                              *)
(*                                                                         *)
(* A resourceVersion is modelled by what it is compared with: fresh is the *)
(* set of copies of the resource (the informer's, the reconciler's) that   *)
(* are the API server's current version.                                   *)
(***************************************************************************)
EXTENDS Integers, Sequences

CONSTANTS
  Specs,        \* the specs users write
  Flaky,        \* the resources that may be missing
  MaxUid,       \* how often the resource may be created
  MaxEdits,     \* how often its spec may be edited
  MaxFaults,    \* how many calls may fail for no reason of their own
  MaxStale,     \* how many reconciles may start from a stale cache
  FaultKinds    \* which calls: "object", "status", "deploy", "broadcast", "crash"

\* What a deployment needs from outside the resource: an Identity that is
\* ready, its secret with certificate and key, a key file in the operator's
\* container, the secret with the orderer's CA, the orderer itself.
Resources == {"identity", "secret", "keyFile", "tlsCA", "orderer"}

NamespaceSpec ==
  [complete : BOOLEAN,                    \* no mandatory field is empty
   tls      : {"off", "incomplete", "on"},
   keyPath  : BOOLEAN,                    \* verificationKeyPath is set
   version  : Int]

ASSUME NamespaceAssumption ==
  /\ Specs \subseteq NamespaceSpec /\ Specs # {}
  /\ Flaky \subseteq Resources
  /\ MaxUid \in Nat /\ MaxEdits \in Nat /\ MaxFaults \in Nat /\ MaxStale \in Nat
  /\ FaultKinds \subseteq {"object", "status", "deploy", "broadcast", "crash"}

\* What an Update does to the spec: the version is marshalled with omitempty,
\* so a zero is left out and the API server fills in the CRD's default, -1.
Marshalled(s) == [s EXCEPT !.version = IF @ = 0 THEN -1 ELSE @]

StoredSpecs == Specs \cup {Marshalled(s) : s \in Specs}

\* Version -1 stands for a new namespace: no version is sent.
createNamespacesTx(s) == IF s.version >= 0 THEN {s.version} ELSE {}

Bodies == {createNamespacesTx(s) : s \in StoredSpecs}

Namespaces ==
  [exists : BOOLEAN, uid : Nat, spec : StoredSpecs, fin : BOOLEAN,
   deleting : BOOLEAN, status : {"", "Failed", "Deployed"}, txID : Nat]

PCs == {"idle", "finalizer", "deploy", "broadcast", "deployed", "failed",
        "deletion"}

VARIABLES
  ns,         \* the resource in the API server
  cache,      \* the informer's copy
  mem,        \* the reconciler's copy
  fresh,      \* the copies that are the current version
  queue,      \* TRUE when the work queue holds the key
  pc,         \* where the reconciler is
  txID,       \* the id of the last envelope broadcast (its position in chain)
  chain,      \* the envelopes the orderer accepted
  available,  \* the outside resources that can be used now
  edits, faults, stale

vars == <<ns, cache, mem, fresh, queue, pc, txID, chain, available,
          edits, faults, stale>>

TypeOK ==
  /\ ns \in Namespaces /\ cache \in Namespaces /\ mem \in Namespaces
  /\ fresh \subseteq {"cache", "mem"}
  /\ queue \in BOOLEAN
  /\ pc \in PCs
  /\ txID \in Nat
  /\ chain \in Seq([uid : Nat, body : Bodies])
  /\ available \subseteq Resources
  /\ edits \in Nat /\ faults \in Nat /\ stale \in Nat

NoNamespace ==
  [exists |-> FALSE, uid |-> 0, spec |-> CHOOSE s \in Specs : TRUE,
   fin |-> FALSE, deleting |-> FALSE, status |-> "", txID |-> 0]

Init ==
  /\ ns = NoNamespace /\ cache = NoNamespace /\ mem = NoNamespace
  /\ fresh = {"cache", "mem"}
  /\ queue = FALSE /\ pc = "idle" /\ txID = 0 /\ chain = <<>>
  /\ available = Resources
  /\ edits = 0 /\ faults = 0 /\ stale = 0

-----------------------------------------------------------------------------
(* Users and the outside world                                              *)

\* A write by someone else: no copy is current any more.
Written(n) == ns' = n /\ fresh' = {}

CreateNamespace(s) ==
  /\ ~ns.exists /\ ns.uid < MaxUid
  /\ Written([NoNamespace EXCEPT !.exists = TRUE, !.uid = ns.uid + 1,
                                 !.spec = s])
  /\ UNCHANGED <<cache, mem, queue, pc, txID, chain, available, edits,
                 faults, stale>>

EditSpec(s) ==
  /\ ns.exists /\ edits < MaxEdits /\ s # ns.spec
  /\ Written([ns EXCEPT !.spec = s])
  /\ edits' = edits + 1
  /\ UNCHANGED <<cache, mem, queue, pc, txID, chain, available, faults,
                 stale>>

\* The API server only marks an object that still has a finalizer.
DeleteNamespace ==
  /\ ns.exists /\ ~ns.deleting
  /\ Written(IF ns.fin THEN [ns EXCEPT !.deleting = TRUE]
                       ELSE [ns EXCEPT !.exists = FALSE])
  /\ UNCHANGED <<cache, mem, queue, pc, txID, chain, available, edits,
                 faults, stale>>

\* Identities become ready or are lost, secrets come and go, the orderer
\* stops and restarts. None of it wakes the controller up (SetupWithManager
\* watches ChainNamespaces only).
Toggle(r) ==
  /\ available' = IF r \in available THEN available \ {r}
                                     ELSE available \cup {r}
  /\ UNCHANGED <<ns, cache, mem, fresh, queue, pc, txID, chain, edits,
                 faults, stale>>

CacheSync ==
  /\ "cache" \notin fresh
  /\ cache' = ns /\ fresh' = fresh \cup {"cache"}
  /\ queue' = TRUE
  /\ UNCHANGED <<ns, mem, pc, txID, chain, available, edits, faults, stale>>

-----------------------------------------------------------------------------
(* The API server's answer to the reconciler                                *)

\* A write is accepted only if the object is still the one that was read.
Current == ns.exists /\ ns.uid = mem.uid /\ "mem" \in fresh

Fault(kind) ==
  kind \in FaultKinds /\ faults < MaxFaults /\ faults' = faults + 1

\* Mutant: a patch by name, which carries no resourceVersion.
AcceptedByPatch(n) ==
  /\ ns.exists
  /\ ns' = n /\ mem' = n /\ fresh' = {"mem"}
  /\ UNCHANGED faults

\* An accepted write: the answer is decoded into the reconciler's copy.
Accepted(n) ==
  /\ Current
  /\ ns' = n /\ mem' = n /\ fresh' = {"mem"}
  /\ UNCHANGED faults

\* A write that returns an error: a conflict, a fault before the write, or
\* one after it (the answer is lost).
Refused(kind, n) ==
  /\ UNCHANGED mem
  /\ \/ ~Current /\ UNCHANGED <<ns, fresh, faults>>
     \/ Current /\ Fault(kind) /\ UNCHANGED <<ns, fresh>>
     \/ Current /\ Fault(kind) /\ Written(n)

-----------------------------------------------------------------------------
(* Reconcile                                                                *)

Goto(next) == pc' = next

\* Returning an error puts the key back, returning nothing does not.
Fail == Goto("idle") /\ queue' = TRUE
Done == Goto("idle") /\ UNCHANGED queue

\* The key is taken from the queue and the resource read from the cache.
StartReconcile ==
  /\ pc = "idle" /\ queue
  /\ IF "cache" \in fresh THEN UNCHANGED stale
                          ELSE stale < MaxStale /\ stale' = stale + 1
  /\ queue' = FALSE
  /\ mem' = cache
  /\ fresh' = IF "cache" \in fresh THEN {"cache", "mem"} ELSE {}
  /\ Goto(CASE ~cache.exists -> "idle"
            [] cache.exists /\ cache.deleting ->
                 IF cache.fin THEN "deletion" ELSE "idle"
            [] OTHER -> "finalizer")
  /\ UNCHANGED <<ns, cache, txID, chain, available, edits, faults>>

\* Mutant: a refused finalizer is logged and forgotten.
EnsureFinalizerIgnoringErrors ==
  /\ pc = "finalizer"
  /\ LET guarded == [ns EXCEPT !.fin = TRUE, !.spec = Marshalled(mem.spec)]
     IN \/ mem.fin /\ UNCHANGED <<ns, mem, fresh, faults>>
        \/ ~mem.fin /\ (Accepted(guarded) \/ Refused("object", guarded))
  /\ Goto("deploy")
  /\ UNCHANGED <<cache, queue, txID, chain, available, edits, stale>>

EnsureFinalizer ==
  /\ pc = "finalizer"
  /\ LET guarded == [ns EXCEPT !.fin = TRUE, !.spec = Marshalled(mem.spec)]
     IN \/ mem.fin /\ Goto("deploy") /\ UNCHANGED <<ns, mem, fresh, faults, queue>>
        \/ ~mem.fin /\ Accepted(guarded) /\ Goto("deploy") /\ UNCHANGED queue
        \/ ~mem.fin /\ Refused("object", guarded) /\ Fail
  /\ UNCHANGED <<cache, txID, chain, available, edits, stale>>

validateNamespace(s) == s.complete /\ s.tls # "incomplete"

\* setupMSPFromIdentity, and the verification key if the spec names a file.
Signing(s) ==
  {"identity", "secret"} \cup (IF s.keyPath THEN {"keyFile"} ELSE {})

\* The orderer, and the secret with its CA if TLS is on.
Dialing(s) == {"orderer"} \cup (IF s.tls = "on" THEN {"tlsCA"} ELSE {})

Deployed(n) == n.status = "Deployed" /\ n.txID # 0

\* Mutant: a resource that has any status is not tried again.
SkipAnyStatus == mem.status # ""

\* Only a recorded deployment makes Reconcile stop early.
Skip == Deployed(mem)

\* deployNamespace up to the signed envelope.
PrepareEnvelope ==
  /\ pc = "deploy"
  /\ \/ Skip /\ Done /\ UNCHANGED faults
     \/ /\ ~Skip
        /\ validateNamespace(mem.spec) /\ Signing(mem.spec) \subseteq available
        /\ Goto("broadcast") /\ UNCHANGED <<queue, faults>>
     \/ /\ ~Skip
        /\ ~(validateNamespace(mem.spec) /\ Signing(mem.spec) \subseteq available)
        /\ Goto("failed") /\ UNCHANGED <<queue, faults>>
     \/ ~Skip /\ Fault("deploy") /\ Goto("failed") /\ UNCHANGED queue
  /\ UNCHANGED <<ns, cache, mem, fresh, txID, chain, available, edits, stale>>

\* Every envelope has a new nonce, so every one is a new transaction. The
\* orderer accepts it and says so, accepts it and the answer is lost, or does
\* not get it.
Broadcast ==
  /\ pc = "broadcast"
  /\ LET envelope == [uid |-> mem.uid, body |-> createNamespacesTx(mem.spec)]
         ordered  == chain' = Append(chain, envelope)
         reached  == Dialing(mem.spec) \subseteq available
     IN \/ /\ reached /\ ordered /\ txID' = Len(chain) + 1
           /\ Goto("deployed") /\ UNCHANGED faults
        \/ /\ reached /\ Fault("broadcast") /\ ordered
           /\ Goto("failed") /\ UNCHANGED txID
        \/ /\ \/ ~reached /\ UNCHANGED faults
              \/ reached /\ Fault("broadcast")
           /\ Goto("failed") /\ UNCHANGED <<chain, txID>>
  /\ UNCHANGED <<ns, cache, mem, fresh, queue, available, edits, stale>>

MarkDeployed ==
  /\ pc = "deployed"
  /\ LET recorded == [ns EXCEPT !.status = "Deployed", !.txID = txID]
     IN \/ Accepted(recorded) /\ Done
        \/ Refused("status", recorded) /\ Fail
  /\ UNCHANGED <<cache, txID, chain, available, edits, stale>>

\* Mutant: the failure is reported in the status and not returned.
MarkFailedNoRetry ==
  /\ pc = "failed"
  /\ LET recorded == [ns EXCEPT !.status = "Failed", !.txID = 0]
     IN Accepted(recorded) \/ Refused("status", recorded)
  /\ Done
  /\ UNCHANGED <<cache, txID, chain, available, edits, stale>>

\* The outcome of the status write is logged only. Writing the status that is
\* there already may change nothing: the condition's time is in seconds.
MarkFailed ==
  /\ pc = "failed"
  /\ LET recorded == [ns EXCEPT !.status = "Failed", !.txID = 0]
     IN \/ Accepted(recorded)
        \/ Current /\ ns = recorded /\ UNCHANGED <<ns, mem, fresh, faults>>
        \/ Refused("status", recorded)
  /\ Fail
  /\ UNCHANGED <<cache, txID, chain, available, edits, stale>>

\* Mutant: a finalizer that could not be removed is not retried.
HandleDeletionNoRetry ==
  /\ pc = "deletion"
  /\ LET released == [ns EXCEPT !.fin = FALSE, !.exists = ~ns.deleting,
                                !.spec = Marshalled(mem.spec)]
     IN Accepted(released) \/ Refused("object", released)
  /\ Done
  /\ UNCHANGED <<cache, txID, chain, available, edits, stale>>

\* handleDeletion: the namespace stays on the chain, the finalizer goes.
HandleDeletion ==
  /\ pc = "deletion"
  /\ LET released == [ns EXCEPT !.fin = FALSE, !.exists = ~ns.deleting,
                                !.spec = Marshalled(mem.spec)]
     IN \/ Accepted(released) /\ Done
        \/ Refused("object", released) /\ Fail
  /\ UNCHANGED <<cache, txID, chain, available, edits, stale>>

\* The operator dies and comes back: the informer lists afresh, and every
\* listed object is queued.
OperatorCrash ==
  /\ Fault("crash")
  /\ Goto("idle")
  /\ cache' = ns /\ fresh' = {"cache"}
  /\ queue' = ns.exists
  /\ UNCHANGED <<ns, mem, txID, chain, available, edits, stale>>

-----------------------------------------------------------------------------

Outside ==
  \/ \E s \in Specs : CreateNamespace(s) \/ EditSpec(s)
  \/ DeleteNamespace
  \/ \E r \in Flaky : Toggle(r)

Reconciler ==
  \/ StartReconcile \/ EnsureFinalizer \/ PrepareEnvelope \/ Broadcast
  \/ MarkDeployed \/ MarkFailed \/ HandleDeletion

Next == Outside \/ CacheSync \/ Reconciler \/ OperatorCrash

\* The watch delivers and the worker runs; nobody else owes anything.
Fairness == WF_vars(CacheSync) /\ WF_vars(Reconciler)

Spec     == Init /\ [][Next]_vars
FairSpec == Spec /\ Fairness
-----------------------------------------------------------------------------
(* Properties                                                               *)

\* A copy that counts as current is the server's object.
FreshIsCurrent ==
  /\ "cache" \in fresh => cache = ns
  /\ "mem" \in fresh => mem = ns

\* The finalizer seen in the copy n is the one the resource carries.
Held(n) == ns.exists /\ ns.uid = n.uid /\ ns.fin

Guarded ==
  /\ ns.exists /\ ns.deleting => ns.fin
  /\ cache.exists /\ cache.fin /\ ~cache.deleting => Held(cache)
  /\ pc = "finalizer" /\ mem.fin => Held(mem)
  /\ pc \in {"deploy", "broadcast", "deployed", "failed"} => Held(mem)

\* During the deletion of a resource the cache never shows it unmarked.
DeletionSeen ==
  /\ cache.uid <= ns.uid /\ mem.uid <= ns.uid
  /\ cache.exists /\ cache.deleting /\ ns.exists /\ cache.uid = ns.uid =>
       ns.deleting
  /\ pc = "deletion" =>
       /\ mem.deleting
       /\ ns.exists /\ ns.uid = mem.uid => ns.deleting
       /\ cache.exists /\ cache.uid = mem.uid => cache.deleting

\* What is recorded, or about to be, was accepted for this incarnation.
OwnEnvelope(t, uid) == t \in DOMAIN chain /\ chain[t].uid = uid

Recorded ==
  /\ \A i \in DOMAIN chain : chain[i].uid <= ns.uid
  /\ ns.exists /\ ns.txID # 0 => OwnEnvelope(ns.txID, ns.uid)
  /\ \A n \in {ns, cache, mem} : n.txID # 0 <=> n.status = "Deployed"
  /\ ns.exists => ns.uid # 0
  /\ pc = "deployed" => OwnEnvelope(txID, mem.uid)
  /\ pc \in {"broadcast", "deployed", "failed"} => mem.txID = 0

\* A reconcile that nothing has overtaken works on the current version, and
\* when there is no work in sight none is owed.
Owed ==
  ~queue /\ "cache" \in fresh =>
    IF pc = "idle" THEN ns.exists => Deployed(ns) ELSE mem = ns

\* The inductive invariant: with it every broadcast and every status write
\* happens for the resource that was read, held by the finalizer.
IInv ==
  TypeOK /\ FreshIsCurrent /\ Guarded /\ DeletionSeen /\ Recorded /\ Owed

Log == INSTANCE Submission
  WITH Body     <- Bodies,
       owner    <- IF ns.exists THEN ns.uid ELSE 0,
       held     <- ns.exists /\ ns.fin,
       log      <- chain,
       recorded <- IF ns.exists THEN ns.txID ELSE 0

\* In spite of stale reads, duplicate broadcasts, conflicts, lost answers and
\* crashes, the recorded transaction is one that was accepted for this
\* resource, it never changes, and nothing is sent for a resource that the
\* controller does not hold (Reconcile, updateStatus).
RecordsAcceptedTransaction == Log!Spec

Quiet == pc = "idle" /\ ~queue /\ "cache" \in fresh

\* The operator never gives up: when it rests, the resource is deployed,
\* although nothing but its own retries tells it that an identity became
\* ready or the orderer came back (Reconcile returning the error).
QuietMeansDeployed == Quiet /\ ns.exists => Deployed(ns)

\* What the resource needs is there, and it is not being deleted.
Deployable ==
  /\ ns.exists /\ ~ns.deleting /\ validateNamespace(ns.spec)
  /\ Signing(ns.spec) \cup Dialing(ns.spec) \subseteq available

\* A resource that stays deployable is deployed in the end and the operator
\* comes to rest.
EventuallyDeployed == <>[]Deployable => <>[](Quiet /\ Deployed(ns))

\* A deleted resource goes away, deployable or not.
DeletionCompletes == ns.deleting ~> ~ns.exists

\* No envelope is sent for a resource whose deployment is already recorded
\* ("Skip if already deployed successfully").
NoBroadcastOnceDeployed == [][chain' # chain => ~Deployed(ns)]_vars

\* The operator leaves the spec as the user wrote it: a version that is not
\* negative is the version of the namespace to update.
OperatorKeepsSpec ==
  [][Reconciler => ns'.spec = ns.spec]_vars
=============================================================================
