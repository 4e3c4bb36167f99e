---------------------------- MODULE OrdererGroup ----------------------------
(***************************************************************************)
(* The OrdererGroup controller                                             *)
(* (internal/controller/orderergroup_controller.go): one custom resource,  *)
(* the informer cache its reconciler reads from, the work queue, the       *)
(* reconciler itself as a sequential process, and the child custom         *)
(* resources (consenter, assembler, router, batchers) it writes.           *)
(*                                                                         *)
(* Users create, edit and delete the group at any time; a component        *)
(* controller finishes the deletion of a child; the garbage collector      *)
(* deletes children of a group that is gone; the operator may crash.       *)
(***************************************************************************)
EXTENDS Naturals, FiniteSets

CONSTANTS
  MaxBatchers,  \* batcher indices are 0 .. MaxBatchers-1
  Settings,     \* values of a field a component inherits from spec.common
  Unset,        \* the zero value of such a field
  Ids,          \* consenter and shard identifiers
  Specs,        \* the group specs users write
  MaxUid,       \* how often the group may be created
  MaxEdits,     \* how often its spec may be edited
  MaxFaults,    \* how many API calls may fail for no reason of their own
  FaultKinds    \* which: "status", "object", "child", "crash"

-----------------------------------------------------------------------------
(* Children are numbered in the order the reconciler walks them.            *)

Child     == 1 .. (3 + MaxBatchers)
Batcher   == 4 .. (3 + MaxBatchers)
Last      == 3 + MaxBatchers
Consenter == 1
Assembler == 2
Router    == 3

Modes == {"", "configure", "deploy"}

\* spec.components.<c>; on = FALSE when the component is not listed.
ComponentConfig == [on : BOOLEAN, setting : Settings \cup {Unset}, id : Ids]

\* Batchers are a list, so the listed indices are a prefix of 0, 1, 2, ...
GroupSpec ==
  {s \in [manage : BOOLEAN, mode : Modes, common : Settings \cup {Unset},
          cfg : [Child -> ComponentConfig]] :
     \A b \in Batcher : s.cfg[b].on => \A a \in Batcher : a < b => s.cfg[a].on}

Wanted(s) == {c \in Child : s.cfg[c].on}

\* What a build*Spec function copies into a child: the bootstrap mode with
\* its default, and every inheritable field with the component's own value
\* taking precedence over spec.common.
Merged(s, config) ==
  [mode    |-> IF s.mode = "" THEN "configure" ELSE s.mode,
   setting |-> IF config.setting # Unset THEN config.setting ELSE s.common]

\* Only consenters and batchers carry an identifier of their own
\* (ConsenterID, ShardID); the party id is the group's.
WithId(m, i) == [mode |-> m.mode, setting |-> m.setting, id |-> {i}]
NoId(m)      == [mode |-> m.mode, setting |-> m.setting, id |-> {}]

BuildConsenterSpecFromInstance(s) ==
  WithId(Merged(s, s.cfg[Consenter]), s.cfg[Consenter].id)
BuildAssemblerSpec(s)  == NoId(Merged(s, s.cfg[Assembler]))
BuildRouterSpec(s)     == NoId(Merged(s, s.cfg[Router]))
\* Mutant: the list index instead of the shard id.
BuildBatcherSpecByIndex(s, b) == WithId(Merged(s, s.cfg[b]), b - 4)
BuildBatcherSpec(s, b) == WithId(Merged(s, s.cfg[b]), s.cfg[b].id)

BuildSpec(s, c) ==
  CASE c = Consenter -> BuildConsenterSpecFromInstance(s)
    [] c = Assembler -> BuildAssemblerSpec(s)
    [] c = Router    -> BuildRouterSpec(s)
    [] OTHER         -> BuildBatcherSpec(s, c)

ChildSpec == [mode : Modes, setting : Settings \cup {Unset}, id : SUBSET Ids]

-----------------------------------------------------------------------------

Statuses == {"", "Initializing", "Running", "Deleting", "FailedFinalizer",
             "FailedChildren", "FailedRemoval"}

Groups == [exists : BOOLEAN, uid : Nat, rv : Nat, gen : Nat, spec : Specs,
           status : Statuses, fin : BOOLEAN, deleting : BOOLEAN]

\* owner is the uid in the owner reference, 0 if there is none; from is the
\* generation of the group spec the child was last written with.
Children == [exists : BOOLEAN, owner : Nat, deleting : BOOLEAN, from : Nat,
             spec : ChildSpec]

NoChild == [exists |-> FALSE, owner |-> 0, deleting |-> FALSE, from |-> 0,
            spec |-> [mode |-> "", setting |-> Unset, id |-> {}]]

ASSUME GroupAssumption ==
  /\ MaxBatchers \in Nat
  /\ MaxUid \in Nat /\ MaxEdits \in Nat /\ MaxFaults \in Nat
  /\ Specs \subseteq GroupSpec /\ Specs # {}
  /\ FaultKinds \subseteq {"status", "object", "child", "crash"}

PCs == {"idle", "init", "finalizer", "children", "running",
        "failFinalizer", "failChildren",
        "deleting", "cleanup", "removal", "failRemoval"}

VARIABLES
  group,    \* the OrdererGroup in the API server
  cache,    \* the informer's copy of it
  queue,    \* TRUE when the work queue holds the group's key
  pc,       \* where the reconciler is
  mem,      \* the reconciler's in-memory copy of the group
  todo,     \* the next child the reconciler looks at
  children, \* the child resources in the API server
  edits,    \* spec edits so far
  faults    \* faults so far

vars == <<group, cache, queue, pc, mem, todo, children, edits, faults>>
system == <<group, children>>

TypeOK ==
  /\ group \in Groups
  /\ cache \in Groups
  /\ queue \in BOOLEAN
  /\ pc \in PCs
  /\ mem \in Groups
  /\ todo \in 1 .. (Last + 1)
  /\ children \in [Child -> Children]
  /\ edits \in Nat
  /\ faults \in Nat

\* Before its creation the group does not exist; its spec is a placeholder.
NoGroup ==
  [exists |-> FALSE, uid |-> 0, rv |-> 0, gen |-> 0,
   spec |-> CHOOSE s \in Specs : TRUE,
   status |-> "", fin |-> FALSE, deleting |-> FALSE]

Init ==
  /\ group = NoGroup /\ cache = NoGroup /\ mem = NoGroup
  /\ queue = FALSE /\ pc = "idle" /\ todo = 1
  /\ children = [c \in Child |-> NoChild]
  /\ edits = 0 /\ faults = 0

-----------------------------------------------------------------------------
(* Users                                                                    *)

\* Every accepted write gives the object a new resourceVersion.
Bump(g) == [g EXCEPT !.rv = @ + 1]

\* A re-created group has a fresh uid; gen orders specs across incarnations.
CreateGroup(s) ==
  /\ ~group.exists /\ group.uid < MaxUid
  /\ group' = [exists |-> TRUE, uid |-> group.uid + 1, rv |-> 1,
               gen |-> group.gen + 1, spec |-> s, status |-> "",
               fin |-> FALSE, deleting |-> FALSE]
  /\ UNCHANGED <<cache, queue, pc, mem, todo, children, edits, faults>>

EditSpec(s) ==
  /\ group.exists /\ edits < MaxEdits /\ s # group.spec
  /\ group' = Bump([group EXCEPT !.spec = s, !.gen = @ + 1])
  /\ edits' = edits + 1
  /\ UNCHANGED <<cache, queue, pc, mem, todo, children, faults>>

\* The API server only marks an object that still has a finalizer.
DeleteGroup ==
  /\ group.exists /\ ~group.deleting
  /\ group' = IF group.fin THEN Bump([group EXCEPT !.deleting = TRUE])
                           ELSE [group EXCEPT !.exists = FALSE]
  /\ UNCHANGED <<cache, queue, pc, mem, todo, children, edits, faults>>

-----------------------------------------------------------------------------
(* The API server's answer to the reconciler                                *)

\* Optimistic concurrency: a write of the in-memory copy is accepted only
\* if the object is still the one that was read.
Current ==
  group.exists /\ group.uid = mem.uid /\ group.rv = mem.rv

Fault(kind) ==
  kind \in FaultKinds /\ faults < MaxFaults /\ faults' = faults + 1

\* A write of the group fails on a conflict, or by a fault.
Refused(kind) == IF Current THEN Fault(kind) ELSE UNCHANGED faults

\* Mutant: a patch by name, which carries no resourceVersion.
AcceptedByPatch(g) ==
  /\ group.exists
  /\ group' = Bump(g)
  /\ mem' = group'
  /\ UNCHANGED faults

\* An accepted write decodes the server's object into the in-memory copy.
Accepted(g) ==
  /\ Current
  /\ group' = Bump(g)
  /\ mem' = group'
  /\ UNCHANGED faults

\* updateOrdererGroupStatus: nothing is sent when status and message are
\* already those in memory; a failed write is logged and forgotten.
UpdateStatus(st) ==
  \/ mem.status = st /\ UNCHANGED <<group, mem, faults>>
  \/ mem.status # st /\ Accepted([group EXCEPT !.status = st])
  \/ /\ mem.status # st /\ Refused("status")
     /\ mem' = [mem EXCEPT !.status = st]
     /\ UNCHANGED group

-----------------------------------------------------------------------------
(* The informer                                                             *)

CacheSync ==
  /\ cache # group
  /\ cache' = group
  /\ queue' = TRUE
  /\ UNCHANGED <<group, pc, mem, todo, children, edits, faults>>

-----------------------------------------------------------------------------
(* Reconcile                                                                *)

Goto(next) == pc' = next

\* The key is taken from the queue and the group read from the cache.
StartReconcile ==
  /\ pc = "idle" /\ queue
  /\ queue' = FALSE
  /\ mem' = cache
  /\ todo' = 1
  /\ \/ ~cache.exists /\ Goto("idle")
     \/ cache.exists /\ cache.deleting /\ Goto("deleting")
     \/ /\ cache.exists /\ ~cache.deleting
        /\ Goto(IF cache.status = "" THEN "init" ELSE "finalizer")
  /\ UNCHANGED <<group, cache, children, edits, faults>>

InitialiseStatus ==
  /\ pc = "init"
  /\ UpdateStatus("Initializing")
  /\ Goto("finalizer")
  /\ UNCHANGED <<cache, queue, todo, children, edits>>

\* Mutant: a refused finalizer is logged and forgotten, like a status.
EnsureFinalizerIgnoringErrors ==
  /\ pc = "finalizer"
  /\ \/ mem.fin /\ UNCHANGED <<group, mem, faults>>
     \/ ~mem.fin /\ Accepted([group EXCEPT !.fin = TRUE])
     \/ ~mem.fin /\ Refused("object") /\ UNCHANGED <<group, mem>>
  /\ Goto("children")
  /\ UNCHANGED <<cache, queue, todo, children, edits>>

EnsureFinalizer ==
  /\ pc = "finalizer"
  /\ \/ mem.fin /\ Goto("children") /\ UNCHANGED <<group, mem, faults>>
     \/ ~mem.fin /\ Accepted([group EXCEPT !.fin = TRUE]) /\ Goto("children")
     \/ /\ ~mem.fin /\ Refused("object") /\ Goto("failFinalizer")
        /\ UNCHANGED <<group, mem>>
  /\ UNCHANGED <<cache, queue, todo, children, edits>>

\* Mutant: children without an owner reference.
CreateOrUpdateUnowned(c) ==
  [exists   |-> TRUE,
   owner    |-> 0,
   deleting |-> children[c].exists /\ children[c].deleting,
   from     |-> mem.gen,
   spec     |-> BuildSpec(mem.spec, c)]

\* What create-or-update leaves behind: an existing child keeps its owner
\* and deletion mark and gets the built spec; a new one is owned by the group.
CreateOrUpdate(c) ==
  [exists   |-> TRUE,
   owner    |-> IF children[c].exists THEN children[c].owner ELSE mem.uid,
   deleting |-> children[c].exists /\ children[c].deleting,
   from     |-> mem.gen,
   spec     |-> BuildSpec(mem.spec, c)]

\* The Get and the Update that follows are one step: the Update carries the
\* resourceVersion of the Get, so a write in between makes it fail. A failed
\* call may still have been applied (the answer was lost).
ReconcileChild ==
  /\ pc = "children" /\ mem.spec.manage /\ todo <= Last
  /\ LET written == [children EXCEPT ![todo] = CreateOrUpdate(todo)]
     IN \/ /\ todo \notin Wanted(mem.spec)
           /\ todo' = todo + 1 /\ UNCHANGED <<pc, children, faults>>
        \/ /\ todo \in Wanted(mem.spec)
           /\ children' = written
           /\ todo' = todo + 1 /\ UNCHANGED <<pc, faults>>
        \/ /\ todo \in Wanted(mem.spec) /\ Fault("child")
           /\ children' \in {children, written}
           /\ Goto("failChildren") /\ UNCHANGED todo
  /\ UNCHANGED <<group, cache, queue, mem, edits>>

ChildrenReconciled ==
  /\ pc = "children" /\ (mem.spec.manage => todo > Last)
  /\ Goto("running")
  /\ UNCHANGED <<group, cache, queue, mem, todo, children, edits, faults>>

\* Mutant: RUNNING is reported after the first initialisation only.
MarkRunningOnce ==
  /\ pc = "running"
  /\ IF mem.status = "Initializing" THEN UpdateStatus("Running")
                                  ELSE UNCHANGED <<group, mem, faults>>
  /\ Goto("idle")
  /\ UNCHANGED <<cache, queue, todo, children, edits>>

\* Mutant: success requeues the key.
MarkRunningRequeue ==
  /\ pc = "running"
  /\ UpdateStatus("Running")
  /\ queue' = TRUE
  /\ Goto("idle")
  /\ UNCHANGED <<cache, todo, children, edits>>

\* Success returns an empty result: the key is not requeued.
MarkRunning ==
  /\ pc = "running"
  /\ UpdateStatus("Running")
  /\ Goto("idle")
  /\ UNCHANGED <<cache, queue, todo, children, edits>>

FailureStatus ==
  CASE pc = "failFinalizer" -> "FailedFinalizer"
    [] pc = "failChildren"  -> "FailedChildren"
    [] OTHER                -> "FailedRemoval"

\* Mutant: the error is reported in the status but not returned.
MarkFailedNoRetry ==
  /\ pc \in {"failFinalizer", "failChildren", "failRemoval"}
  /\ UpdateStatus(FailureStatus)
  /\ Goto("idle")
  /\ UNCHANGED <<cache, queue, todo, children, edits>>

\* A returned error puts the key back (rate limited).
MarkFailed ==
  /\ pc \in {"failFinalizer", "failChildren", "failRemoval"}
  /\ UpdateStatus(FailureStatus)
  /\ queue' = TRUE
  /\ Goto("idle")
  /\ UNCHANGED <<cache, todo, children, edits>>

-----------------------------------------------------------------------------
(* handleDeletion                                                           *)

MarkDeleting ==
  /\ pc = "deleting"
  /\ UpdateStatus("Deleting")
  /\ Goto("cleanup")
  /\ UNCHANGED <<cache, queue, todo, children, edits>>

\* Delete marks the child; its controller finishes the deletion. Errors are
\* logged only, but the loop over the batchers ends at its first error,
\* which includes a batcher that is not found.
CleanupChild ==
  /\ pc = "cleanup" /\ mem.spec.manage /\ todo <= Last
  /\ LET deleted == [children EXCEPT ![todo].deleting = TRUE]
         nextOnError == IF todo \in Batcher THEN Last + 1 ELSE todo + 1
     IN \/ /\ todo \notin Wanted(mem.spec)
           /\ todo' = todo + 1 /\ UNCHANGED <<children, faults>>
        \/ /\ todo \in Wanted(mem.spec) /\ children[todo].exists
           /\ children' = deleted
           /\ todo' = todo + 1 /\ UNCHANGED faults
        \/ /\ todo \in Wanted(mem.spec) /\ ~children[todo].exists
           /\ todo' = nextOnError /\ UNCHANGED <<children, faults>>
        \/ /\ todo \in Wanted(mem.spec) /\ children[todo].exists
           /\ Fault("child")
           /\ children' \in {children, deleted}
           /\ todo' = nextOnError
  /\ UNCHANGED <<group, cache, queue, pc, mem, edits>>

CleanupDone ==
  /\ pc = "cleanup" /\ (mem.spec.manage => todo > Last)
  /\ Goto("removal")
  /\ UNCHANGED <<group, cache, queue, mem, todo, children, edits, faults>>

\* Mutant: a finalizer that could not be removed is neither reported nor
\* retried.
RemoveFinalizerIgnoringErrors ==
  /\ pc = "removal"
  /\ \/ Accepted([group EXCEPT !.fin = FALSE, !.exists = ~group.deleting])
     \/ Refused("object") /\ UNCHANGED <<group, mem>>
  /\ Goto("idle")
  /\ UNCHANGED <<cache, queue, todo, children, edits>>

\* The API server removes a marked object with its last finalizer.
RemoveFinalizer ==
  /\ pc = "removal"
  /\ \/ Accepted([group EXCEPT !.fin = FALSE, !.exists = ~group.deleting])
        /\ Goto("idle")
     \/ Refused("object") /\ Goto("failRemoval") /\ UNCHANGED <<group, mem>>
  /\ UNCHANGED <<cache, queue, todo, children, edits>>

-----------------------------------------------------------------------------
(* The environment                                                          *)

\* A component controller removes its own finalizer from a marked child.
ComponentDone(c) ==
  /\ children[c].exists /\ children[c].deleting
  /\ children' = [children EXCEPT ![c] = NoChild]
  /\ UNCHANGED <<group, cache, queue, pc, mem, todo, edits, faults>>

\* The garbage collector deletes a child whose owner uid is gone.
GarbageCollect(c) ==
  /\ children[c].exists /\ ~children[c].deleting
  /\ children[c].owner # 0
  /\ ~(group.exists /\ group.uid = children[c].owner)
  /\ children' = [children EXCEPT ![c].deleting = TRUE]
  /\ UNCHANGED <<group, cache, queue, pc, mem, todo, edits, faults>>

\* The operator dies and comes back: the informer lists afresh, and every
\* listed object is queued.
OperatorCrash ==
  /\ Fault("crash")
  /\ pc' = "idle"
  /\ cache' = group
  /\ queue' = group.exists
  /\ UNCHANGED <<group, mem, todo, children, edits>>

-----------------------------------------------------------------------------

User == (\E s \in Specs : CreateGroup(s) \/ EditSpec(s)) \/ DeleteGroup

Reconciler ==
  \/ StartReconcile \/ InitialiseStatus \/ EnsureFinalizer
  \/ ReconcileChild \/ ChildrenReconciled \/ MarkRunning \/ MarkFailed
  \/ MarkDeleting \/ CleanupChild \/ CleanupDone \/ RemoveFinalizer

Environment == (\E c \in Child : ComponentDone(c) \/ GarbageCollect(c))

Next == User \/ CacheSync \/ Reconciler \/ Environment \/ OperatorCrash

\* The watch delivers, the worker runs, component controllers and the garbage
\* collector do their work; users owe nothing and faults need not happen.
Fairness ==
  /\ WF_vars(CacheSync)
  /\ WF_vars(Reconciler)
  /\ \A c \in Child : WF_vars(ComponentDone(c)) /\ WF_vars(GarbageCollect(c))

Spec     == Init /\ [][Next]_vars
FairSpec == Spec /\ Fairness
-----------------------------------------------------------------------------
(* Properties                                                               *)

\* A copy s of the group is a snapshot of the past of g: never ahead of it,
\* equal to it when the resourceVersion is the same, and marked for good.
Snapshot(s, g) ==
  /\ s.uid <= g.uid /\ s.gen <= g.gen
  /\ s.uid = g.uid => s.rv <= g.rv
  /\ g.exists /\ s.exists /\ s.uid = g.uid =>
       /\ s.rv = g.rv => /\ s.fin = g.fin /\ s.deleting = g.deleting
                        /\ s.gen = g.gen /\ s.spec = g.spec
       /\ s.deleting => g.deleting

\* The finalizer seen in the copy s is the one the group g carries.
Held(s, g) == g.exists /\ g.uid = s.uid /\ g.fin

Guarded ==
  /\ pc # "idle" => mem.exists
  /\ group.exists /\ group.deleting => group.fin
  /\ cache.exists /\ cache.fin /\ ~cache.deleting => Held(cache, group)
  /\ pc \in {"init", "finalizer", "children"} /\ mem.fin => Held(mem, group)
  /\ pc = "children" => mem.fin

\* During the deletion of a group the cache never shows it unmarked.
DeletionSeen ==
  pc \in {"deleting", "cleanup", "removal"} =>
    /\ mem.exists /\ mem.deleting
    /\ cache.exists /\ cache.uid = mem.uid => cache.deleting

\* Children were written from a spec no newer than the one in memory.
WrittenFromPast ==
  /\ \A c \in Child : children[c].from <= mem.gen
  /\ mem.gen <= cache.gen

\* What the safety of the children rests on: what the reconciler reads, late
\* as it may be, is enough to know that the group is held by the finalizer
\* whenever children are written.
Base ==
  /\ TypeOK
  /\ Snapshot(cache, group) /\ Snapshot(mem, group)
  /\ Guarded /\ DeletionSeen /\ WrittenFromPast

\* No write of the group has gone by since the key was taken from the queue.
Undisturbed == group.exists /\ cache = group /\ ~queue

\* So far no status write failed but for a conflict.
StatusTold == "status" \in FaultKinds => faults = 0

\* An undisturbed reconcile has the group in memory, but for a status that
\* could not be written; and it ends without its key in the queue only if all
\* is done: no group marked for deletion is left behind, nor an old status.
Attended ==
  /\ pc \in {"init", "finalizer"} => todo = 1
  /\ Undisturbed /\ pc # "idle" =>
       /\ mem = [group EXCEPT !.status = mem.status]
       /\ StatusTold => mem.status = group.status
       /\ pc \in {"init", "finalizer", "children", "running"} =>
            ~group.deleting
  /\ Undisturbed /\ pc = "idle" =>
       ~group.deleting /\ (StatusTold => group.status = "Running")

\* The children of the first group of its name are its own, and none is
\* marked while it is not.
FirstOwned ==
  /\ \A g \in {group, cache, mem} : g.exists => g.uid # 0
  /\ \A c \in Child :
       children[c].exists => children[c].owner # 0
                             /\ children[c].owner <= group.uid
  /\ group.uid = 1 /\ group.exists /\ ~group.deleting =>
       \A c \in Child : children[c].exists => ~children[c].deleting

\* The listed children that an undisturbed reconcile has been through.
Passed ==
  {c \in Wanted(group.spec) :
     pc \in {"idle", "running"} \/ (pc = "children" /\ c < todo)}

Converged(c) ==
  /\ children[c].exists /\ ~children[c].deleting
  /\ children[c].spec = BuildSpec(group.spec, c)

FirstConverges ==
  group.uid = 1 /\ Undisturbed /\ ~group.deleting /\ group.spec.manage =>
    \A c \in Passed : Converged(c)

\* The inductive invariant behind the safety properties below.
IInv == Base /\ Attended /\ FirstOwned /\ FirstConverges

\* Nothing is left to do for the operator: no reconcile runs or is queued,
\* and the cache is up to date.
Quiet == pc = "idle" /\ ~queue /\ cache = group

Managed == group.exists /\ ~group.deleting /\ group.spec.manage

Phase ==
  CASE ~group.exists              -> "absent"
    [] group.exists /\ ~group.fin -> "bare"
    [] group.exists /\ group.fin /\ ~group.deleting -> "guarded"
    [] OTHER                      -> "terminating"

Protocol == INSTANCE FinalizerProtocol
  WITH Dependent  <- Child,
       phase      <- Phase,
       dependents <- {c \in Child : children[c].exists}

\* The controller implements the finalizer protocol: in spite of stale reads,
\* conflicts, crashes and re-creation, it creates no child for a group that
\* is not held by the finalizer (ensureFinalizer before reconcileChildCRDs).
FollowsFinalizerProtocol == Protocol!Spec

\* A child is created for the incarnation of the group that exists.
CreatedForLiveGroup ==
  [][\A c \in Child : ~children[c].exists /\ children'[c].exists
                        => group.exists /\ children'[c].owner = group.uid]_vars

\* A child never goes back to an older spec of its group, although every
\* reconcile starts from a cache that may lag behind the operator's own
\* writes (reconcile*CRD writing what Reconcile read).
NoSpecRollback ==
  [][\A c \in Child : children[c].exists /\ children'[c].exists
                        => children'[c].from >= children[c].from]_vars

\* When the operator rests, every listed component exists as the group's
\* current spec builds it: no edit, conflict, failed call or crash made the
\* reconciler stop early (Reconcile returning nil means nothing is owed).
QuietMeansConverged ==
  Quiet /\ Managed =>
    \A c \in Wanted(group.spec) : Converged(c)

\* When the operator rests, the group reports RUNNING: no failure or
\* initial status survives the reconcile that made it obsolete.
QuietMeansRunning ==
  Quiet /\ group.exists /\ ~group.deleting => group.status = "Running"

\* When the operator rests, the batchers that run are those the group
\* lists (test-downsizing.sh checks that a dropped batcher is gone).
QuietMeansNoSurplus ==
  Quiet /\ Managed =>
    \A b \in Batcher :
      children[b].exists /\ ~children[b].deleting => b \in Wanted(group.spec)

\* Once users stop, the operator comes to rest: its own status writes do
\* not keep it reconciling.
Settles == <>[]Quiet

\* A deleted group goes away, whatever happens to the cleanup calls.
DeletionCompletes == group.deleting ~> ~group.exists

\* And its children go with it, those the cleanup missed included.
ChildrenFollowGroup ==
  (group.uid = MaxUid /\ ~group.exists) ~> \A c \in Child : ~children[c].exists
=============================================================================
