------------------------------ MODULE Committer ------------------------------
(***************************************************************************)
(* The Committer controller (internal/controller/committer_controller.go). *)
(* It writes one child resource per committer component. Unlike the        *)
(* OrdererGroup controller it reads the children from informer caches too, *)
(* gives them no owner reference, writes its status in every reconcile and *)
(* runs again a minute after each success.                                 *)
(*                                                                         *)
(* fresh and seenFresh name the copies that are the API server's current   *)
(* version: all that a comparison of resourceVersions can tell.            *)
(***************************************************************************)
EXTENDS Naturals

CONSTANTS
  Last,        \* how many of the five children there are, in order
  Settings,    \* values of an inheritable field
  Unset,       \* the zero value of such a field
  Specs,       \* the specs users write
  Troubles,    \* what may go wrong, or get in the way
  MaxTroubles  \* how often in all

\* Calls that fail for no reason of their own; and other people's doings.
Faults == {"object", "status", "child", "crash"}
Doings == {"edit", "recreate", "touch"}

Coordinator  == 1
Sidecar      == 2
Validator    == 3
Verifier     == 4
QueryService == 5

Child == 1 .. Last

\* spec.components.<c>; on = FALSE when the component is not listed.
ComponentConfig ==
  [on : BOOLEAN, enrollment : Settings \cup {Unset},
   endpoints : Settings \cup {Unset}]

\* common says whether there is a spec.common, and its replicas.
CommitterSpec ==
  [common : [on : BOOLEAN, replicas : Nat], enrollment : Settings \cup {Unset},
   shared : Settings \cup {Unset}, cfg : [Child -> ComponentConfig]]

\* What every build*Spec function copies: the replicas of spec.common, even
\* when they are zero (never the component's own), and the enrollment with
\* its fallback.
Built(s, c, endpoints) ==
  [replicas   |-> IF s.common.on THEN s.common.replicas ELSE 1,
   enrollment |-> IF s.cfg[c].on /\ s.cfg[c].enrollment # Unset
                    THEN s.cfg[c].enrollment ELSE s.enrollment,
   endpoints  |-> endpoints]

OwnEndpoints(s, c) == IF s.cfg[c].on THEN s.cfg[c].endpoints ELSE Unset

\* The coordinator's peers come from the committer, if it is listed at all.
buildCoordinatorSpec(s) ==
  Built(s, Coordinator, IF s.cfg[Coordinator].on THEN s.shared ELSE Unset)

\* The orderer's endpoints: the sidecar's own before the shared ones.
buildSidecarSpec(s) ==
  Built(s, Sidecar, IF OwnEndpoints(s, Sidecar) # Unset
                      THEN OwnEndpoints(s, Sidecar) ELSE s.shared)
buildValidatorSpec(s) == Built(s, Validator, OwnEndpoints(s, Validator))
buildVerifierSpec(s) == Built(s, Verifier, OwnEndpoints(s, Verifier))
buildQueryServiceSpec(s) ==
  Built(s, QueryService, OwnEndpoints(s, QueryService))

BuildSpec(s, c) ==
  CASE c = Coordinator  -> buildCoordinatorSpec(s)
    [] c = Sidecar      -> buildSidecarSpec(s)
    [] c = Validator    -> buildValidatorSpec(s)
    [] c = Verifier     -> buildVerifierSpec(s)
    [] c = QueryService -> buildQueryServiceSpec(s)

ChildSpec == [replicas : Nat, enrollment : Settings \cup {Unset},
              endpoints : Settings \cup {Unset}]

-----------------------------------------------------------------------------

Statuses == {"", "Pending", "Running", "Failed"}

Committers ==
  [exists : BOOLEAN, uid : Nat, gen : Nat, spec : Specs, status : Statuses,
   fin : BOOLEAN, deleting : BOOLEAN]

\* from is the generation of the committer's spec a child was written with.
Children ==
  [exists : BOOLEAN, deleting : BOOLEAN, from : Nat, spec : ChildSpec]

NoChild ==
  [exists |-> FALSE, deleting |-> FALSE, from |-> 0,
   spec |-> [replicas |-> 0, enrollment |-> Unset, endpoints |-> Unset]]

ASSUME CommitterAssumption ==
  /\ Last \in 1 .. 5
  /\ Specs \subseteq CommitterSpec /\ Specs # {}
  /\ Troubles \subseteq Faults \cup Doings /\ MaxTroubles \in Nat

PCs == {"idle", "init", "finalizer", "children", "running",
        "failFinalizer", "failChildren",
        "deleting", "cleanup", "removal", "failDeletion"}

VARIABLES
  committer,  \* the resource in the API server
  cache,      \* the informer's copy
  mem,        \* the reconciler's copy
  fresh,      \* which of the two copies are current
  queue,      \* TRUE when the work queue holds the key, or will
  pc,         \* where the reconciler is
  todo,       \* the next child the reconciler looks at
  children,   \* the children in the API server
  seen,       \* the copies of the children in their informers
  seenFresh,  \* the children whose copy is current
  troubles    \* how often something has gone wrong, or got in the way

vars == <<committer, cache, mem, fresh, queue, pc, todo, children, seen,
          seenFresh, troubles>>

TypeOK ==
  /\ committer \in Committers /\ cache \in Committers /\ mem \in Committers
  /\ fresh \subseteq {"cache", "mem"}
  /\ queue \in BOOLEAN
  /\ pc \in PCs
  /\ todo \in 1 .. (Last + 1)
  /\ children \in [Child -> Children]
  /\ seen \in [Child -> Children]
  /\ seenFresh \subseteq Child
  /\ troubles \in Nat

NoCommitter ==
  [exists |-> FALSE, uid |-> 0, gen |-> 0, spec |-> CHOOSE s \in Specs : TRUE,
   status |-> "", fin |-> FALSE, deleting |-> FALSE]

Init ==
  /\ committer = NoCommitter /\ cache = NoCommitter /\ mem = NoCommitter
  /\ fresh = {"cache", "mem"}
  /\ queue = FALSE /\ pc = "idle" /\ todo = 1
  /\ children = [c \in Child |-> NoChild]
  /\ seen = [c \in Child |-> NoChild]
  /\ seenFresh = Child
  /\ troubles = 0

-----------------------------------------------------------------------------
(* Users                                                                    *)

\* A write by someone else: no copy is current any more.
Written(m) == committer' = m /\ fresh' = {}

\* The bound that keeps the model finite.
Trouble(k) ==
  k \in Troubles /\ troubles < MaxTroubles /\ troubles' = troubles + 1

CreateCommitter(s) ==
  /\ ~committer.exists
  /\ IF committer.uid = 0 THEN UNCHANGED troubles ELSE Trouble("recreate")
  /\ Written([NoCommitter EXCEPT !.exists = TRUE, !.uid = committer.uid + 1,
                                 !.gen = committer.gen + 1, !.spec = s])
  /\ UNCHANGED <<cache, mem, queue, pc, todo, children, seen, seenFresh>>

EditSpec(s) ==
  /\ committer.exists /\ s # committer.spec /\ Trouble("edit")
  /\ Written([committer EXCEPT !.spec = s, !.gen = @ + 1])
  /\ UNCHANGED <<cache, mem, queue, pc, todo, children, seen, seenFresh>>

\* The API server only marks an object that still has a finalizer.
DeleteCommitter ==
  /\ committer.exists /\ ~committer.deleting
  /\ Written(IF committer.fin THEN [committer EXCEPT !.deleting = TRUE]
                              ELSE [committer EXCEPT !.exists = FALSE])
  /\ UNCHANGED <<cache, mem, queue, pc, todo, children, seen, seenFresh,
                 troubles>>

-----------------------------------------------------------------------------
(* The informers. Events of children queue nothing: Owns() goes by owner    *)
(* references, and the children have none.                                  *)

CacheSync ==
  /\ "cache" \notin fresh
  /\ cache' = committer /\ fresh' = fresh \cup {"cache"}
  /\ queue' = TRUE
  /\ UNCHANGED <<committer, mem, pc, todo, children, seen, seenFresh,
                 troubles>>

ChildSync(c) ==
  /\ c \notin seenFresh
  /\ seen' = [seen EXCEPT ![c] = children[c]]
  /\ seenFresh' = seenFresh \cup {c}
  /\ UNCHANGED <<committer, cache, mem, fresh, queue, pc, todo, children,
                 troubles>>

-----------------------------------------------------------------------------
(* The API server's answer to the reconciler                                *)

Current == committer.exists /\ committer.uid = mem.uid /\ "mem" \in fresh

\* Mutant: a patch by name, which carries no resourceVersion.
AcceptedByPatch(m) ==
  /\ committer.exists
  /\ committer' = m /\ mem' = m /\ fresh' = {"mem"}
  /\ UNCHANGED troubles

\* An accepted write: the answer is decoded into the reconciler's copy.
Accepted(m) ==
  /\ Current
  /\ committer' = m /\ mem' = m /\ fresh' = {"mem"}
  /\ UNCHANGED troubles

\* A write that returns an error: a conflict, a fault before the write, or
\* one after it (the answer is lost).
Refused(kind, m) ==
  \/ ~Current /\ UNCHANGED <<committer, fresh, troubles>>
  \/ Current /\ Trouble(kind) /\ UNCHANGED <<committer, fresh>>
  \/ Current /\ Trouble(kind) /\ Written(m)

\* updateCommitterStatus writes every time, with a new condition time, so
\* that also an unchanged status is a new version unless it is written twice
\* in the same second. A failed write is logged and forgotten.
UpdateStatus(st) ==
  LET reported == [committer EXCEPT !.status = st]
  IN \/ Accepted(reported)
     \/ /\ Current /\ committer = reported
        /\ mem' = committer /\ UNCHANGED <<committer, fresh, troubles>>
     \/ Refused("status", reported) /\ mem' = [mem EXCEPT !.status = st]

-----------------------------------------------------------------------------
(* Reconcile                                                                *)

Goto(next) == pc' = next

StartReconcile ==
  /\ pc = "idle" /\ queue
  /\ queue' = FALSE
  /\ mem' = cache
  /\ fresh' = IF "cache" \in fresh THEN {"cache", "mem"} ELSE {}
  /\ todo' = 1
  /\ Goto(CASE ~cache.exists -> "idle"
            [] cache.exists /\ cache.deleting -> "deleting"
            [] cache.exists /\ ~cache.deleting /\ cache.status = "" -> "init"
            [] OTHER -> "finalizer")
  /\ UNCHANGED <<committer, cache, children, seen, seenFresh,
                 troubles>>

InitialiseStatus ==
  /\ pc = "init"
  /\ UpdateStatus("Pending")
  /\ Goto("finalizer")
  /\ UNCHANGED <<cache, queue, todo, children, seen, seenFresh>>

\* Mutant: a refused finalizer is logged and forgotten, like a status.
EnsureFinalizerIgnoringErrors ==
  /\ pc = "finalizer"
  /\ LET guarded == [committer EXCEPT !.fin = TRUE]
     IN \/ mem.fin /\ UNCHANGED <<committer, mem, fresh, troubles>>
        \/ ~mem.fin /\ Accepted(guarded)
        \/ ~mem.fin /\ Refused("object", guarded) /\ UNCHANGED mem
  /\ Goto("children")
  /\ UNCHANGED <<cache, queue, todo, children, seen, seenFresh>>

\* The finalizer list changed in memory is not read again after a failure.
EnsureFinalizer ==
  /\ pc = "finalizer"
  /\ LET guarded == [committer EXCEPT !.fin = TRUE]
     IN \/ /\ mem.fin /\ UNCHANGED <<committer, mem, fresh, troubles>>
           /\ Goto("children")
        \/ ~mem.fin /\ Accepted(guarded) /\ Goto("children")
        \/ /\ ~mem.fin /\ Refused("object", guarded) /\ UNCHANGED mem
           /\ Goto("failFinalizer")
  /\ UNCHANGED <<cache, queue, todo, children, seen, seenFresh>>

\* A write of child c that changes it leaves its cached copy behind.
Put(c, child) ==
  /\ children' = [children EXCEPT ![c] = child]
  /\ seenFresh' = IF child = children[c] THEN seenFresh ELSE seenFresh \ {c}

\* reconcile<Component>CRD: an Update of the cached copy if there is one,
\* refused when that copy is not current; a Create otherwise, refused when
\* the child exists.
CreateOrUpdate(c) ==
  IF seen[c].exists
    THEN [children[c] EXCEPT !.from = mem.gen, !.spec = BuildSpec(mem.spec, c)]
    ELSE [exists |-> TRUE, deleting |-> FALSE, from |-> mem.gen,
          spec |-> BuildSpec(mem.spec, c)]

Writable(c) ==
  IF seen[c].exists THEN c \in seenFresh ELSE ~children[c].exists

ReconcileChild ==
  /\ pc = "children" /\ todo <= Last
  /\ \/ Writable(todo) /\ Put(todo, CreateOrUpdate(todo))
        /\ todo' = todo + 1 /\ UNCHANGED <<pc, troubles>>
     \/ Writable(todo) /\ Trouble("child") /\ Put(todo, CreateOrUpdate(todo))
        /\ Goto("failChildren") /\ UNCHANGED todo
     \/ Trouble("child") /\ Goto("failChildren")
        /\ UNCHANGED <<todo, children, seenFresh>>
     \/ ~Writable(todo) /\ Goto("failChildren")
        /\ UNCHANGED <<todo, children, seenFresh, troubles>>
  /\ UNCHANGED <<committer, cache, mem, fresh, queue, seen>>

ChildrenReconciled ==
  /\ pc = "children" /\ todo > Last
  /\ Goto("running")
  /\ UNCHANGED <<committer, cache, mem, fresh, queue, todo, children, seen,
                 seenFresh, troubles>>

\* Mutant: no RequeueAfter.
MarkRunningNoRequeue ==
  /\ pc = "running"
  /\ UpdateStatus("Running")
  /\ Goto("idle")
  /\ UNCHANGED <<cache, queue, todo, children, seen, seenFresh>>

\* Success puts the key back after a minute.
MarkRunning ==
  /\ pc = "running"
  /\ UpdateStatus("Running")
  /\ queue' = TRUE
  /\ Goto("idle")
  /\ UNCHANGED <<cache, todo, children, seen, seenFresh>>

\* A returned error puts the key back (rate limited). A failed child is
\* reported only if the copy in memory does not say Failed already.
MarkFailed ==
  /\ pc \in {"failFinalizer", "failChildren", "failDeletion"}
  /\ IF pc = "failChildren" /\ mem.status = "Failed"
       THEN UNCHANGED <<committer, mem, fresh, troubles>>
       ELSE UpdateStatus("Failed")
  /\ queue' = TRUE
  /\ Goto("idle")
  /\ UNCHANGED <<cache, todo, children, seen, seenFresh>>

-----------------------------------------------------------------------------
(* handleDeletion                                                           *)

MarkDeleting ==
  /\ pc = "deleting"
  /\ UpdateStatus("Pending")
  /\ Goto("cleanup")
  /\ UNCHANGED <<cache, queue, todo, children, seen, seenFresh>>

\* cleanup<Component>CRD: a child that the cache does not show is passed
\* over; a Delete that fails, on a child already gone too, ends the cleanup.
CleanupChild ==
  /\ pc = "cleanup" /\ todo <= Last
  /\ LET marked == [children[todo] EXCEPT !.deleting = TRUE]
     IN \/ /\ ~seen[todo].exists
           /\ todo' = todo + 1
           /\ UNCHANGED <<pc, children, seenFresh, troubles>>
        \/ /\ seen[todo].exists /\ children[todo].exists
           /\ Put(todo, marked)
           /\ todo' = todo + 1 /\ UNCHANGED <<pc, troubles>>
        \/ /\ seen[todo].exists /\ ~children[todo].exists
           /\ Goto("failDeletion")
           /\ UNCHANGED <<todo, children, seenFresh, troubles>>
        \/ /\ seen[todo].exists /\ children[todo].exists /\ Trouble("child")
           /\ \/ Put(todo, marked)
              \/ UNCHANGED <<children, seenFresh>>
           /\ Goto("failDeletion") /\ UNCHANGED todo
  /\ UNCHANGED <<committer, cache, mem, fresh, queue, seen>>

CleanupDone ==
  /\ pc = "cleanup" /\ todo > Last
  /\ Goto("removal")
  /\ UNCHANGED <<committer, cache, mem, fresh, queue, todo, children, seen,
                 seenFresh, troubles>>

\* Mutant: a finalizer that could not be removed is logged and forgotten.
RemoveFinalizerNoRetry ==
  /\ pc = "removal"
  /\ LET released == [committer EXCEPT !.fin = FALSE,
                                       !.exists = ~committer.deleting]
     IN \/ Accepted(released)
        \/ Refused("object", released) /\ UNCHANGED mem
  /\ Goto("idle")
  /\ UNCHANGED <<cache, queue, todo, children, seen, seenFresh>>

\* The API server removes a marked object with its last finalizer.
RemoveFinalizer ==
  /\ pc = "removal"
  /\ LET released == [committer EXCEPT !.fin = FALSE,
                                       !.exists = ~committer.deleting]
     IN \/ Accepted(released) /\ Goto("idle")
        \/ /\ Refused("object", released) /\ UNCHANGED mem
           /\ Goto("failDeletion")
  /\ UNCHANGED <<cache, queue, todo, children, seen, seenFresh>>

-----------------------------------------------------------------------------
(* The environment                                                          *)

\* A component controller adds its finalizer or writes its status.
ComponentWrites(c) ==
  /\ children[c].exists /\ Trouble("touch")
  /\ seenFresh' = seenFresh \ {c}
  /\ UNCHANGED <<committer, cache, mem, fresh, queue, pc, todo, children,
                 seen>>

\* It removes its finalizer from a marked child.
ComponentDone(c) ==
  /\ children[c].exists /\ children[c].deleting
  /\ children' = [children EXCEPT ![c] = NoChild]
  /\ seenFresh' = seenFresh \ {c}
  /\ UNCHANGED <<committer, cache, mem, fresh, queue, pc, todo, seen,
                 troubles>>

\* The operator dies and comes back: the informers list afresh, and every
\* listed committer is queued.
OperatorCrash ==
  /\ Trouble("crash")
  /\ Goto("idle")
  /\ cache' = committer /\ fresh' = {"cache"}
  /\ queue' = committer.exists
  /\ seen' = children /\ seenFresh' = Child
  /\ UNCHANGED <<committer, mem, todo, children>>

-----------------------------------------------------------------------------

User == (\E s \in Specs : CreateCommitter(s) \/ EditSpec(s)) \/ DeleteCommitter

Reconciler ==
  \/ StartReconcile \/ InitialiseStatus \/ EnsureFinalizer
  \/ ReconcileChild \/ ChildrenReconciled \/ MarkRunning \/ MarkFailed
  \/ MarkDeleting \/ CleanupChild \/ CleanupDone \/ RemoveFinalizer

Environment ==
  \E c \in Child : ChildSync(c) \/ ComponentWrites(c) \/ ComponentDone(c)

Next == User \/ CacheSync \/ Reconciler \/ Environment \/ OperatorCrash

\* Watches deliver, the worker runs, component controllers release children.
Fairness ==
  /\ WF_vars(CacheSync) /\ WF_vars(Reconciler)
  /\ \A c \in Child : WF_vars(ChildSync(c)) /\ WF_vars(ComponentDone(c))

Spec     == Init /\ [][Next]_vars
FairSpec == Spec /\ Fairness
-----------------------------------------------------------------------------
(* Properties                                                               *)

\* A copy that counts as current is the server's object; only the status in
\* memory may differ, after a write of it that failed.
FreshIsCurrent ==
  /\ "cache" \in fresh => cache = committer
  /\ "mem" \in fresh => mem = [committer EXCEPT !.status = mem.status]
  /\ \A c \in seenFresh : seen[c] = children[c]

\* The finalizer seen in the copy m is the one the committer carries.
Held(m) == committer.exists /\ committer.uid = m.uid /\ committer.fin

Guarded ==
  /\ committer.exists /\ committer.deleting => committer.fin
  /\ cache.exists /\ cache.fin /\ ~cache.deleting => Held(cache)
  /\ pc \in {"init", "finalizer"} =>
       mem.exists /\ ~mem.deleting /\ (mem.fin => Held(mem))
  /\ pc \in {"children", "running"} => Held(mem)

\* During the deletion of a committer the cache never shows it unmarked.
DeletionSeen ==
  /\ cache.uid <= committer.uid /\ mem.uid <= committer.uid
  /\ cache.exists /\ cache.deleting /\ committer.exists
       /\ cache.uid = committer.uid => committer.deleting
  /\ pc \in {"deleting", "cleanup", "removal"} =>
       /\ mem.deleting
       /\ committer.exists /\ committer.uid = mem.uid => committer.deleting
       /\ cache.exists /\ cache.uid = mem.uid => cache.deleting

\* Children were written from a spec no newer than the one in memory.
WrittenFromPast ==
  /\ \A c \in Child : children[c].from <= mem.gen
  /\ mem.gen <= cache.gen /\ cache.gen <= committer.gen

\* The inductive invariant: what the reconciler reads, late as it may be, is
\* enough to know that the committer is held whenever children are written.
IInv ==
  TypeOK /\ FreshIsCurrent /\ Guarded /\ DeletionSeen /\ WrittenFromPast

Phase ==
  CASE ~committer.exists                  -> "absent"
    [] committer.exists /\ ~committer.fin -> "bare"
    [] committer.exists /\ committer.fin /\ ~committer.deleting -> "guarded"
    [] OTHER                              -> "terminating"

Protocol == INSTANCE FinalizerProtocol
  WITH Dependent  <- Child,
       phase      <- Phase,
       dependents <- {c \in Child : children[c].exists}

\* In spite of stale reads, conflicts, lost answers, crashes and re-creation
\* no child comes into being for a committer that the finalizer does not
\* hold (ensureFinalizer before reconcileChildCRDs).
FollowsFinalizerProtocol == Protocol!Spec

\* A child never goes back to an older spec of the committer, although every
\* reconcile starts from a cache that may lag behind the previous one's.
NoSpecRollback ==
  [][\A c \in Child : children[c].exists /\ children'[c].exists
                        => children'[c].from >= children[c].from]_vars

Converged ==
  \A c \in Child :
    /\ children[c].exists /\ ~children[c].deleting
    /\ children[c].spec = BuildSpec(committer.spec, c)

\* A committer that stays ends up with every child as its last spec builds
\* it, and says so: conflicts with the component controllers' own writes,
\* children still terminating from a previous committer, failed calls and
\* crashes are all overcome (RequeueAfter and returned errors).
EventuallyConverged ==
  <>[](committer.exists /\ ~committer.deleting)
    => <>[](Converged /\ committer.status = "Running")

\* A deleted committer goes away, although the cleanup stops at every child
\* that is already gone but still in the cache.
DeletionCompletes == committer.deleting ~> ~committer.exists

\* Once the committer is gone for good, so are its children
\* ("Child CRDs cleaned up successfully").
ChildrenFollowCommitter ==
  <>[]~committer.exists => <>[](\A c \in Child : ~children[c].exists)
=============================================================================
