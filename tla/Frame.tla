-------------------------------- MODULE Frame --------------------------------
(***************************************************************************)
(* What the controllers of Genesis, Identity, CAEnrollment, Endorser and   *)
(* CA resources have in common: the custom resource and the copies of it,  *)
(* the work queue, the finalizer, the status, and the objects they make,   *)
(* which they read from the informers' caches.                             *)
(*                                                                         *)
(* fresh and seenFresh name the copies that are the API server's current   *)
(* version: all that a comparison of resourceVersions can tell.            *)
(***************************************************************************)
EXTENDS Naturals, Sequences

CONSTANTS
  Kinds,       \* the controllers looked at
  Specs,       \* Specs[k]: the specs users write for a resource of kind k
  Object,      \* the names of the objects they make
  Input,       \* what they need of others
  Needs,       \* Needs[k]: which of it the controller of kind k looks at
  Settings,    \* what a spec can say of a configuration
  Unset,       \* the content of an object that says nothing
  Serials,     \* names for key pairs and their certificates
  Lagging,     \* Lagging[k]: the objects whose cached copies may be behind
  Troubles,    \* Troubles[k]: what may go wrong for kind k, or get in the way
  MaxTroubles  \* how often in all

\* Calls that fail for no reason of their own; and other people's doings.
Faults == {"object", "status", "write", "enrol", "crash"}
Doings == {"edit", "recreate", "touch", "lose", "renew", "expire"}

AllKinds == {"genesis", "identity", "caenrollment", "endorser", "ca"}

ASSUME FrameAssumption ==
  /\ Kinds \subseteq AllKinds
  /\ \A k \in Kinds : Specs[k] # {}
  /\ \A k \in Kinds : Needs[k] \subseteq Input
  /\ Serials \subseteq Nat \ {0}
  /\ \A k \in Kinds : Lagging[k] \subseteq Object
  /\ \A k \in Kinds : Troubles[k] \subseteq Faults \cup Doings
  /\ MaxTroubles \in Nat

\* What a status says: the state, and which further facts it records.
States == {"", "PENDING", "RUNNING", "READY", "FAILED", "INVALID"}
Notes  == {"sign", "tls", "time", "expiry"}
Report == [state : States, notes : SUBSET Notes]

Resources(k) ==
  [exists : BOOLEAN, uid : Nat, spec : Specs[k], status : Report,
   fin : BOOLEAN, deleting : BOOLEAN]

\* made is what an object was computed from, as pairs of a name and a value.
NoObject == [exists |-> FALSE, owner |-> 0, content |-> Unset, serial |-> 0,
             made |-> {}]

PCs == {"idle", "init", "finalizer", "refused", "work", "succeeded",
        "failed", "deleting", "cleanup", "removal"}

VARIABLES
  kind,       \* which controller this is
  res,        \* the custom resource in the API server
  cache,      \* the informer's copy
  mem,        \* the reconciler's copy
  fresh,      \* which of the two copies are current
  queue,      \* TRUE when the work queue holds the key, or will
  pc,         \* where the reconciler is
  plan,       \* the steps left to it
  hand,       \* what it has read or been issued, and not stored yet
  objects,    \* the objects in the API server
  seen,       \* the informers' copies of them
  seenFresh,  \* the objects whose copy is current
  inputs,     \* the version the cache shows of each input, 0 for none
  troubles    \* how often something has gone wrong, or got in the way

vars == <<kind, res, cache, mem, fresh, queue, pc, plan, hand, objects, seen,
          seenFresh, inputs, troubles>>

\* The groups that most actions leave alone together.
copies  == <<res, mem, fresh>>
outside == <<objects, seen, seenFresh>>
frame   == <<kind, cache, inputs>>

NoReport == [state |-> "", notes |-> {}]

NoResource(k) ==
  [exists |-> FALSE, uid |-> 0, spec |-> CHOOSE s \in Specs[k] : TRUE,
   status |-> NoReport, fin |-> FALSE, deleting |-> FALSE]

Init ==
  /\ kind \in Kinds
  /\ res = NoResource(kind) /\ cache = res /\ mem = res
  /\ fresh = {"cache", "mem"}
  /\ queue = FALSE /\ pc = "idle" /\ plan = <<>> /\ hand = <<>>
  /\ objects = [o \in Object |-> NoObject]
  /\ seen = objects /\ seenFresh = Object
  /\ inputs = [i \in Input |-> 0]
  /\ troubles = 0

-----------------------------------------------------------------------------
(* Users                                                                    *)

\* A write by someone else: no copy is current any more.
Written(m) == res' = m /\ fresh' = {}

\* The bound that keeps the model finite.
Trouble(k) ==
  k \in Troubles[kind] /\ troubles < MaxTroubles /\ troubles' = troubles + 1

CreateResource(s) ==
  /\ ~res.exists
  /\ IF res.uid = 0 THEN UNCHANGED troubles ELSE Trouble("recreate")
  /\ Written([NoResource(kind) EXCEPT !.exists = TRUE, !.uid = res.uid + 1,
                                      !.spec = s])
  /\ UNCHANGED <<frame, outside, mem, queue, pc, plan, hand>>

EditSpec(s) ==
  /\ res.exists /\ s # res.spec /\ Trouble("edit")
  /\ Written([res EXCEPT !.spec = s])
  /\ UNCHANGED <<frame, outside, mem, queue, pc, plan, hand>>

\* The API server only marks an object that still has a finalizer.
DeleteResource ==
  /\ res.exists /\ ~res.deleting
  /\ Written(IF res.fin THEN [res EXCEPT !.deleting = TRUE]
                        ELSE [res EXCEPT !.exists = FALSE])
  /\ UNCHANGED <<frame, outside, mem, queue, pc, plan, hand, troubles>>

User ==
  (\E s \in Specs[kind] : CreateResource(s) \/ EditSpec(s)) \/ DeleteResource

-----------------------------------------------------------------------------
(* The informers                                                            *)

CacheSync ==
  /\ "cache" \notin fresh
  /\ cache' = res /\ fresh' = fresh \cup {"cache"}
  /\ queue' = TRUE
  /\ UNCHANGED <<outside, kind, res, mem, pc, plan, hand, inputs, troubles>>

\* Mutant: the ConfigMaps are not watched.
caOwnsNoConfig ==
  {"tls", "msp", "tlsca", "pvc", "service", "ingress", "deployment",
   "account", "job"}

\* What each controller Owns(): events of these queue the resource that the
\* controller reference names, before or after the change.
genesisOwns      == {}
identityOwns     == {"secret", "idemix"}
caenrollmentOwns == {"secret"}
endorserOwns     == {"sign", "tls", "config", "service", "deployment"}
caOwns ==
  {"config", "tls", "msp", "tlsca", "pvc", "service", "ingress", "deployment",
   "account", "job"}

Owns(k) ==
  CASE k = "genesis"      -> genesisOwns
    [] k = "identity"     -> identityOwns
    [] k = "caenrollment" -> caenrollmentOwns
    [] k = "endorser"     -> endorserOwns
    [] k = "ca"           -> caOwns

Wakes(o, before, after) ==
  o \in Owns(kind) /\ (before.owner # 0 \/ after.owner # 0)

ObjectSync(o) ==
  /\ o \notin seenFresh
  /\ seen' = [seen EXCEPT ![o] = objects[o]]
  /\ seenFresh' = seenFresh \cup {o}
  /\ queue' = (queue \/ Wakes(o, seen[o], objects[o]))
  /\ UNCHANGED <<frame, copies, pc, plan, hand, objects, troubles>>

\* A write leaves the cached copy behind, or takes it along where the
\* instance lets no copy lag.
Put(o, object) ==
  /\ objects' = [objects EXCEPT ![o] = object]
  /\ IF object = objects[o]
       THEN UNCHANGED <<seen, seenFresh, queue>>
     ELSE IF o \in Lagging[kind]
       THEN seenFresh' = seenFresh \ {o} /\ UNCHANGED <<seen, queue>>
     ELSE /\ seen' = [seen EXCEPT ![o] = object]
          /\ queue' = (queue \/ Wakes(o, objects[o], object))
          /\ UNCHANGED seenFresh

Remove(o) == Put(o, NoObject)

-----------------------------------------------------------------------------
(* The API server's answer to the reconciler                                *)

Current == res.exists /\ res.uid = mem.uid /\ "mem" \in fresh

\* An accepted write: the answer is decoded into the reconciler's copy.
Accepted(m) ==
  /\ Current
  /\ res' = m /\ mem' = m /\ fresh' = {"mem"}
  /\ UNCHANGED troubles

\* A write that returns an error: a conflict, a fault before the write, or
\* one after it (the answer is lost).
Refused(k, m) ==
  \/ ~Current /\ UNCHANGED <<res, fresh, troubles>>
  \/ Current /\ Trouble(k) /\ UNCHANGED <<res, fresh>>
  \/ Current /\ Trouble(k) /\ Written(m)

\* A write of the status st whose failure is logged and forgotten. A timed
\* one carries a new condition time of whole seconds: it may or may not be
\* a change where the rest is the same.
UpdateStatus(st, timed) ==
  LET reported == [res EXCEPT !.status = st]
  IN \/ (timed \/ res.status # st) /\ Accepted(reported)
     \/ /\ Current /\ res.status = st
        /\ mem' = res /\ UNCHANGED <<res, fresh, troubles>>
     \/ Refused("status", reported) /\ mem' = [mem EXCEPT !.status = st]

State(s) == [mem.status EXCEPT !.state = s]

-----------------------------------------------------------------------------
(* Reconcile                                                                *)

Goto(next) == pc' = next

\* The copy it works on is read from the cache.
Begin(next) ==
  /\ pc = "idle" /\ queue
  /\ queue' = FALSE
  /\ mem' = cache
  /\ fresh' = IF "cache" \in fresh THEN {"cache", "mem"} ELSE {}
  /\ Goto(IF cache.exists THEN next ELSE "idle")
  /\ UNCHANGED <<frame, outside, res, plan, hand, troubles>>

\* Most controllers look for the deletion mark first.
BeginWithDeletion ==
  Begin(IF cache.deleting THEN "deleting"
        ELSE IF cache.status.state = "" THEN "init"
        ELSE "finalizer")

BeginWithStatus ==
  Begin(IF cache.status.state = "" THEN "init"
        ELSE IF cache.deleting THEN "deleting"
        ELSE "finalizer")

InitialiseStatus ==
  /\ pc = "init"
  /\ UpdateStatus(State("PENDING"), TRUE)
  /\ Goto(IF mem.deleting THEN "deleting" ELSE "finalizer")
  /\ UNCHANGED <<frame, outside, queue, plan, hand>>

\* Mutant: an error is ignored.
EnsureFinalizerIgnoringErrors(steps) ==
  /\ pc = "finalizer"
  /\ LET guarded == [res EXCEPT !.fin = TRUE]
     IN \/ mem.fin /\ UNCHANGED <<copies, troubles>>
        \/ ~mem.fin /\ Accepted(guarded)
        \/ ~mem.fin /\ Refused("object", guarded) /\ UNCHANGED mem
  /\ Goto("work") /\ plan' = steps
  /\ UNCHANGED <<frame, outside, queue, hand>>

EnsureFinalizer(steps) ==
  /\ pc = "finalizer"
  /\ LET guarded == [res EXCEPT !.fin = TRUE]
     IN \/ /\ mem.fin /\ UNCHANGED <<copies, troubles>>
           /\ Goto("work") /\ plan' = steps
        \/ /\ ~mem.fin /\ Accepted(guarded)
           /\ Goto("work") /\ plan' = steps
        \/ /\ ~mem.fin /\ Refused("object", guarded) /\ UNCHANGED mem
           /\ Goto("refused") /\ UNCHANGED plan
  /\ UNCHANGED <<frame, outside, queue, hand>>

\* The end of a reconcile that returns the error after it has told it in the
\* status: the key goes back, rate limited. The message may be a new one.
MarkFailed ==
  /\ pc \in {"refused", "failed"}
  /\ UpdateStatus(State("FAILED"), TRUE)
  /\ queue' = TRUE
  /\ plan' = <<>> /\ hand' = <<>>
  /\ Goto("idle")
  /\ UNCHANGED <<frame, outside>>

\* The end of a reconcile that returns an error and nothing else.
ReturnError ==
  /\ queue' = TRUE
  /\ plan' = <<>> /\ hand' = <<>>
  /\ Goto("idle")

\* Mutant: an error is ignored.
RemoveFinalizerIgnoringErrors(failing) ==
  /\ pc = "removal"
  /\ LET released == [res EXCEPT !.fin = FALSE, !.exists = ~res.deleting]
     IN \/ Accepted(released)
        \/ Refused("object", released) /\ UNCHANGED mem
  /\ Goto("idle")
  /\ UNCHANGED <<frame, outside, queue, plan, hand>>

\* The API server removes a marked object with its last finalizer.
RemoveFinalizer(failing) ==
  /\ pc = "removal"
  /\ LET released == [res EXCEPT !.fin = FALSE, !.exists = ~res.deleting]
     IN \/ Accepted(released) /\ Goto("idle") /\ UNCHANGED <<queue, plan, hand>>
        \/ /\ Refused("object", released) /\ UNCHANGED mem
           /\ \/ failing = "idle" /\ ReturnError
              \/ failing # "idle" /\ Goto(failing) /\ UNCHANGED <<queue, plan, hand>>
  /\ UNCHANGED <<frame, outside>>

-----------------------------------------------------------------------------
(* The steps of a plan                                                      *)

At(steps) == pc = "work" /\ plan # <<>> /\ Head(plan) \in steps
Part      == Head(plan)[1]
Subject   == Head(plan)[2]
Proceed   == plan' = Tail(plan) /\ UNCHANGED pc

\* A step that fails ends the reconcile, except in the CA controller, which
\* goes on with the other parts of its plan and fails in the end. The steps
\* of a part follow one another: the first n are those of this part.
Verdict == <<"verdict", "failed">>

PartEnds(n) ==
  /\ \A i \in 1 .. n : plan[i][1] = Part
  /\ n < Len(plan) => plan[n + 1][1] # Part

StepFails ==
  \/ kind # "ca" /\ Goto("failed") /\ UNCHANGED plan
  \/ /\ kind = "ca" /\ UNCHANGED pc
     /\ \E n \in 1 .. Len(plan) :
          PartEnds(n) /\ plan' = Append(SubSeq(plan, n + 1, Len(plan)), Verdict)

\* Nothing is left of the plan, but the failures of its parts.
Finished == plan # <<>> => Head(plan) = Verdict

\* What a step of the plan leaves alone.
inside == <<frame, res, cache, fresh>>

\* A write of o that the API server accepts if it may: else it fails. A
\* fault may come before or after it takes effect.
Write(o, accepted, object) ==
  \/ accepted /\ Put(o, object) /\ Proceed /\ UNCHANGED troubles
  \/ ~accepted /\ StepFails /\ UNCHANGED <<outside, queue, troubles>>
  \/ /\ Trouble("write") /\ StepFails
     /\ \/ accepted /\ Put(o, object)
        \/ UNCHANGED <<outside, queue>>

Owned(content) ==
  [NoObject EXCEPT !.exists = TRUE, !.owner = mem.uid, !.content = content]

\* Get from the cache, then Create, or Update with the version of the copy.
CreateOr(o, created, updated) ==
  \/ ~seen[o].exists /\ Write(o, ~objects[o].exists, created)
  \/ seen[o].exists /\ Write(o, o \in seenFresh, updated)

\* The same for an object that may be as wanted already: then nothing is
\* written.
CreateOrUpdate(o, wanted) ==
  \/ seen[o] = wanted /\ Proceed /\ UNCHANGED <<outside, queue, troubles>>
  \/ seen[o] # wanted /\ CreateOr(o, wanted, wanted)

\* A serial that nothing mentions any more may be given again.
Mentioned ==
  {hand[i] : i \in DOMAIN hand}
    \cup UNION {{x.serial} \cup {m[2] : m \in x.made} :
                  x \in {objects[o] : o \in Object} \cup
                        {seen[o] : o \in Object}}

NewSerial(n) ==
  /\ n \in Serials \ Mentioned
  /\ \A k \in Serials \ Mentioned : n <= k

\* What was issued first and is not stored yet, and the rest of it.
Issued == IF hand = <<>> THEN 0 ELSE Head(hand)
Rest   == IF hand = <<>> THEN <<>> ELSE Tail(hand)

\* A new key and a certificate for it from the CA that is input i.
Enrol(i) ==
  \/ /\ inputs[i] # 0
     /\ \E n \in Serials : NewSerial(n) /\ hand' = Append(hand, n)
     /\ Proceed /\ UNCHANGED troubles
  \/ /\ inputs[i] = 0
     /\ StepFails /\ UNCHANGED <<hand, troubles>>
  \/ /\ inputs[i] # 0 /\ Trouble("enrol")
     /\ StepFails /\ UNCHANGED hand

-----------------------------------------------------------------------------
(* The environment                                                          *)

\* Kubernetes' controllers and others write to an object.
Touch(o) ==
  /\ o \in Lagging[kind] /\ objects[o].exists /\ Trouble("touch")
  /\ seenFresh' = seenFresh \ {o}
  /\ UNCHANGED <<frame, copies, queue, pc, plan, hand, objects, seen>>

\* Somebody deletes an object.
Lose(o) ==
  /\ objects[o].exists /\ Trouble("lose")
  /\ Remove(o)
  /\ UNCHANGED <<frame, copies, pc, plan, hand>>

\* Objects whose owner is gone are collected.
GarbageCollect(o) ==
  /\ objects[o].exists /\ objects[o].owner # 0
  /\ ~(res.exists /\ res.uid = objects[o].owner)
  /\ Remove(o)
  /\ UNCHANGED <<frame, copies, pc, plan, hand, troubles>>

\* What the controller needs of others comes into being, or is replaced.
Supply(i) ==
  /\ i \in Needs[kind]
  /\ \/ inputs[i] = 0 /\ UNCHANGED troubles
     \/ inputs[i] # 0 /\ Trouble("renew")
  /\ inputs' = [inputs EXCEPT ![i] = @ + 1]
  /\ UNCHANGED <<kind, cache, copies, outside, queue, pc, plan, hand>>

\* The operator dies and comes back: the informers list afresh, and a listed
\* resource is queued.
OperatorCrash ==
  /\ Trouble("crash")
  /\ Goto("idle")
  /\ cache' = res /\ fresh' = {"cache"}
  /\ queue' = res.exists
  /\ plan' = <<>> /\ hand' = <<>>
  /\ seen' = objects /\ seenFresh' = Object
  /\ UNCHANGED <<kind, res, mem, objects, inputs>>

Environment ==
  \/ CacheSync \/ OperatorCrash
  \/ \E o \in Object : ObjectSync(o) \/ Touch(o) \/ Lose(o) \/ GarbageCollect(o)
  \/ \E i \in Input : Supply(i)
=============================================================================
