------------------------- MODULE ProvisioningProofs --------------------------
(***************************************************************************)
(* Proofs about Provisioning: Base is an invariant of each of the five     *)
(* controllers, and each implements the finalizer protocol, for every      *)
(* value of the constants.                                                 *)
(*                                                                         *)
(* Nearly every step of a reconciler leaves the copies of the resource     *)
(* alike but for spec and status, moves on through the program in one of   *)
(* few ways and replaces at most one object (Inner).  Such steps preserve  *)
(* the invariant and follow the protocol (InnerStep); what is left to do   *)
(* for each action is to show that it is one of them.                      *)
(***************************************************************************)
EXTENDS Provisioning, TLAPS

USE DEF AllKinds

ProtocolStep == Protocol!Next \/ UNCHANGED Protocol!vars

\* What every action has to achieve.
Sound == Base' /\ ProtocolStep

Same(m, n) ==
  /\ m.exists = n.exists /\ m.uid = n.uid
  /\ m.fin = n.fin /\ m.deleting = n.deleting

CopiesKept ==
  /\ UNCHANGED <<kind, cache>>
  /\ res' \in Resources(kind) /\ mem' \in Resources(kind)
  /\ fresh' \subseteq {"cache", "mem"}
  /\ Same(res', res) /\ Same(mem', mem)
  /\ "cache" \in fresh' => cache' = res'
  /\ "mem" \in fresh' => mem' = [res' EXCEPT !.status = mem'.status]

Onward ==
  \/ pc' \in {pc, "idle"}
  \/ pc = "init" /\ pc' = IF mem.deleting THEN "deleting" ELSE "finalizer"
  \/ pc = "finalizer" /\ pc' = "refused"
  \/ pc = "work" /\ pc' \in {"succeeded", "failed"}
  \/ pc \in {"deleting", "cleanup"} /\ pc' \in {"cleanup", "removal", "failed"}
  \/ pc = "removal" /\ pc' = "failed"

Replaced(o, x) ==
  /\ objects' \in [Object -> Objects] /\ seen' \in [Object -> Objects]
  /\ seenFresh' \subseteq Object
  /\ \A p \in Object :
       /\ objects'[p] = IF p = o THEN x ELSE objects[p]
       /\ seen'[p].owner \in {seen[p].owner, objects[p].owner, objects'[p].owner}
  /\ \A p \in seenFresh' : seen'[p] = objects'[p]
  /\ x.owner <= res.uid
  /\ x.exists => \/ pc = "work"
                 \/ objects[o].exists /\ x.owner = objects[o].owner

ObjectsKept ==
  UNCHANGED outside \/ \E o \in Object, x \in Objects : Replaced(o, x)

OthersTyped ==
  /\ queue' \in BOOLEAN /\ pc' \in PCs /\ hand' \in Seq(Nat)
  /\ inputs' \in [Input -> Nat] /\ troubles' \in Nat

Inner == CopiesKept /\ Onward /\ ObjectsKept /\ OthersTyped

-----------------------------------------------------------------------------
(* Types                                                                    *)

LEMMA NoObjectType ==
  NoObject \in Objects /\ ~NoObject.exists /\ NoObject.owner = 0
BY DEF NoObject, Objects, Contents

LEMMA NoResourceType ==
  ASSUME NEW k \in Kinds
  PROVE  /\ NoResource(k) \in Resources(k)
         /\ ~NoResource(k).exists /\ NoResource(k).uid = 0
         /\ ~NoResource(k).fin /\ ~NoResource(k).deleting
<1>1. (CHOOSE s \in Specs[k] : TRUE) \in Specs[k]
  BY FrameAssumption
<1>2. NoReport \in Report
  BY DEF NoReport, Report, States, Notes
<1>3. QED BY <1>1, <1>2 DEF NoResource, Resources

LEMMA StateType ==
  ASSUME TypeOK, NEW s \in States
  PROVE  State(s) \in Report
BY DEF TypeOK, Resources, State, Report

-----------------------------------------------------------------------------
(* Steps that are Inner                                                     *)

\* The copies stay alike, so what they say of the finalizer stays true.
LEMMA InnerStep ==
  ASSUME Base, Inner
  PROVE  Sound
<1> USE DEF Base
<1>0. /\ kind \in Kinds /\ kind' = kind /\ cache' = cache
      /\ res \in Resources(kind) /\ mem \in Resources(kind)
      /\ cache \in Resources(kind)
      /\ res' \in Resources(kind) /\ mem' \in Resources(kind)
      /\ Same(res', res) /\ Same(mem', mem)
      /\ objects \in [Object -> Objects] /\ seen \in [Object -> Objects]
  BY DEF Inner, CopiesKept, TypeOK
<1>n. /\ res.uid \in Nat /\ \A x \in Objects : x.owner \in Nat
  BY <1>0 DEF Resources, Objects
<1>1. TypeOK'
  <2>1. /\ objects' \in [Object -> Objects] /\ seen' \in [Object -> Objects]
        /\ seenFresh' \subseteq Object
    BY DEF Inner, ObjectsKept, Replaced, outside, TypeOK
  <2>2. QED BY <1>0, <2>1 DEF Inner, CopiesKept, OthersTyped, TypeOK
<1>2. FreshIsCurrent'
  <2>1. \A o \in seenFresh' : seen'[o] = objects'[o]
    BY DEF Inner, ObjectsKept, Replaced, outside, FreshIsCurrent
  <2>2. QED BY <2>1 DEF Inner, CopiesKept, FreshIsCurrent
<1>3. Guarded'
  <2>1. Held(cache)' <=> Held(cache)
    BY <1>0 DEF Held, Same
  <2>2. Held(mem)' <=> Held(mem)
    BY <1>0 DEF Held, Same
  <2>3. pc' \in {"work", "succeeded"} => pc \in {"work", "succeeded"}
    BY DEF Inner, Onward
  <2>4. pc' \in {"init", "finalizer"} =>
          /\ pc \in {"init", "finalizer"}
          /\ pc' = "finalizer" => pc = "finalizer" \/ ~mem.deleting
    BY DEF Inner, Onward
  <2>5. QED BY <1>0, <2>1, <2>2, <2>3, <2>4 DEF Guarded, Same
<1>4. DeletionSeen'
  <2>1. pc' \in {"deleting", "cleanup", "removal"} => mem.deleting
    BY DEF Inner, Onward, DeletionSeen
  <2>2. pc' # "idle" => pc # "idle"
    BY DEF Inner, Onward
  <2>3. QED BY <1>0, <2>1, <2>2 DEF DeletionSeen, Same
<1>5. OwnedByPast'
  <2>1. CASE UNCHANGED outside
    BY <1>0, <2>1 DEF OwnedByPast, Same, outside
  <2>2. ASSUME NEW o \in Object, NEW x \in Objects, Replaced(o, x)
        PROVE  OwnedByPast'
    <3>1. x.exists /\ res.exists /\ x.owner = res.uid => res.fin
      BY <1>0, <2>2 DEF Replaced, OwnedByPast, Guarded, Held
    <3>2. QED BY <1>0, <1>n, <2>2, <3>1 DEF Replaced, OwnedByPast, Same
  <2>3. QED BY <2>1, <2>2 DEF Inner, ObjectsKept
<1>6. ProtocolStep
  <2> DEFINE deps == {d \in Object : objects[d].exists}
  <2>0. Phase' = Phase
    BY <1>0 DEF Phase, Same
  <2>1. CASE UNCHANGED outside
    BY <2>0, <2>1 DEF ProtocolStep, Protocol!vars, outside
  <2>2. ASSUME NEW o \in Object, NEW x \in Objects, Replaced(o, x)
        PROVE  ProtocolStep
    <3>1. deps' = IF x.exists THEN deps \cup {o} ELSE deps \ {o}
      BY <2>2 DEF Replaced
    <3>2. CASE deps' = deps
      BY <2>0, <3>2 DEF ProtocolStep, Protocol!vars
    <3>3. CASE x.exists /\ o \notin deps
      <4>1. pc = "work" BY <2>2, <3>3 DEF Replaced
      <4>2. Phase \in {"guarded", "terminating"}
        BY <4>1 DEF Guarded, Held, Phase
      <4>3. Protocol!Produce(o)
        BY <2>0, <3>1, <3>3, <4>2 DEF Protocol!Produce
      <4>4. QED BY <4>3 DEF ProtocolStep, Protocol!Next
    <3>4. CASE ~x.exists /\ o \in deps
      <4>1. Protocol!Reclaim(o)
        BY <2>0, <3>1, <3>4 DEF Protocol!Reclaim
      <4>2. QED BY <4>1 DEF ProtocolStep, Protocol!Next
    <3>5. QED BY <3>1, <3>2, <3>3, <3>4
  <2>3. QED BY <2>1, <2>2 DEF Inner, ObjectsKept
<1>7. QED BY <1>1, <1>2, <1>3, <1>4, <1>5, <1>6 DEF Sound

\* Nothing happens to the copies.
LEMMA CopiesUnchanged ==
  ASSUME Base, UNCHANGED <<kind, cache, copies>>
  PROVE  CopiesKept
BY DEF Base, TypeOK, FreshIsCurrent, copies, CopiesKept, Same

\* Whatever becomes of a write of the status.
LEMMA StatusEffect ==
  ASSUME Base, NEW st \in Report, NEW timed, UNCHANGED <<kind, cache>>,
         UpdateStatus(st, timed)
  PROVE  CopiesKept /\ troubles' \in Nat
<1> DEFINE reported == [res EXCEPT !.status = st]
<1> USE DEF Base, TypeOK
<1>0. /\ reported \in Resources(kind)
      /\ [mem EXCEPT !.status = st] \in Resources(kind)
      /\ Same(reported, res) /\ Same([mem EXCEPT !.status = st], mem)
  BY DEF Resources, Same
<1>1. Current => mem = [res EXCEPT !.status = mem.status]
  BY DEF Current, FreshIsCurrent
<1>2. Current => Same(mem, res)
  BY <1>1 DEF Same, Resources
<1>3. CASE Accepted(reported)
  <2>1. mem' = [res' EXCEPT !.status = mem'.status]
    BY <1>0, <1>3 DEF Accepted, Resources
  <2>2. QED BY <1>0, <1>2, <1>3, <2>1 DEF Accepted, CopiesKept, Same
<1>4. CASE /\ Current /\ res.status = st
           /\ mem' = res /\ UNCHANGED <<res, fresh, troubles>>
  <2>1. mem' = [res' EXCEPT !.status = mem'.status]
    BY <1>4 DEF Resources
  <2>2. QED BY <1>2, <1>4, <2>1 DEF FreshIsCurrent, CopiesKept, Same
<1>5. CASE Refused("status", reported) /\ mem' = [mem EXCEPT !.status = st]
  <2>1. /\ troubles' \in Nat
        /\ \/ UNCHANGED <<res, fresh>>
           \/ res' = reported /\ fresh' = {}
    BY <1>5 DEF Refused, Trouble, Written
  <2>2. "mem" \in fresh /\ UNCHANGED <<res, fresh>>
          => mem' = [res' EXCEPT !.status = mem'.status]
    BY <1>5 DEF FreshIsCurrent, Resources
  <2>3. QED BY <1>0, <1>5, <2>1, <2>2 DEF FreshIsCurrent, CopiesKept, Same
<1>6. QED BY <1>3, <1>4, <1>5 DEF UpdateStatus

-----------------------------------------------------------------------------
(* Writes                                                                   *)

\* What may be put in place of an object without harm.
Fit(x) ==
  /\ x \in Objects /\ x.owner <= res.uid
  /\ x.exists => pc = "work"

LEMMA PutEffect ==
  ASSUME Base, NEW o, NEW x, Fit(x), Put(o, x)
  PROVE  ObjectsKept /\ queue' \in BOOLEAN
<1> USE DEF Base, TypeOK
<1>1. queue' \in BOOLEAN
  BY DEF Put
<1>2. CASE o \in Object
  <2>1. Replaced(o, x)
    BY <1>2 DEF Put, Fit, FreshIsCurrent, Replaced
  <2>2. QED BY <1>1, <1>2, <2>1 DEF ObjectsKept, Fit
<1>3. CASE o \notin Object
  <2>1. UNCHANGED outside
    BY <1>3 DEF Put, outside
  <2>2. QED BY <1>1, <2>1 DEF ObjectsKept
<1>4. QED BY <1>2, <1>3

LEMMA StepFailsEffect ==
  ASSUME pc = "work" \/ pc = "cleanup", StepFails
  PROVE  pc' \in {pc, "failed"}
BY DEF StepFails, Goto

\* The rest of the state is of its type when a write is over.
LEMMA WriteEffect ==
  ASSUME Base, NEW o, NEW accepted, NEW x, Fit(x), Write(o, accepted, x)
  PROVE  /\ ObjectsKept /\ queue' \in BOOLEAN /\ pc' \in {pc, "failed"}
         /\ troubles' \in Nat
<1> USE DEF Base, TypeOK
<1>1. /\ pc' \in {pc, "failed"} /\ troubles' \in Nat
      /\ UNCHANGED <<outside, queue>> \/ Put(o, x)
  BY DEF Write, Proceed, StepFails, Goto, Trouble
<1>2. CASE UNCHANGED <<outside, queue>>
  BY <1>1, <1>2 DEF ObjectsKept
<1>3. CASE Put(o, x)
  BY <1>1, <1>3, PutEffect
<1>4. QED BY <1>1, <1>2, <1>3

LEMMA CreateOrEffect ==
  ASSUME Base, NEW o, NEW x, NEW y, Fit(x), Fit(y), CreateOr(o, x, y)
  PROVE  /\ ObjectsKept /\ queue' \in BOOLEAN /\ pc' \in {pc, "failed"}
         /\ troubles' \in Nat
BY WriteEffect DEF CreateOr

LEMMA CreateOrUpdateEffect ==
  ASSUME Base, NEW o, NEW x, Fit(x), CreateOrUpdate(o, x)
  PROVE  /\ ObjectsKept /\ queue' \in BOOLEAN /\ pc' \in {pc, "failed"}
         /\ troubles' \in Nat
<1>1. CASE Proceed /\ UNCHANGED <<outside, queue, troubles>>
  BY <1>1 DEF Proceed, ObjectsKept, Base, TypeOK
<1>2. CASE CreateOr(o, x, x)
  BY <1>2, CreateOrEffect
<1>3. QED BY <1>1, <1>2 DEF CreateOrUpdate

\* At work, the resource in memory is the one in the API server.
LEMMA OwnedFits ==
  ASSUME Base, pc = "work", NEW c \in Contents
  PROVE  /\ Owned(c) \in Objects /\ Fit(Owned(c))
         /\ Owned(c).owner = mem.uid /\ mem.uid = res.uid
<1>1. mem.uid = res.uid /\ res.uid \in Nat
  BY DEF Base, TypeOK, Guarded, Held, Resources
<1>2. Owned(c) \in Objects /\ Owned(c).owner = mem.uid
  BY <1>1, NoObjectType DEF Owned, Objects, NoObject
<1>3. QED BY <1>1, <1>2 DEF Fit

\* An object like that may carry a serial, a hash, or another's owner.
LEMMA VariantFits ==
  ASSUME Base, pc = "work", NEW x \in Objects, Fit(x)
  PROVE  /\ \A n \in Nat : Fit([x EXCEPT !.serial = n])
         /\ \A m \in SUBSET ((Input \cup Object) \X (Contents \cup Nat)) :
              Fit([x EXCEPT !.made = m])
         /\ \A o \in Object : Fit([x EXCEPT !.owner = objects[o].owner])
<1>1. \A o \in Object : objects[o].owner <= res.uid /\ objects[o].owner \in Nat
  BY DEF Base, TypeOK, OwnedByPast, Objects
<1>2. \A n \in Nat : Fit([x EXCEPT !.serial = n])
  BY DEF Fit, Objects
<1>3. \A o \in Object : Fit([x EXCEPT !.owner = objects[o].owner])
  BY <1>1 DEF Fit, Objects
<1>4. ASSUME NEW m \in SUBSET ((Input \cup Object) \X (Contents \cup Nat))
      PROVE  Fit([x EXCEPT !.made = m])
  <2> DEFINE y == [x EXCEPT !.made = m]
  <2>1. y \in Objects
    BY DEF Objects
  <2>2. y.owner = x.owner /\ y.exists = x.exists
    BY DEF Objects
  <2>3. QED BY <2>1, <2>2 DEF Fit
<1>5. QED BY <1>2, <1>3, <1>4

LEMMA NoObjectFits == ASSUME Base PROVE Fit(NoObject)
<1>1. res.uid \in Nat BY DEF Base, TypeOK, Resources
<1>2. QED BY <1>1, NoObjectType DEF Fit

LEMMA IssuedType ==
  ASSUME Base
  PROVE  /\ Issued \in Nat /\ Rest \in Seq(Nat)
         /\ \A n \in Nat : Append(hand, n) \in Seq(Nat)
         /\ <<>> \in Seq(Nat)
BY DEF Base, TypeOK, Issued, Rest

LEMMA EnrolEffect ==
  ASSUME Base, NEW i, Enrol(i)
  PROVE  hand' \in Seq(Nat) /\ pc' \in {pc, "failed"} /\ troubles' \in Nat
<1> USE DEF Base, TypeOK, Proceed, StepFails, Goto, Trouble
<1>1. CASE UNCHANGED hand
  BY <1>1 DEF Enrol
<1>2. ASSUME NEW n \in Serials, hand' = Append(hand, n), Proceed,
             UNCHANGED troubles
      PROVE  hand' \in Seq(Nat) /\ pc' \in {pc, "failed"} /\ troubles' \in Nat
  <2>1. n \in Nat BY FrameAssumption
  <2>2. QED BY <1>2, <2>1, IssuedType
<1>3. QED BY <1>1, <1>2 DEF Enrol

-----------------------------------------------------------------------------
(* The steps that the controllers share                                     *)

\* The way most actions are shown to be sound.
LEMMA InnerSound ==
  ASSUME Base, CopiesKept, ObjectsKept, Onward, pc' \in PCs,
         queue' \in BOOLEAN, hand' \in Seq(Nat), troubles' \in Nat,
         UNCHANGED inputs
  PROVE  Sound
BY InnerStep DEF Inner, OthersTyped, Base, TypeOK

\* A step of the plan, which may fail, or a step after which it is over.
LEMMA WorkSound ==
  ASSUME Base, pc = "work", CopiesKept, ObjectsKept,
         pc' \in {pc, "succeeded", "failed", "idle"},
         queue' \in BOOLEAN, hand' \in Seq(Nat), troubles' \in Nat,
         UNCHANGED inputs
  PROVE  Sound
BY InnerSound DEF Onward, PCs

\* What the cache shows is true, or was.
LEMMA BeginSound ==
  ASSUME Base, NEW next \in {"init", "finalizer", "deleting", "removal"},
         next = "finalizer" => ~cache.deleting,
         next \in {"deleting", "removal"} => cache.deleting,
         Begin(next)
  PROVE  Sound
<1> USE DEF Base
<1>0. /\ pc' = (IF cache.exists THEN next ELSE "idle") /\ mem' = cache
      /\ pc = "idle" /\ queue' = FALSE
      /\ fresh' = (IF "cache" \in fresh THEN {"cache", "mem"} ELSE {})
      /\ UNCHANGED <<kind, cache, inputs, objects, seen, seenFresh, res,
                     hand, troubles>>
  BY DEF Begin, frame, outside, Goto
<1>1. TypeOK' BY <1>0 DEF TypeOK, PCs
<1>2. FreshIsCurrent'
  <2>1. cache = [cache EXCEPT !.status = cache.status]
    BY DEF TypeOK, Resources
  <2>2. QED BY <1>0, <2>1 DEF FreshIsCurrent
<1>3. Guarded'
  <2>1. Held(cache)' <=> Held(cache) BY <1>0 DEF Held
  <2>2. Held(mem)' <=> Held(cache) BY <1>0 DEF Held
  <2>3. QED BY <1>0, <2>1, <2>2 DEF Guarded
<1>4. DeletionSeen'
  BY <1>0 DEF DeletionSeen
<1>5. OwnedByPast' BY <1>0 DEF OwnedByPast
<1>6. ProtocolStep
  BY <1>0 DEF ProtocolStep, Protocol!vars, Phase
<1>7. QED BY <1>1, <1>2, <1>3, <1>4, <1>5, <1>6 DEF Sound

LEMMA BeginWithDeletionSound ==
  ASSUME Base, BeginWithDeletion
  PROVE  Sound
BY BeginSound DEF BeginWithDeletion

LEMMA BeginWithStatusSound ==
  ASSUME Base, BeginWithStatus
  PROVE  Sound
BY BeginSound DEF BeginWithStatus

LEMMA ReportTypes ==
  ASSUME Base
  PROVE  \A s \in {"PENDING", "RUNNING", "READY", "FAILED", "INVALID"} :
           State(s) \in Report
BY StateType DEF Base, States

LEMMA InitialiseStatusSound ==
  ASSUME Base, InitialiseStatus
  PROVE  Sound
<1>1. /\ pc = "init" /\ UpdateStatus(State("PENDING"), TRUE)
      /\ pc' = (IF mem.deleting THEN "deleting" ELSE "finalizer")
      /\ UNCHANGED <<kind, cache, inputs, outside, queue, hand>>
  BY DEF InitialiseStatus, Goto, frame
<1>2. CopiesKept /\ troubles' \in Nat
  BY <1>1, ReportTypes, StatusEffect
<1>3. QED BY <1>1, <1>2, InnerSound
  DEF Onward, PCs, ObjectsKept, Base, TypeOK

LEMMA MarkFailedSound ==
  ASSUME Base, MarkFailed
  PROVE  Sound
<1>1. /\ UpdateStatus(State("FAILED"), TRUE)
      /\ pc' = "idle" /\ queue' = TRUE /\ hand' = <<>>
      /\ UNCHANGED <<kind, cache, inputs, outside>>
  BY DEF MarkFailed, Goto, frame
<1>2. CopiesKept /\ troubles' \in Nat
  BY <1>1, ReportTypes, StatusEffect
<1>3. QED BY <1>1, <1>2, InnerSound, IssuedType
  DEF Onward, PCs, ObjectsKept

\* The finalizer is added to the resource whose copy the reconciler has.
LEMMA EnsureFinalizerSound ==
  ASSUME Base, NEW steps, EnsureFinalizer(steps)
  PROVE  Sound
<1> DEFINE guarded == [res EXCEPT !.fin = TRUE]
<1> USE DEF Base
<1>0. /\ pc = "finalizer" /\ ~mem.deleting
      /\ UNCHANGED <<kind, cache, inputs, objects, seen, seenFresh, queue, hand>>
      /\ troubles' \in Nat /\ pc' \in {"work", "refused"}
      /\ \/ UNCHANGED <<res, mem, fresh>> /\ (pc' = "work" => mem.fin)
         \/ Current /\ res' = guarded /\ fresh' = {"mem"} /\ mem' = guarded
         \/ /\ Current /\ res' = guarded /\ fresh' = {} /\ mem' = mem
            /\ pc' = "refused"
  BY DEF EnsureFinalizer, Accepted, Refused, Trouble, Written, Guarded, Goto,
         frame, outside, copies, TypeOK
<1>1. CASE UNCHANGED <<res, mem, fresh>> /\ (pc' = "work" => mem.fin)
  <2>1. CASE pc' = "refused"
    <3>1. CopiesKept /\ ObjectsKept /\ Onward
      BY <1>0, <1>1, <2>1, CopiesUnchanged
      DEF ObjectsKept, Onward, copies, outside
    <3>2. QED BY <1>0, <2>1, <3>1, InnerSound DEF PCs, TypeOK
  <2>2. CASE pc' = "work" /\ mem.fin
    <3>1. Held(mem) BY <1>0, <2>2 DEF Guarded
    <3>2. TypeOK' BY <1>0, <1>1 DEF TypeOK, PCs
    <3>3. FreshIsCurrent' BY <1>0, <1>1 DEF FreshIsCurrent
    <3>4. Guarded' BY <1>0, <1>1, <2>2, <3>1 DEF Guarded, Held
    <3>5. DeletionSeen' BY <1>0, <1>1, <2>2 DEF DeletionSeen
    <3>6. OwnedByPast' BY <1>0, <1>1 DEF OwnedByPast
    <3>7. ProtocolStep
      BY <1>0, <1>1 DEF ProtocolStep, Protocol!vars, Phase
    <3>8. QED BY <3>2, <3>3, <3>4, <3>5, <3>6, <3>7 DEF Sound
  <2>3. QED BY <1>0, <1>1, <2>1, <2>2
<1>2. CASE /\ Current /\ res' = guarded
           /\ \/ fresh' = {"mem"} /\ mem' = guarded
              \/ fresh' = {} /\ mem' = mem /\ pc' = "refused"
  <2>0. /\ res \in Resources(kind) /\ mem \in Resources(kind)
        /\ guarded \in Resources(kind)
        /\ guarded = [guarded EXCEPT !.status = guarded.status]
        /\ guarded.exists = res.exists /\ guarded.uid = res.uid /\ guarded.fin
        /\ guarded.deleting = res.deleting
    BY DEF TypeOK, Resources
  <2>1. /\ res.exists /\ ~res.deleting /\ mem.uid = res.uid
        /\ mem.fin = res.fin /\ mem.deleting = res.deleting
    BY <1>0, <1>2, <2>0 DEF Current, FreshIsCurrent, Resources
  <2>2. TypeOK' BY <1>0, <1>2, <2>0 DEF TypeOK, PCs
  <2>3. FreshIsCurrent' BY <1>0, <1>2, <2>0 DEF FreshIsCurrent
  <2>4. Guarded' BY <1>0, <1>2, <2>0, <2>1 DEF Guarded, Held
  <2>5. DeletionSeen' BY <1>0, <1>2, <2>0, <2>1 DEF DeletionSeen
  <2>6. OwnedByPast' BY <1>0, <1>2, <2>0 DEF OwnedByPast
  <2>7. ProtocolStep
    <3>1. CASE res.fin
      BY <1>0, <1>2, <2>0, <2>1, <3>1 DEF ProtocolStep, Protocol!vars, Phase
    <3>2. CASE ~res.fin
      <4>1. Protocol!Guard
        BY <1>0, <1>2, <2>0, <2>1, <3>2
        DEF Protocol!Guard, Protocol!Become, Phase
      <4>2. QED BY <4>1 DEF ProtocolStep, Protocol!Next
    <3>3. QED BY <2>0, <3>1, <3>2 DEF Resources
  <2>8. QED BY <2>2, <2>3, <2>4, <2>5, <2>6, <2>7 DEF Sound
<1>3. QED BY <1>0, <1>1, <1>2

\* Only a resource that is being deleted is released, and nothing that is
\* left of it in the cache says otherwise.
LEMMA RemoveFinalizerSound ==
  ASSUME Base, NEW failing \in {"idle", "failed"}, RemoveFinalizer(failing)
  PROVE  Sound
<1> DEFINE released == [res EXCEPT !.fin = FALSE, !.exists = ~res.deleting]
<1> USE DEF Base
<1>0. /\ pc = "removal" /\ mem.deleting
      /\ UNCHANGED <<kind, cache, inputs, objects, seen, seenFresh>>
      /\ troubles' \in Nat /\ pc' \in {"idle", "failed"}
      /\ queue' \in BOOLEAN /\ hand' \in Seq(Nat)
      /\ \/ UNCHANGED <<res, mem, fresh>>
         \/ /\ Current /\ res' = released /\ fresh' = {"mem"}
            /\ mem' = released /\ pc' = "idle"
         \/ Current /\ res' = released /\ fresh' = {} /\ mem' = mem
  <2>1. /\ pc = "removal" /\ mem.deleting
        /\ UNCHANGED <<kind, cache, inputs, objects, seen, seenFresh>>
    BY DEF RemoveFinalizer, frame, outside, DeletionSeen
  <2>2. CASE Accepted(released) /\ Goto("idle") /\ UNCHANGED <<queue, plan, hand>>
    BY <2>1, <2>2 DEF Accepted, Goto, TypeOK
  <2>3. CASE Refused("object", released) /\ UNCHANGED mem
    <3>1. /\ troubles' \in Nat
          /\ \/ UNCHANGED <<res, fresh>>
             \/ Current /\ res' = released /\ fresh' = {}
      BY <2>3 DEF Refused, Trouble, Written, TypeOK
    <3>2. pc' \in {"idle", "failed"} /\ queue' \in BOOLEAN /\ hand' \in Seq(Nat)
      <4>1. CASE Accepted(released) /\ Goto("idle") /\ UNCHANGED <<queue, plan, hand>>
        BY <4>1 DEF Goto, TypeOK
      <4>2. CASE failing = "idle" /\ ReturnError
        BY <4>2, IssuedType DEF ReturnError, Goto
      <4>3. CASE failing # "idle" /\ Goto(failing) /\ UNCHANGED <<queue, plan, hand>>
        BY <4>3 DEF Goto, TypeOK
      <4>4. QED BY <4>1, <4>2, <4>3 DEF RemoveFinalizer
    <3>3. QED BY <2>1, <2>3, <3>1, <3>2
  <2>4. QED BY <2>2, <2>3 DEF RemoveFinalizer
<1>1. CASE UNCHANGED <<res, mem, fresh>>
  <2>1. CopiesKept /\ ObjectsKept /\ Onward
    BY <1>0, <1>1, CopiesUnchanged DEF ObjectsKept, Onward, copies, outside
  <2>2. QED BY <1>0, <2>1, InnerSound DEF PCs, TypeOK
<1>2. CASE /\ Current /\ res' = released
           /\ \/ fresh' = {"mem"} /\ mem' = released /\ pc' = "idle"
              \/ fresh' = {} /\ mem' = mem
  <2>0. /\ res \in Resources(kind) /\ mem \in Resources(kind)
        /\ cache \in Resources(kind)
        /\ released \in Resources(kind)
        /\ released = [released EXCEPT !.status = released.status]
        /\ released.exists = ~res.deleting /\ released.uid = res.uid
        /\ ~released.fin /\ released.deleting = res.deleting
    BY DEF TypeOK, Resources
  <2>1. res.exists /\ res.deleting /\ res.fin /\ mem.uid = res.uid
    BY <1>0, <1>2 DEF Current, DeletionSeen, Guarded
  <2>2. ~res'.exists BY <1>2, <2>0, <2>1
  <2>3. TypeOK' BY <1>0, <1>2, <2>0 DEF TypeOK, PCs
  <2>4. FreshIsCurrent' BY <1>0, <1>2, <2>0 DEF FreshIsCurrent
  <2>5. Guarded'
    <3>1. ~(cache.exists /\ cache.fin /\ ~cache.deleting)
      BY <1>0, <2>1 DEF Guarded, Held, DeletionSeen
    <3>2. QED BY <1>0, <2>2, <3>1 DEF Guarded
  <2>6. DeletionSeen' BY <1>0, <1>2, <2>0, <2>1, <2>2 DEF DeletionSeen
  <2>7. OwnedByPast' BY <1>0, <1>2, <2>0, <2>2 DEF OwnedByPast
  <2>8. ProtocolStep
    <3>1. Protocol!Release
      BY <1>0, <2>1, <2>2 DEF Protocol!Release, Protocol!Become, Phase
    <3>2. QED BY <3>1 DEF ProtocolStep, Protocol!Next
  <2>9. QED BY <2>3, <2>4, <2>5, <2>6, <2>7, <2>8 DEF Sound
<1>3. QED BY <1>0, <1>1, <1>2

-----------------------------------------------------------------------------
(* The controllers                                                          *)

\* A step of the plan that leaves every copy of the resource alone.
LEMMA QuietSound ==
  ASSUME Base, pc = "work", UNCHANGED <<inside, mem>>, ObjectsKept,
         pc' \in {pc, "succeeded", "failed", "idle"},
         queue' \in BOOLEAN, hand' \in Seq(Nat), troubles' \in Nat
  PROVE  Sound
<1>1. UNCHANGED <<kind, cache, copies, inputs>>
  BY DEF inside, frame, copies
<1>2. QED BY <1>1, CopiesUnchanged, WorkSound

LEMMA NothingSound ==
  ASSUME Base, pc = "work",
         UNCHANGED <<inside, outside, mem, queue, hand, troubles>>,
         pc' \in {pc, "succeeded", "failed", "idle"}
  PROVE  Sound
BY QuietSound DEF ObjectsKept, Base, TypeOK

LEMMA CreateOrSound ==
  ASSUME Base, pc = "work", UNCHANGED <<inside, mem>>, hand' \in Seq(Nat),
         NEW o, NEW x, NEW y, Fit(x), Fit(y), CreateOr(o, x, y)
  PROVE  Sound
<1>1. /\ ObjectsKept /\ queue' \in BOOLEAN /\ pc' \in {pc, "failed"}
      /\ troubles' \in Nat
  BY CreateOrEffect
<1>2. QED BY <1>1, QuietSound

LEMMA CreateOrUpdateSound ==
  ASSUME Base, pc = "work", UNCHANGED <<inside, mem>>, hand' \in Seq(Nat),
         NEW o, NEW x, Fit(x), CreateOrUpdate(o, x)
  PROVE  Sound
<1>1. /\ ObjectsKept /\ queue' \in BOOLEAN /\ pc' \in {pc, "failed"}
      /\ troubles' \in Nat
  BY CreateOrUpdateEffect
<1>2. QED BY <1>1, QuietSound

LEMMA WriteSound ==
  ASSUME Base, pc = "work", UNCHANGED <<inside, mem>>, hand' \in Seq(Nat),
         NEW o, NEW accepted, NEW x, Fit(x), Write(o, accepted, x)
  PROVE  Sound
<1>1. /\ ObjectsKept /\ queue' \in BOOLEAN /\ pc' \in {pc, "failed"}
      /\ troubles' \in Nat
  BY WriteEffect
<1>2. QED BY <1>1, QuietSound

LEMMA EnrolSound ==
  ASSUME Base, pc = "work", UNCHANGED <<inside, outside, mem, queue>>,
         NEW i, Enrol(i)
  PROVE  Sound
<1>1. hand' \in Seq(Nat) /\ pc' \in {pc, "failed"} /\ troubles' \in Nat
  BY EnrolEffect
<1>2. ObjectsKept /\ queue' \in BOOLEAN
  BY DEF ObjectsKept, Base, TypeOK
<1>3. QED BY <1>1, <1>2, QuietSound

\* The last status of a reconcile, or the first of a deletion.
LEMMA ReportSound ==
  ASSUME Base, NEW st \in Report, NEW timed, UpdateStatus(st, timed),
         UNCHANGED <<frame, outside>>, Onward, pc' \in PCs,
         queue' \in BOOLEAN, hand' \in Seq(Nat)
  PROVE  Sound
<1>1. UNCHANGED <<kind, cache, inputs>> /\ ObjectsKept
  BY DEF frame, ObjectsKept
<1>2. CopiesKept /\ troubles' \in Nat
  BY <1>1, StatusEffect
<1>3. QED BY <1>1, <1>2, InnerSound

LEMMA GenesisSound ==
  ASSUME Base, kind = "genesis", GenesisStep
  PROVE  Sound
<1> USE DEF Base
<1>1. CASE GenesisStarts
  BY <1>1, BeginWithDeletionSound DEF GenesisStarts
<1>2. CASE GenesisPending
  BY <1>2, InitialiseStatusSound DEF GenesisPending
<1>3. CASE GenesisGuarded
  BY <1>3, EnsureFinalizerSound DEF GenesisGuarded
<1>4. CASE ValidateGenesis
  BY <1>4, NothingSound, StepFailsEffect DEF ValidateGenesis, At, Proceed
<1>5. CASE FetchCertificate
  <2>1. inputs[Subject] \in Nat
    BY <1>5 DEF FetchCertificate, At, Subject, TypeOK
  <2>2. hand' \in Seq(Nat) /\ pc' \in {pc, "failed"} /\ pc = "work"
    BY <1>5, <2>1, IssuedType, StepFailsEffect
    DEF FetchCertificate, At, Proceed, TypeOK
  <2>3. QED
    BY <1>5, <2>2, QuietSound DEF FetchCertificate, ObjectsKept, TypeOK
<1>6. CASE StoreGenesisBlock
  <2> PICK n \in Serials : CreateOr("block", Block(n), Block(n))
    BY <1>6 DEF StoreGenesisBlock
  <2>1. pc = "work" /\ UNCHANGED <<inside, mem, hand>> /\ n \in Nat
    BY <1>6, FrameAssumption DEF StoreGenesisBlock, At
  <2>2. mem.spec.config \in Contents
    BY GenesisAssumption DEF TypeOK, Resources, GenesisSpec, Contents
  <2>3. {m \in Input \X {hand[i] : i \in DOMAIN hand} :
           \E i \in DOMAIN hand : m = <<Reads(mem.spec)[i], hand[i]>>}
          \in SUBSET ((Input \cup Object) \X (Contents \cup Nat))
    BY DEF TypeOK
  <2>4. Fit([Owned(mem.spec.config) EXCEPT !.serial = n])
    BY <2>1, <2>2, OwnedFits, VariantFits
  <2>5. Fit(Block(n))
    BY <2>1, <2>3, <2>4, VariantFits DEF Block, Fit
  <2>6. QED BY <2>1, <2>5, CreateOrSound DEF TypeOK
<1>7. CASE GenesisDone
  BY <1>7, NothingSound DEF GenesisDone, Goto
<1>8. CASE GenesisRunning
  BY <1>8, ReportSound, ReportTypes, IssuedType
  DEF GenesisRunning, Goto, Onward, PCs, TypeOK
<1>9. CASE GenesisFailed
  BY <1>9, MarkFailedSound DEF GenesisFailed
<1>10. CASE GenesisDeleting
  BY <1>10, ReportSound, ReportTypes
  DEF GenesisDeleting, Goto, Onward, PCs, TypeOK
<1>11. CASE GenesisReleased
  BY <1>11, RemoveFinalizerSound DEF GenesisReleased
<1>12. CASE GenerateBlock
  BY <1>12, NothingSound, StepFailsEffect DEF GenerateBlock, At, Proceed
<1>13. QED
  BY <1>1, <1>2, <1>3, <1>4, <1>5, <1>6, <1>7, <1>8, <1>9, <1>10, <1>11,
     <1>12
  DEF GenesisStep

LEMMA IdentityReportsSound ==
  ASSUME Base, IdentityReports
  PROVE  Sound
<1> DEFINE reported == [res EXCEPT !.status = Outcome]
<1> USE DEF Base
<1>1. /\ pc \in {"succeeded", "failed"} /\ pc' = "idle"
      /\ queue' \in BOOLEAN /\ hand' \in Seq(Nat) /\ troubles' \in Nat
      /\ UNCHANGED <<kind, cache, inputs, mem, outside>>
      /\ \/ UNCHANGED <<res, fresh>>
         \/ res' = reported /\ fresh' = {}
  <2>1. /\ pc \in {"succeeded", "failed"} /\ pc' = "idle"
        /\ UNCHANGED <<kind, cache, inputs, mem, outside>>
    BY DEF IdentityReports, ReturnError, Goto, frame
  <2>2. queue' \in BOOLEAN /\ hand' \in Seq(Nat)
    <3>1. hand' = <<>> BY DEF IdentityReports, ReturnError
    <3>2. queue' \in BOOLEAN BY DEF IdentityReports, ReturnError, TypeOK
    <3>3. QED BY <3>1, <3>2, IssuedType
  <2>3. \/ UNCHANGED <<res, fresh>>
        \/ res' = reported /\ fresh' = {}
    BY DEF IdentityReports, Written
  <2>4. troubles' \in Nat
    <3>1. troubles \in Nat BY DEF TypeOK
    <3>2. QED BY <3>1 DEF IdentityReports, Trouble
  <2>5. QED BY <2>1, <2>2, <2>3, <2>4
<1>2. Outcome \in Report
  <2>1. cache.status \in Report
    BY DEF TypeOK, Resources
  <2>2. QED BY <2>1 DEF Outcome, Report, States, Notes
<1>3. CASE UNCHANGED <<res, fresh>>
  BY <1>1, <1>3, CopiesUnchanged, InnerSound
  DEF copies, ObjectsKept, Onward, PCs
<1>4. CASE res' = reported /\ fresh' = {}
  <2>1. reported \in Resources(kind) /\ Same(reported, res)
    BY <1>2 DEF TypeOK, Resources, Same
  <2>2. CopiesKept
    BY <1>1, <1>4, <2>1 DEF CopiesKept, TypeOK, Same
  <2>3. QED BY <1>1, <2>2, InnerSound DEF ObjectsKept, Onward, PCs
<1>5. QED BY <1>1, <1>3, <1>4

LEMMA IdentitySound ==
  ASSUME Base, kind = "identity", IdentityStep
  PROVE  Sound
<1> USE DEF Base
<1>1. CASE IdentityStarts
  BY <1>1, BeginSound DEF IdentityStarts
<1>2. CASE IdentityGuarded
  BY <1>2, EnsureFinalizerSound DEF IdentityGuarded
<1>3. CASE IdentityRefused
  <2>1. UNCHANGED <<kind, cache, copies, outside, troubles, inputs>>
        /\ pc' = "idle" /\ queue' \in BOOLEAN /\ hand' = <<>>
    BY <1>3 DEF IdentityRefused, ReturnError, Goto, frame
  <2>2. QED BY <2>1, CopiesUnchanged, InnerSound, IssuedType
    DEF ObjectsKept, Onward, PCs, TypeOK
<1>4. CASE CheckOutput
  BY <1>4, NothingSound, StepFailsEffect DEF CheckOutput, At, Proceed, Goto
<1>5. CASE EnrolX509 \/ EnrolIdemix
  BY <1>5, EnrolSound DEF EnrolX509, EnrolIdemix, At
<1>6. CASE StoreCredentials
  <2>1. pc = "work" /\ UNCHANGED <<inside, mem, hand>>
        /\ Write(Subject, TRUE, Credentials)
    BY <1>6 DEF StoreCredentials, At
  <2>2. Fit(Credentials)
    BY <2>1, OwnedFits, VariantFits, IssuedType DEF Credentials, Contents
  <2>3. QED BY <2>1, <2>2, WriteSound DEF TypeOK
<1>7. CASE IdentityDone
  BY <1>7, NothingSound DEF IdentityDone, Goto
<1>8. CASE IdentityReports
  BY <1>8, IdentityReportsSound
<1>9. CASE IdentityReleased
  BY <1>9, RemoveFinalizerSound DEF IdentityReleased
<1>10. QED
  BY <1>1, <1>2, <1>3, <1>4, <1>5, <1>6, <1>7, <1>8, <1>9 DEF IdentityStep

LEMMA CAEnrollmentDeletingSound ==
  ASSUME Base, kind = "caenrollment", CAEnrollmentDeleting
  PROVE  Sound
<1> USE DEF Base
<1>1. "secret" \in Object
  BY CAEnrollmentAssumption DEF TypeOK
<1>2. /\ pc = "deleting" /\ pc' \in {"removal", "idle"}
      /\ UNCHANGED <<kind, cache, copies, inputs>>
      /\ hand' \in Seq(Nat) /\ troubles' \in Nat
  <2>1. /\ pc = "deleting" /\ pc' \in {"removal", "idle"}
        /\ UNCHANGED <<kind, cache, copies, inputs>>
    BY DEF CAEnrollmentDeleting, Goto, ReturnError, frame
  <2>2. hand' = hand \/ hand' = <<>>
    BY DEF CAEnrollmentDeleting, ReturnError
  <2>3. troubles' \in Nat
    <3>1. troubles \in Nat BY DEF TypeOK
    <3>2. QED BY <3>1 DEF CAEnrollmentDeleting, Trouble
  <2>4. QED BY <2>1, <2>2, <2>3, IssuedType DEF TypeOK
<1>3. ObjectsKept /\ queue' \in BOOLEAN
  <2>1. CASE Remove("secret")
    BY <2>1, NoObjectFits, PutEffect DEF Remove
  <2>2. CASE UNCHANGED outside /\ queue' \in {queue, TRUE}
    BY <2>2 DEF ObjectsKept, TypeOK
  <2>3. CASE /\ queue' = TRUE
             /\ objects' = [objects EXCEPT !["secret"] = NoObject]
             /\ \/ seenFresh' = seenFresh \ {"secret"} /\ UNCHANGED seen
                \/ /\ seen' = [seen EXCEPT !["secret"] = NoObject]
                   /\ UNCHANGED seenFresh
    <3>1. Replaced("secret", NoObject)
      BY <1>1, <2>3, NoObjectFits, NoObjectType
      DEF Fit, Replaced, TypeOK, FreshIsCurrent
    <3>2. QED BY <1>1, <2>3, <3>1, NoObjectType DEF ObjectsKept
  <2>4. QED BY <2>1, <2>2, <2>3 DEF CAEnrollmentDeleting, ReturnError
<1>4. CopiesKept BY <1>2, CopiesUnchanged
<1>5. QED BY <1>2, <1>3, <1>4, InnerSound DEF Onward, PCs

LEMMA CAEnrollmentSound ==
  ASSUME Base, kind = "caenrollment", CAEnrollmentStep
  PROVE  Sound
<1> USE DEF Base
<1>1. CASE CAEnrollmentStarts
  BY <1>1, BeginWithStatusSound DEF CAEnrollmentStarts
<1>2. CASE CAEnrollmentPending
  BY <1>2, InitialiseStatusSound DEF CAEnrollmentPending
<1>3. CASE CAEnrollmentGuarded
  BY <1>3, EnsureFinalizerSound DEF CAEnrollmentGuarded
<1>4. CASE CheckSecret
  BY <1>4, NothingSound DEF CheckSecret, At, Proceed, Goto
<1>5. CASE EnrolUser
  BY <1>5, EnrolSound DEF EnrolUser, At
<1>6. CASE StoreEnrolment
  <2> DEFINE issued == [Owned(Unset) EXCEPT !.serial = Issued]
             renewed == [issued EXCEPT !.owner = objects["secret"].owner]
  <2>1. pc = "work" /\ UNCHANGED <<inside, mem, hand>>
        /\ CreateOr("secret", issued, renewed)
    BY <1>6 DEF StoreEnrolment, At
  <2>2. Fit(issued)
    BY <2>1, OwnedFits, VariantFits, IssuedType DEF Contents
  <2>3. Fit(renewed)
    BY <2>1, <2>2, VariantFits, CAEnrollmentAssumption DEF Fit, TypeOK
  <2> HIDE DEF issued, renewed
  <2>4. QED BY <2>1, <2>2, <2>3, CreateOrSound DEF TypeOK
<1>7. CASE CAEnrollmentDone
  BY <1>7, NothingSound DEF CAEnrollmentDone, Goto
<1>8. CASE CAEnrollmentReady
  <2> DEFINE st == [state |-> "READY",
                    notes |-> mem.status.notes \cup
                                IF hand = <<>> THEN {} ELSE {"time", "expiry"}]
  <2>1. st \in Report
    BY DEF TypeOK, Resources, Report, States, Notes
  <2>2. /\ pc = "succeeded" /\ UpdateStatus(st, hand # <<>>)
        /\ queue' = TRUE /\ hand' = <<>> /\ pc' = "idle"
        /\ UNCHANGED <<frame, outside>>
    BY <1>8 DEF CAEnrollmentReady, Goto
  <2> HIDE DEF st
  <2>3. QED BY <2>1, <2>2, ReportSound, IssuedType DEF Onward, PCs
<1>9. CASE CAEnrollmentFailed
  BY <1>9, MarkFailedSound DEF CAEnrollmentFailed
<1>10. CASE CAEnrollmentDeleting
  BY <1>10, CAEnrollmentDeletingSound
<1>11. CASE CAEnrollmentReleased
  BY <1>11, RemoveFinalizerSound DEF CAEnrollmentReleased
<1>12. QED
  BY <1>1, <1>2, <1>3, <1>4, <1>5, <1>6, <1>7, <1>8, <1>9, <1>10, <1>11
  DEF CAEnrollmentStep

LEMMA StoreCertificateSound ==
  ASSUME Base, kind = "endorser", StoreCertificate
  PROVE  Sound
<1> DEFINE issued == [Owned(Unset) EXCEPT !.serial = Issued]
           renewed == [issued EXCEPT !.owner = objects[Subject].owner]
           noted == [mem EXCEPT !.status.notes = @ \cup {Subject}]
<1> USE DEF Base
<1>1. /\ pc = "work" /\ Subject \in Certificates /\ Certificates \subseteq Object
      /\ CreateOr(Subject, issued, renewed) /\ hand' = Rest
      /\ mem' = IF pc' = "failed" THEN mem ELSE noted
      /\ UNCHANGED <<kind, cache, inputs, res, fresh>>
  BY EndorserAssumption
  DEF StoreCertificate, Apply, At, Subject, inside, frame, Certificates,
      endorserOwns, TypeOK
<1>2. Fit(issued)
  BY <1>1, OwnedFits, VariantFits, IssuedType DEF Contents
<1>3. Fit(renewed)
  BY <1>1, <1>2, VariantFits DEF Fit
<1>4. /\ ObjectsKept /\ queue' \in BOOLEAN /\ pc' \in {pc, "failed"}
      /\ troubles' \in Nat
  <2> HIDE DEF issued, renewed
  <2>1. QED BY <1>1, <1>2, <1>3, CreateOrEffect
<1>5. /\ noted \in Resources(kind) /\ Same(noted, mem)
      /\ \A r \in Resources(kind) :
           mem = [r EXCEPT !.status = mem.status]
             => noted = [r EXCEPT !.status = noted.status]
  BY <1>1 DEF TypeOK, Resources, Report, Notes, Certificates, Same
<1>6. CopiesKept
  BY <1>1, <1>5 DEF CopiesKept, TypeOK, FreshIsCurrent, Same
<1>7. QED BY <1>1, <1>4, <1>6, WorkSound, IssuedType

\* Fit objects may be applied, whatever they replace.
LEMMA ApplySound ==
  ASSUME Base, pc = "work", UNCHANGED <<inside, mem, hand>>,
         NEW o \in Object, NEW wanted, Fit(wanted), Apply(o, wanted)
  PROVE  Sound
<1> DEFINE kept == [wanted EXCEPT !.owner = objects[o].owner]
<1>1. Fit(kept)
  BY VariantFits DEF Fit
<1>2. CreateOr(o, wanted, kept)
  BY DEF Apply
<1> HIDE DEF kept
<1>3. QED BY <1>1, <1>2, CreateOrSound DEF Base, TypeOK

LEMMA EndorserSound ==
  ASSUME Base, kind = "endorser", EndorserStep
  PROVE  Sound
<1> USE DEF Base
<1>0. /\ endorserOwns \subseteq Object
      /\ mem.spec.config \in Contents /\ Unset \in Contents
  BY EndorserAssumption
  DEF TypeOK, Resources, EndorserSpec, Contents
<1>1. CASE EndorserStarts
  BY <1>1, BeginWithDeletionSound DEF EndorserStarts
<1>2. CASE EndorserPending
  BY <1>2, InitialiseStatusSound DEF EndorserPending
<1>3. CASE EndorserGuarded
  BY <1>3, EnsureFinalizerSound DEF EndorserGuarded
<1>4. CASE EnrolCertificate
  <2>1. CASE Enrol("ca")
    BY <1>4, <2>1, EnrolSound DEF EnrolCertificate, At
  <2>2. CASE UNCHANGED <<pc, hand, troubles>>
    BY <1>4, <2>2, NothingSound DEF EnrolCertificate, At
  <2>3. QED BY <1>4, <2>1, <2>2 DEF EnrolCertificate
<1>5. CASE StoreCertificate
  BY <1>5, StoreCertificateSound
<1>6. CASE WriteConfig
  BY <1>0, <1>6, OwnedFits, ApplySound
  DEF WriteConfig, At, endorserOwns
<1>7. CASE RollOut
  <2> DEFINE wanted == [Owned(Unset) EXCEPT !.made = Mounts]
  <2>1. /\ pc = "work" /\ UNCHANGED <<inside, mem, hand>>
        /\ \/ Apply("deployment", wanted)
           \/ StepFails /\ UNCHANGED <<outside, queue, troubles>>
    BY <1>7 DEF RollOut, At
  <2>2. Mounts \in SUBSET ((Input \cup Object) \X (Contents \cup Nat))
    <3>1. \A o \in Object : seen[o].content \in Contents /\ seen[o].serial \in Nat
      BY DEF TypeOK, Objects
    <3>2. "config" \in Object /\ Certificates \subseteq Object
      BY <1>0 DEF Certificates, endorserOwns
    <3>3. QED BY <3>1, <3>2 DEF Mounts, Named
  <2>3. Fit(wanted)
    BY <1>0, <2>1, <2>2, OwnedFits, VariantFits
  <2>4. "deployment" \in Object
    BY <1>0 DEF endorserOwns
  <2> HIDE DEF wanted
  <2>5. QED
    BY <2>1, <2>3, <2>4, ApplySound, NothingSound, StepFailsEffect
<1>8. CASE EndorserRunning
  BY <1>8, ReportSound, ReportTypes
  DEF EndorserRunning, Goto, Onward, PCs, TypeOK
<1>9. CASE EndorserFailed
  BY <1>9, MarkFailedSound DEF EndorserFailed
<1>10. CASE EndorserDeleting
  <2>1. /\ pc = "deleting" /\ pc' = "removal"
        /\ UNCHANGED <<kind, cache, copies, outside, inputs, queue, hand, troubles>>
    BY <1>10 DEF EndorserDeleting, Goto, frame
  <2>2. QED BY <2>1, CopiesUnchanged, InnerSound
    DEF ObjectsKept, Onward, PCs, TypeOK
<1>11. CASE EndorserReleased
  BY <1>11, RemoveFinalizerSound DEF EndorserReleased
<1>12. CASE WriteService
  BY <1>0, <1>12, OwnedFits, ApplySound
  DEF WriteService, At, endorserOwns
<1>13. QED
  BY <1>1, <1>2, <1>3, <1>4, <1>5, <1>6, <1>7, <1>8, <1>9, <1>10, <1>11,
     <1>12
  DEF EndorserStep

LEMMA CADeletesSound ==
  ASSUME Base, CADeletes
  PROVE  Sound
<1> USE DEF Base
<1>1. /\ pc = "cleanup" /\ UNCHANGED <<kind, cache, copies, inputs, hand>>
      /\ Write(Subject, TRUE, NoObject)
  BY DEF CADeletes, inside, frame, copies
<1>2. /\ ObjectsKept /\ queue' \in BOOLEAN /\ pc' \in {pc, "failed"}
      /\ troubles' \in Nat
  BY <1>1, NoObjectFits, WriteEffect
<1>3. CopiesKept BY <1>1, CopiesUnchanged
<1>4. QED BY <1>1, <1>2, <1>3, InnerSound DEF Onward, PCs, TypeOK

LEMMA CASound ==
  ASSUME Base, kind = "ca", CAStep
  PROVE  Sound
<1> USE DEF Base
<1>0. /\ caOwns \subseteq Object /\ Unset \in Contents
      /\ mem.spec.config \in Contents
  BY CAAssumption DEF TypeOK, Resources, CASpec, Contents
<1>f. ASSUME pc = "work", NEW c \in Contents PROVE Fit(Owned(c))
  BY <1>f, OwnedFits
<1>h. hand \in Seq(Nat) BY DEF TypeOK
<1>1. CASE CAStarts
  BY <1>1, BeginWithStatusSound DEF CAStarts
<1>2. CASE CAPending
  BY <1>2, InitialiseStatusSound DEF CAPending
<1>3. CASE CAGuarded
  BY <1>3, EnsureFinalizerSound DEF CAGuarded
<1>4. CASE ReconcileConfigMaps
  BY <1>0, <1>f, <1>h, <1>4, CreateOrUpdateSound DEF ReconcileConfigMaps, At
<1>5. CASE GenerateKeys
  <2>1. /\ pc = "work" /\ Proceed
        /\ UNCHANGED <<inside, outside, mem, queue, troubles>>
    BY <1>5 DEF GenerateKeys, At
  <2>2. KeyPairs \subseteq Object
    BY <1>0 DEF KeyPairs, caOwns
  <2>3. hand' \in Seq(Nat)
    <3>1. \A k \in Object : seen[k].serial \in Nat
      BY DEF TypeOK, Objects
    <3>2. Serials \subseteq Nat BY FrameAssumption
    <3>3. \A a, b, c \in Nat : <<a, b, c>> \in Seq(Nat)
      OBVIOUS
    <3>4. QED BY <1>5, <2>2, <3>1, <3>2, <3>3 DEF GenerateKeys, KeyPairs, NewSerial
  <2>4. ObjectsKept /\ queue' \in BOOLEAN /\ pc' = pc /\ troubles' \in Nat
    BY <2>1 DEF ObjectsKept, Proceed, TypeOK
  <2>5. QED BY <2>1, <2>3, <2>4, QuietSound
<1>6. CASE StoreKeys
  <2> DEFINE pair == [Owned(Unset) EXCEPT !.serial = Issued]
  <2>1. /\ pc = "work" /\ UNCHANGED <<inside, mem>>
        /\ CreateOrUpdate(Subject, pair)
        /\ hand' = Rest \/ hand' = <<>>
    BY <1>6 DEF StoreKeys, At
  <2>2. Fit(pair)
    BY <1>0, <2>1, OwnedFits, VariantFits, IssuedType
  <2>3. hand' \in Seq(Nat) BY <2>1, IssuedType
  <2> HIDE DEF pair
  <2>4. QED BY <2>1, <2>2, <2>3, CreateOrUpdateSound
<1>7. CASE ReconcilePVC
  BY <1>0, <1>f, <1>h, <1>7, CreateOrUpdateSound DEF ReconcilePVC, At
<1>8. CASE ReconcileService
  BY <1>0, <1>f, <1>h, <1>8, CreateOrSound DEF ReconcileService, At
<1>9. CASE ReconcileIngress
  <2>1. pc = "work" /\ UNCHANGED <<inside, mem>> /\ hand' \in Seq(Nat)
    BY <1>h, <1>9 DEF ReconcileIngress, At
  <2>2. CASE CreateOr("ingress", Owned(Unset), Owned(Unset))
    BY <1>0, <1>f, <2>1, <2>2, CreateOrSound
  <2>3. CASE Write("ingress", TRUE, NoObject)
    BY <2>1, <2>3, NoObjectFits, WriteSound
  <2>4. QED BY <1>9, <2>2, <2>3 DEF ReconcileIngress
<1>10. CASE ReconcileDeployment
  <2> DEFINE wanted == [Owned(Unset) EXCEPT !.made = ConfigHash]
  <2>1. /\ pc = "work" /\ UNCHANGED <<inside, mem, hand>>
        /\ CreateOr("deployment", wanted, wanted)
    BY <1>10 DEF ReconcileDeployment, At
  <2>2. ConfigHash \in SUBSET ((Input \cup Object) \X (Contents \cup Nat))
    <3>1. "config" \in Object BY <1>0 DEF caOwns
    <3>2. seen["config"].content \in Contents
      BY <3>1 DEF TypeOK, Objects
    <3>3. QED BY <3>1, <3>2 DEF ConfigHash
  <2>3. Fit(wanted)
    BY <1>0, <2>1, <2>2, OwnedFits, VariantFits
  <2> HIDE DEF wanted
  <2>4. QED BY <1>h, <2>1, <2>3, CreateOrSound
<1>11. CASE ReconcileAccount
  <2>1. CASE seen["account"].exists
    BY <1>11, <2>1, NothingSound DEF ReconcileAccount, At, Proceed
  <2>2. CASE ~seen["account"].exists
    BY <1>0, <1>f, <1>h, <1>11, <2>2, WriteSound DEF ReconcileAccount, At
  <2>3. QED BY <2>1, <2>2
<1>12. CASE ReconcileKeysJob
  <2>1. CASE Proceed /\ UNCHANGED <<outside, queue, troubles>>
    BY <1>12, <2>1, NothingSound DEF ReconcileKeysJob, At, Proceed
  <2>2. CASE Write("job", ~objects["job"].exists, Owned(Unset))
    BY <1>0, <1>f, <1>h, <1>12, <2>2, WriteSound DEF ReconcileKeysJob, At
  <2>3. QED BY <1>12, <2>1, <2>2 DEF ReconcileKeysJob
<1>13. CASE CADone
  BY <1>13, NothingSound DEF CADone, Goto
<1>14. CASE CARunning
  BY <1>14, ReportSound, ReportTypes, IssuedType
  DEF CARunning, Goto, Onward, PCs, TypeOK
<1>15. CASE CAFailed
  BY <1>15, MarkFailedSound DEF CAFailed
<1>16. CASE CADeleting
  BY <1>16, ReportSound, ReportTypes
  DEF CADeleting, Goto, Onward, PCs, TypeOK
<1>17. CASE CADeletes
  BY <1>17, CADeletesSound
<1>18. CASE CADeleted
  <2>1. /\ pc = "cleanup" /\ pc' \in {"removal", "failed"}
        /\ UNCHANGED <<kind, cache, copies, outside, inputs, queue, hand, troubles>>
    BY <1>18 DEF CADeleted, Goto, inside, frame, copies
  <2>2. QED BY <2>1, CopiesUnchanged, InnerSound
    DEF ObjectsKept, Onward, PCs, TypeOK
<1>19. CASE CAReleased
  BY <1>19, RemoveFinalizerSound DEF CAReleased
<1>20. QED
  BY <1>1, <1>2, <1>3, <1>4, <1>5, <1>6, <1>7, <1>8, <1>9, <1>10, <1>11,
     <1>12, <1>13, <1>14, <1>15, <1>16, <1>17, <1>18, <1>19 DEF CAStep

LEMMA ReconcilerSound ==
  ASSUME Base, Reconciler
  PROVE  Sound
BY GenesisSound, IdentitySound, CAEnrollmentSound, EndorserSound, CASound
DEF Reconciler

-----------------------------------------------------------------------------
(* The users and the environment                                            *)

\* Nothing is left that could be mistaken for the new resource's.
LEMMA CreateSound ==
  ASSUME Base, NEW s \in Specs[kind], CreateResource(s)
  PROVE  Sound
<1> DEFINE new == [NoResource(kind) EXCEPT !.exists = TRUE,
                                           !.uid = res.uid + 1, !.spec = s]
<1> USE DEF Base
<1>0. /\ ~res.exists /\ res' = new /\ fresh' = {}
      /\ UNCHANGED <<kind, cache, inputs, mem, queue, pc, hand>>
      /\ UNCHANGED <<objects, seen, seenFresh>>
  BY DEF CreateResource, Written, frame, outside
<1>1. troubles' \in Nat
  BY DEF CreateResource, Trouble, TypeOK
<1>2. /\ new \in Resources(kind) /\ new.uid = res.uid + 1 /\ res.uid \in Nat
      /\ cache.uid \in Nat /\ mem.uid \in Nat
      /\ new.exists /\ ~new.fin /\ ~new.deleting
  <2>1. /\ res.uid \in Nat /\ cache.uid \in Nat /\ mem.uid \in Nat
        /\ kind \in Kinds
    BY DEF TypeOK, Resources
  <2>2. /\ NoResource(kind) \in Resources(kind)
        /\ ~NoResource(kind).fin /\ ~NoResource(kind).deleting
    BY <2>1, NoResourceType
  <2>3. ASSUME NEW r \in Resources(kind), ~r.fin, ~r.deleting, NEW n \in Nat
        PROVE  LET m == [r EXCEPT !.exists = TRUE, !.uid = n, !.spec = s]
               IN  /\ m \in Resources(kind) /\ m.uid = n
                   /\ m.exists /\ ~m.fin /\ ~m.deleting
    BY <2>3 DEF Resources
  <2>4. res.uid + 1 \in Nat BY <2>1
  <2>5. /\ new \in Resources(kind) /\ new.uid = res.uid + 1
        /\ new.exists /\ ~new.fin /\ ~new.deleting
    BY <2>2, <2>3, <2>4, Zenon
  <2>6. QED BY <2>1, <2>5
<1>3. \A o \in Object : objects[o].owner \in Nat /\ seen[o].owner \in Nat
  BY DEF TypeOK, Objects
<1>4. TypeOK' BY <1>0, <1>1, <1>2 DEF TypeOK
<1>5. FreshIsCurrent' BY <1>0 DEF FreshIsCurrent
<1>6. Guarded' BY <1>0, <1>2 DEF Guarded, Held
<1>7. DeletionSeen' BY <1>0, <1>2 DEF DeletionSeen
<1>8. OwnedByPast' BY <1>0, <1>2, <1>3 DEF OwnedByPast
<1>9. ProtocolStep
  <2>1. Protocol!Create
    BY <1>0, <1>2 DEF Protocol!Create, Protocol!Become, Phase
  <2>2. QED BY <2>1 DEF ProtocolStep, Protocol!Next
<1>10. QED BY <1>4, <1>5, <1>6, <1>7, <1>8, <1>9 DEF Sound

LEMMA EditSound ==
  ASSUME Base, NEW s \in Specs[kind], EditSpec(s)
  PROVE  Sound
<1> USE DEF Base
<1>1. /\ res' = [res EXCEPT !.spec = s] /\ fresh' = {}
      /\ UNCHANGED <<kind, cache, inputs, mem, queue, pc, hand, outside>>
  BY DEF EditSpec, Written, frame
<1>2. troubles' \in Nat
  BY DEF EditSpec, Trouble, TypeOK
<1>3. res' \in Resources(kind) /\ Same(res', res)
  BY <1>1 DEF TypeOK, Resources, Same
<1>4. CopiesKept
  BY <1>1, <1>3 DEF CopiesKept, TypeOK, Same
<1>5. QED BY <1>1, <1>2, <1>4, InnerSound DEF ObjectsKept, Onward, TypeOK

LEMMA DeleteSound ==
  ASSUME Base, DeleteResource
  PROVE  Sound
<1> DEFINE marked == [res EXCEPT !.deleting = TRUE]
           gone   == [res EXCEPT !.exists = FALSE]
<1> USE DEF Base
<1>0. /\ res.exists /\ ~res.deleting /\ fresh' = {}
      /\ res' = IF res.fin THEN marked ELSE gone
      /\ UNCHANGED <<kind, cache, inputs, mem, queue, pc, hand, troubles>>
      /\ UNCHANGED <<objects, seen, seenFresh>>
  BY DEF DeleteResource, Written, frame, outside
<1>1. /\ marked \in Resources(kind) /\ gone \in Resources(kind)
      /\ marked.exists /\ marked.fin = res.fin /\ marked.deleting
      /\ marked.uid = res.uid /\ gone.uid = res.uid /\ ~gone.exists
  BY <1>0 DEF TypeOK, Resources
<1>2. TypeOK' BY <1>0, <1>1 DEF TypeOK
<1>3. FreshIsCurrent' BY <1>0 DEF FreshIsCurrent
<1>4. Guarded' BY <1>0, <1>1 DEF Guarded, Held
<1>5. DeletionSeen' BY <1>0, <1>1 DEF DeletionSeen
<1>6. OwnedByPast' BY <1>0, <1>1 DEF OwnedByPast
<1>7. ProtocolStep
  <2>1. CASE res.fin
    <3>1. Protocol!Terminate
      BY <1>0, <1>1, <2>1 DEF Protocol!Terminate, Protocol!Become, Phase
    <3>2. QED BY <3>1 DEF ProtocolStep, Protocol!Next
  <2>2. CASE ~res.fin
    <3>1. Protocol!Abandon
      BY <1>0, <1>1, <2>2 DEF Protocol!Abandon, Protocol!Become, Phase
    <3>2. QED BY <3>1 DEF ProtocolStep, Protocol!Next
  <2>3. QED BY <2>1, <2>2
<1>8. QED BY <1>2, <1>3, <1>4, <1>5, <1>6, <1>7 DEF Sound

LEMMA CacheSyncSound ==
  ASSUME Base, CacheSync
  PROVE  Sound
<1> USE DEF Base
<1>0. /\ cache' = res /\ fresh' = fresh \cup {"cache"} /\ queue' = TRUE
      /\ UNCHANGED <<kind, res, mem, pc, hand, inputs, troubles>>
      /\ UNCHANGED <<objects, seen, seenFresh>>
  BY DEF CacheSync, outside
<1>1. TypeOK' BY <1>0 DEF TypeOK
<1>2. FreshIsCurrent' BY <1>0 DEF FreshIsCurrent
<1>3. Guarded' BY <1>0 DEF Guarded, Held
<1>4. DeletionSeen'
  <2>1. res.uid \in Nat BY DEF TypeOK, Resources
  <2>2. QED BY <1>0, <2>1 DEF DeletionSeen
<1>5. OwnedByPast' BY <1>0 DEF OwnedByPast
<1>6. ProtocolStep
  BY <1>0 DEF ProtocolStep, Protocol!vars, Phase
<1>7. QED BY <1>1, <1>2, <1>3, <1>4, <1>5, <1>6 DEF Sound

LEMMA CrashSound ==
  ASSUME Base, OperatorCrash
  PROVE  Sound
<1> USE DEF Base
<1>0. /\ pc' = "idle" /\ cache' = res /\ fresh' = {"cache"}
      /\ queue' = res.exists /\ hand' = <<>>
      /\ seen' = objects /\ seenFresh' = Object
      /\ UNCHANGED <<kind, res, mem, objects, inputs>>
  BY DEF OperatorCrash, Goto
<1>1. troubles' \in Nat
  BY DEF OperatorCrash, Trouble, TypeOK
<1>2. TypeOK'
  <2>1. res.exists \in BOOLEAN BY DEF TypeOK, Resources
  <2>2. queue' \in BOOLEAN BY <1>0, <2>1
  <2>3. QED BY <1>0, <1>1, <2>2, IssuedType DEF TypeOK, PCs
<1>3. FreshIsCurrent' BY <1>0 DEF FreshIsCurrent
<1>4. Guarded' BY <1>0 DEF Guarded, Held
<1>5. DeletionSeen'
  <2>1. res.uid \in Nat BY DEF TypeOK, Resources
  <2>2. QED BY <1>0, <2>1 DEF DeletionSeen
<1>6. OwnedByPast' BY <1>0 DEF OwnedByPast
<1>7. ProtocolStep
  BY <1>0 DEF ProtocolStep, Protocol!vars, Phase
<1>8. QED BY <1>2, <1>3, <1>4, <1>5, <1>6, <1>7 DEF Sound

\* Whatever happens to an object or to its copy outside the reconciler.
LEMMA OutsideSound ==
  ASSUME Base, UNCHANGED <<kind, cache, copies, pc, hand>>, ObjectsKept,
         queue' \in BOOLEAN, inputs' \in [Input -> Nat], troubles' \in Nat
  PROVE  Sound
<1>1. CopiesKept BY CopiesUnchanged
<1>2. QED BY <1>1, InnerStep DEF Inner, OthersTyped, Onward, Base, TypeOK

LEMMA ObjectSound ==
  ASSUME Base, NEW o \in Object,
         ObjectSync(o) \/ Touch(o) \/ Lose(o) \/ GarbageCollect(o)
  PROVE  Sound
<1> USE DEF Base
<1>0. objects[o] \in Objects /\ objects[o].owner <= res.uid
  BY DEF TypeOK, OwnedByPast
<1>1. CASE ObjectSync(o)
  <2>1. Replaced(o, objects[o])
    BY <1>0, <1>1 DEF ObjectSync, Replaced, TypeOK, FreshIsCurrent
  <2>2. ObjectsKept BY <1>0, <2>1 DEF ObjectsKept
  <2>3. queue' \in BOOLEAN
    BY <1>1 DEF ObjectSync, Wakes, TypeOK
  <2>4. QED BY <1>1, <2>2, <2>3, OutsideSound DEF ObjectSync, frame, TypeOK
<1>2. CASE Touch(o)
  <2>1. Replaced(o, objects[o])
    BY <1>0, <1>2 DEF Touch, Replaced, TypeOK, FreshIsCurrent
  <2>2. ObjectsKept BY <1>0, <2>1 DEF ObjectsKept
  <2>3. troubles' \in Nat BY <1>2 DEF Touch, Trouble, TypeOK
  <2>4. QED BY <1>2, <2>2, <2>3, OutsideSound DEF Touch, frame, TypeOK
<1>3. CASE Lose(o) \/ GarbageCollect(o)
  <2>1. /\ Put(o, NoObject) /\ troubles' \in Nat
        /\ UNCHANGED <<kind, cache, inputs, copies, pc, hand>>
    BY <1>3 DEF Lose, GarbageCollect, Remove, Trouble, frame, TypeOK
  <2>2. ObjectsKept /\ queue' \in BOOLEAN
    BY <2>1, NoObjectFits, PutEffect
  <2>3. QED BY <2>1, <2>2, OutsideSound DEF TypeOK
<1>4. QED BY <1>1, <1>2, <1>3

LEMMA SupplySound ==
  ASSUME Base, NEW i \in Input, Supply(i)
  PROVE  Sound
<1>1. /\ inputs' \in [Input -> Nat] /\ troubles' \in Nat
      /\ UNCHANGED <<kind, cache, copies, outside, queue, pc, hand>>
  BY DEF Supply, Trouble, Base, TypeOK
<1>2. QED BY <1>1, OutsideSound DEF ObjectsKept, Base, TypeOK

LEMMA ExpireSound ==
  ASSUME Base, Expire
  PROVE  Sound
<1> DEFINE due == [objects["secret"] EXCEPT !.content = Due]
<1> USE DEF Base
<1>1. "secret" \in Object
  BY CAEnrollmentAssumption DEF Expire, TypeOK
<1>2. /\ due \in Objects /\ due.owner = objects["secret"].owner
      /\ objects["secret"].exists /\ objects["secret"].owner <= res.uid
      /\ [seen["secret"] EXCEPT !.content = Due] \in Objects
      /\ [seen["secret"] EXCEPT !.content = Due].owner = seen["secret"].owner
  BY <1>1 DEF Expire, TypeOK, OwnedByPast, Objects, Contents
<1>3. /\ objects' = [objects EXCEPT !["secret"] = due]
      /\ seen' = IF seen["secret"].exists
                   THEN [seen EXCEPT !["secret"] =
                           [seen["secret"] EXCEPT !.content = Due]] ELSE seen
      /\ troubles' \in Nat
      /\ UNCHANGED <<kind, cache, inputs, copies, seenFresh, queue, pc, hand>>
  BY DEF Expire, Trouble, frame, TypeOK
<1>4. Replaced("secret", due)
  BY <1>1, <1>2, <1>3 DEF Replaced, TypeOK, FreshIsCurrent
<1>5. QED BY <1>1, <1>2, <1>3, <1>4, OutsideSound DEF ObjectsKept, TypeOK

-----------------------------------------------------------------------------
(* The theorems                                                             *)

LEMMA InitSound == Init => Base /\ Protocol!Init
<1> SUFFICES ASSUME Init PROVE Base /\ Protocol!Init
  OBVIOUS
<1>0. /\ kind \in Kinds /\ res = NoResource(kind) /\ cache = res /\ mem = res
      /\ queue = FALSE /\ pc = "idle" /\ hand = <<>>
      /\ objects = [o \in Object |-> NoObject] /\ seen = objects
      /\ inputs = [i \in Input |-> 0] /\ troubles = 0
      /\ fresh = {"cache", "mem"} /\ seenFresh = Object
  BY DEF Init
<1>1. /\ res \in Resources(kind) /\ ~res.exists /\ res.uid = 0
      /\ ~res.fin /\ ~res.deleting
  BY <1>0, NoResourceType
<1>2. TypeOK
  <2>1. objects \in [Object -> Objects] /\ inputs \in [Input -> Nat]
    BY <1>0, NoObjectType
  <2>2. hand \in Seq(Nat) BY <1>0
  <2>3. QED BY <1>0, <1>1, <2>1, <2>2 DEF TypeOK, PCs
<1>3. FreshIsCurrent
  <2>1. mem = [res EXCEPT !.status = mem.status]
    BY <1>0, <1>1 DEF Resources
  <2>2. QED BY <1>0, <2>1 DEF FreshIsCurrent
<1>4. Guarded BY <1>0, <1>1 DEF Guarded
<1>5. DeletionSeen BY <1>0, <1>1 DEF DeletionSeen
<1>6. OwnedByPast BY <1>0, <1>1, NoObjectType DEF OwnedByPast
<1>7. Protocol!Init
  <2>1. Phase = "absent" BY <1>1 DEF Phase
  <2>2. {o \in Object : objects[o].exists} = {}
    <3>1. \A o \in Object : objects[o] = NoObject BY <1>0
    <3>2. QED BY <3>1, NoObjectType
  <2>3. QED BY <2>1, <2>2 DEF Protocol!Init
<1>8. QED BY <1>2, <1>3, <1>4, <1>5, <1>6, <1>7 DEF Base

LEMMA StepSound ==
  ASSUME Base, [Next]_vars
  PROVE  Sound
<1>1. CASE UNCHANGED vars
  BY <1>1, OutsideSound
  DEF vars, copies, outside, ObjectsKept, Base, TypeOK
<1>2. CASE User
  BY <1>2, CreateSound, EditSound, DeleteSound DEF User
<1>3. CASE Reconciler
  BY <1>3, ReconcilerSound
<1>4. CASE Environment
  BY <1>4, CacheSyncSound, CrashSound, ObjectSound, SupplySound DEF Environment
<1>5. CASE Expire
  BY <1>5, ExpireSound
<1>6. QED BY <1>1, <1>2, <1>3, <1>4, <1>5 DEF Next

\* The inductive invariant holds of every one of the five controllers.
LEMMA BaseInvariance == Spec => []Base
<1>1. Init => Base BY InitSound
<1>2. Base /\ [Next]_vars => Base' BY StepSound DEF Sound
<1>3. QED BY <1>1, <1>2, PTL DEF Spec

\* Every controller implements the protocol that its finalizer is for.
THEOREM ImplementsFinalizerProtocol == Spec => FollowsFinalizerProtocol
<1>1. Init => Protocol!Init BY InitSound
<1>2. Base /\ [Next]_vars => [Protocol!Next]_(Protocol!vars)
  BY StepSound DEF Sound, ProtocolStep
<1>3. QED
  BY <1>1, <1>2, BaseInvariance, PTL
  DEF Spec, FollowsFinalizerProtocol, Protocol!Spec
=============================================================================
