--------------------------- MODULE CommitterProofs ---------------------------
(***************************************************************************)
(* Theorems about Committer, for any of its children, any specs and any    *)
(* bounds: the inductive invariant, that no child goes back to an older    *)
(* spec, and that the controller implements the finalizer protocol.        *)
(***************************************************************************)
EXTENDS Committer, TLAPS

\* What build*Spec returns is a child spec.
LEMMA BuildSpecType ==
  ASSUME NEW s \in Specs, NEW c \in Child
  PROVE  BuildSpec(s, c) \in ChildSpec
<1>1. /\ s.common \in [on : BOOLEAN, replicas : Nat]
      /\ s.enrollment \in Settings \cup {Unset}
      /\ s.shared \in Settings \cup {Unset}
      /\ s.cfg \in [Child -> ComponentConfig]
  BY CommitterAssumption DEF CommitterSpec
<1>2. /\ s.cfg[c].enrollment \in Settings \cup {Unset}
      /\ s.cfg[c].endpoints \in Settings \cup {Unset}
  BY <1>1 DEF ComponentConfig
<1>3. \A e \in Settings \cup {Unset} : Built(s, c, e) \in ChildSpec
  BY <1>1, <1>2 DEF Built, ChildSpec
<1>4. OwnEndpoints(s, c) \in Settings \cup {Unset}
  BY <1>2 DEF OwnEndpoints
<1>5. c \in {Coordinator, Sidecar, Validator, Verifier, QueryService}
  BY CommitterAssumption
  DEF Child, Coordinator, Sidecar, Validator, Verifier, QueryService
<1>i. /\ Coordinator = 1 /\ Sidecar = 2 /\ Validator = 3 /\ Verifier = 4
      /\ QueryService = 5
  BY DEF Coordinator, Sidecar, Validator, Verifier, QueryService
<1>6. CASE c = Coordinator
  <2>1. BuildSpec(s, c) = buildCoordinatorSpec(s)
    BY <1>6, <1>i DEF BuildSpec
  <2>2. \E e \in Settings \cup {Unset} : buildCoordinatorSpec(s) = Built(s, c, e)
    BY <1>1, <1>6 DEF buildCoordinatorSpec
  <2>3. QED BY <1>3, <2>1, <2>2
<1>7. CASE c = Sidecar
  <2>1. BuildSpec(s, c) = buildSidecarSpec(s)
    BY <1>7, <1>i DEF BuildSpec
  <2>2. \E e \in Settings \cup {Unset} : buildSidecarSpec(s) = Built(s, c, e)
    BY <1>1, <1>4, <1>7 DEF buildSidecarSpec
  <2>3. QED BY <1>3, <2>1, <2>2
<1>8. CASE c \in {Validator, Verifier, QueryService}
  <2>1. BuildSpec(s, c) = Built(s, c, OwnEndpoints(s, c))
    BY <1>8, <1>i
    DEF BuildSpec, buildValidatorSpec, buildVerifierSpec, buildQueryServiceSpec
  <2>2. QED BY <1>3, <1>4, <2>1
<1>9. QED BY <1>5, <1>6, <1>7, <1>8

\* What create-or-update leaves behind is a child.
LEMMA CreateOrUpdateType ==
  ASSUME TypeOK, NEW c \in Child
  PROVE  CreateOrUpdate(c) \in Children /\ CreateOrUpdate(c).from = mem.gen
<1>1. mem.spec \in Specs /\ mem.gen \in Nat
  BY DEF TypeOK, Committers
<1>2. BuildSpec(mem.spec, c) \in ChildSpec
  BY <1>1, BuildSpecType
<1>3. children[c] \in Children
  BY DEF TypeOK
<1>4. QED
  BY <1>1, <1>2, <1>3 DEF CreateOrUpdate, Children

\* The writes of the committer keep its type.
LEMMA WriteType ==
  ASSUME NEW m \in Committers, NEW s \in Specs, NEW n \in Nat,
         NEW a \in BOOLEAN, NEW b \in BOOLEAN, NEW st \in Statuses
  PROVE  /\ [m EXCEPT !.spec = s, !.gen = n] \in Committers
         /\ [m EXCEPT !.deleting = a] \in Committers
         /\ [m EXCEPT !.exists = a] \in Committers
         /\ [m EXCEPT !.fin = a] \in Committers
         /\ [m EXCEPT !.status = st] \in Committers
         /\ [m EXCEPT !.fin = a, !.exists = b] \in Committers
BY DEF Committers

\* The outcomes of a write by the reconciler.
LEMMA AnswerType ==
  ASSUME TypeOK, NEW m \in Committers, NEW kind,
         Accepted(m) \/ (Refused(kind, m) /\ UNCHANGED mem)
  PROVE  /\ committer' \in Committers /\ mem' \in Committers
         /\ fresh' \subseteq {"cache", "mem"} /\ troubles' \in Nat
<1>1. committer \in Committers /\ mem \in Committers /\ troubles \in Nat
  BY DEF TypeOK
<1>2. fresh \subseteq {"cache", "mem"}
  BY DEF TypeOK
<1>3. troubles' \in Nat
  BY <1>1 DEF Accepted, Refused, Trouble
<1>4. committer' \in Committers /\ mem' \in Committers
  BY <1>1 DEF Accepted, Refused, Written
<1>5. fresh' \in {fresh, {}, {"mem"}}
  BY DEF Accepted, Refused, Written
<1>6. QED BY <1>2, <1>3, <1>4, <1>5

\* The outcomes of a status write.
LEMMA UpdateStatusType ==
  ASSUME TypeOK, NEW st \in Statuses, UpdateStatus(st)
  PROVE  /\ committer' \in Committers /\ mem' \in Committers
         /\ fresh' \subseteq {"cache", "mem"} /\ troubles' \in Nat
<1> DEFINE reported == [committer EXCEPT !.status = st]
<1>1. /\ committer \in Committers /\ mem \in Committers /\ troubles \in Nat
      /\ fresh \subseteq {"cache", "mem"}
  BY DEF TypeOK
<1>2. reported \in Committers /\ [mem EXCEPT !.status = st] \in Committers
  BY <1>1 DEF Committers
<1>3. \/ Accepted(reported)
      \/ mem' = committer /\ UNCHANGED <<committer, fresh, troubles>>
      \/ Refused("status", reported) /\ mem' = [mem EXCEPT !.status = st]
  BY DEF UpdateStatus
<1> HIDE DEF reported
<1>4. CASE Accepted(reported)
  BY <1>2, <1>4, AnswerType
<1>5. CASE mem' = committer /\ UNCHANGED <<committer, fresh, troubles>>
  BY <1>1, <1>5
<1>6. CASE Refused("status", reported) /\ mem' = [mem EXCEPT !.status = st]
  <2>1. troubles' \in Nat BY <1>1, <1>6 DEF Refused, Trouble
  <2>2. committer' \in Committers BY <1>1, <1>2, <1>6 DEF Refused, Written
  <2>3. fresh' \in {fresh, {}} BY <1>6 DEF Refused, Written
  <2>4. QED BY <1>1, <1>2, <1>6, <2>1, <2>2, <2>3
<1>7. QED BY <1>3, <1>4, <1>5, <1>6

LEMMA NoCommitterType ==
  /\ NoCommitter \in Committers
  /\ ~NoCommitter.exists /\ ~NoCommitter.fin /\ ~NoCommitter.deleting
  /\ NoCommitter.uid = 0 /\ NoCommitter.gen = 0
<1>1. (CHOOSE s \in Specs : TRUE) \in Specs
  BY CommitterAssumption
<1>2. QED BY <1>1 DEF NoCommitter, Committers, Statuses

LEMMA NoChildType == NoChild \in Children /\ NoChild.from = 0 /\ ~NoChild.exists
BY DEF NoChild, Children, ChildSpec

LEMMA InitType == Init => TypeOK
<1> SUFFICES ASSUME Init PROVE TypeOK
  OBVIOUS
<1>1. 1 \in 1 .. (Last + 1) BY CommitterAssumption
<1>2. QED
  BY <1>1, NoCommitterType, NoChildType DEF Init, TypeOK, PCs

\* A write of a child, the type of what it leaves behind.
LEMMA PutType ==
  ASSUME TypeOK, NEW c \in Child, NEW child \in Children, Put(c, child)
  PROVE  children' \in [Child -> Children] /\ seenFresh' \subseteq Child
BY DEF Put, TypeOK

LEMMA NextType == TypeOK /\ [Next]_vars => TypeOK'
<1> SUFFICES ASSUME TypeOK, [Next]_vars PROVE TypeOK'
  OBVIOUS
<1> USE DEF Goto
<1>0. /\ committer \in Committers /\ mem \in Committers /\ cache \in Committers
      /\ fresh \subseteq {"cache", "mem"} /\ troubles \in Nat /\ todo \in 1 .. (Last + 1) /\ Last \in Nat
      /\ committer.uid \in Nat /\ committer.gen \in Nat
      /\ children \in [Child -> Children] /\ seenFresh \subseteq Child
      /\ seen \in [Child -> Children]
  BY CommitterAssumption DEF TypeOK, Committers
<1>c. \A c \in 1 .. (Last + 1) : c <= Last => c \in Child /\ c + 1 \in 1 .. (Last + 1)
  BY <1>0 DEF Child
<1>s. \A st \in {"Pending", "Running", "Failed"} : st \in Statuses
  BY DEF Statuses
<1>1. ASSUME NEW s \in Specs, CreateCommitter(s) PROVE TypeOK'
  <2>1. committer.uid + 1 \in Nat /\ committer.gen + 1 \in Nat
    BY <1>0
  <2>2. committer' \in Committers
    BY <1>1, <2>1, NoCommitterType DEF CreateCommitter, Written, Committers
  <2>3. QED BY <1>0, <1>1, <2>2 DEF CreateCommitter, Written, Trouble, TypeOK
<1>2. ASSUME NEW s \in Specs, EditSpec(s) PROVE TypeOK'
  <2>1. committer' \in Committers
    <3>1. committer.gen + 1 \in Nat BY <1>0
    <3>2. committer' = [committer EXCEPT !.spec = s, !.gen = committer.gen + 1]
      BY <1>2 DEF EditSpec, Written
    <3>3. QED BY <1>0, <3>1, <3>2 DEF Committers
  <2>2. QED BY <1>0, <1>2, <2>1 DEF EditSpec, Written, Trouble, TypeOK
<1>3. CASE DeleteCommitter
  <2>1. committer' \in Committers
    BY <1>0, <1>3 DEF DeleteCommitter, Written, Committers
  <2>2. QED BY <1>3, <2>1 DEF DeleteCommitter, Written, TypeOK
<1>4. CASE CacheSync
  BY <1>4 DEF CacheSync, TypeOK
<1>5. CASE StartReconcile
  <2>1. pc' \in PCs
    BY <1>5 DEF StartReconcile, PCs
  <2>2. fresh' \subseteq {"cache", "mem"}
    BY <1>5 DEF StartReconcile
  <2>3. 1 \in 1 .. (Last + 1)
    BY CommitterAssumption
  <2>4. QED BY <1>0, <1>5, <2>1, <2>2, <2>3 DEF StartReconcile, TypeOK
<1>6. CASE InitialiseStatus
  BY <1>6, <1>s, UpdateStatusType DEF InitialiseStatus, TypeOK, PCs
<1>7. CASE EnsureFinalizer
  <2> DEFINE guarded == [committer EXCEPT !.fin = TRUE]
  <2>1. guarded \in Committers BY <1>0 DEF Committers
  <2>2. \/ UNCHANGED <<committer, mem, fresh, troubles>>
        \/ Accepted(guarded) \/ (Refused("object", guarded) /\ UNCHANGED mem)
    BY <1>7 DEF EnsureFinalizer
  <2>3. /\ committer' \in Committers /\ mem' \in Committers
        /\ fresh' \subseteq {"cache", "mem"} /\ troubles' \in Nat
    <3> HIDE DEF guarded
    <3>1. QED BY <1>0, <2>1, <2>2, AnswerType
  <2>4. pc' \in PCs BY <1>7 DEF EnsureFinalizer, PCs
  <2>5. QED BY <1>7, <2>3, <2>4 DEF EnsureFinalizer, TypeOK
<1>8. CASE ReconcileChild
  <2>1. todo \in Child /\ todo + 1 \in 1 .. (Last + 1)
    BY <1>0, <1>8, <1>c DEF ReconcileChild
  <2>2. CreateOrUpdate(todo) \in Children
    BY <2>1, CreateOrUpdateType
  <2>3. Put(todo, CreateOrUpdate(todo)) \/ UNCHANGED <<children, seenFresh>>
    BY <1>8 DEF ReconcileChild
  <2>4. children' \in [Child -> Children] /\ seenFresh' \subseteq Child
    BY <1>0, <2>1, <2>2, <2>3, PutType
  <2>5. todo' \in 1 .. (Last + 1) /\ pc' \in PCs /\ troubles' \in Nat
    BY <1>0, <1>8, <2>1 DEF ReconcileChild, TypeOK, Trouble, PCs
  <2>6. QED BY <1>8, <2>4, <2>5 DEF ReconcileChild, TypeOK
<1>9. CASE ChildrenReconciled
  BY <1>9 DEF ChildrenReconciled, TypeOK, PCs
<1>10. CASE MarkRunning
  BY <1>10, <1>s, UpdateStatusType DEF MarkRunning, TypeOK, PCs
<1>11. CASE MarkFailed
  <2>1. UNCHANGED <<committer, mem, fresh, troubles>> \/ UpdateStatus("Failed")
    BY <1>11 DEF MarkFailed
  <2>2. /\ committer' \in Committers /\ mem' \in Committers
        /\ fresh' \subseteq {"cache", "mem"} /\ troubles' \in Nat
    BY <1>0, <1>s, <2>1, UpdateStatusType
  <2>3. QED BY <1>11, <2>2 DEF MarkFailed, TypeOK, PCs
<1>12. CASE MarkDeleting
  BY <1>12, <1>s, UpdateStatusType DEF MarkDeleting, TypeOK, PCs
<1>13. CASE CleanupChild
  <2> DEFINE marked == [children[todo] EXCEPT !.deleting = TRUE]
  <2>1. todo \in Child /\ todo + 1 \in 1 .. (Last + 1)
    BY <1>0, <1>13, <1>c DEF CleanupChild
  <2>2. marked \in Children
    BY <1>0, <2>1 DEF Children
  <2>3. Put(todo, marked) \/ UNCHANGED <<children, seenFresh>>
    BY <1>13 DEF CleanupChild
  <2>4. children' \in [Child -> Children] /\ seenFresh' \subseteq Child
    <3> HIDE DEF marked
    <3>1. QED BY <1>0, <2>1, <2>2, <2>3, PutType
  <2>5. todo' \in 1 .. (Last + 1) /\ pc' \in PCs /\ troubles' \in Nat
    BY <1>0, <1>13, <2>1 DEF CleanupChild, TypeOK, Trouble, PCs
  <2>6. QED BY <1>13, <2>4, <2>5 DEF CleanupChild, TypeOK
<1>14. CASE CleanupDone
  BY <1>14 DEF CleanupDone, TypeOK, PCs
<1>15. CASE RemoveFinalizer
  <2> DEFINE released == [committer EXCEPT !.fin = FALSE,
                                           !.exists = ~committer.deleting]
  <2>1. released \in Committers BY <1>0 DEF Committers
  <2>2. Accepted(released) \/ (Refused("object", released) /\ UNCHANGED mem)
    BY <1>15 DEF RemoveFinalizer
  <2>3. /\ committer' \in Committers /\ mem' \in Committers
        /\ fresh' \subseteq {"cache", "mem"} /\ troubles' \in Nat
    <3> HIDE DEF released
    <3>1. QED BY <1>0, <2>1, <2>2, AnswerType
  <2>4. QED BY <1>15, <2>3 DEF RemoveFinalizer, TypeOK, PCs
<1>16. ASSUME NEW c \in Child, ChildSync(c) PROVE TypeOK'
  BY <1>0, <1>16 DEF ChildSync, TypeOK
<1>17. ASSUME NEW c \in Child, ComponentWrites(c) PROVE TypeOK'
  BY <1>0, <1>17 DEF ComponentWrites, Trouble, TypeOK
<1>18. ASSUME NEW c \in Child, ComponentDone(c) PROVE TypeOK'
  BY <1>0, <1>18, NoChildType DEF ComponentDone, TypeOK
<1>19. CASE OperatorCrash
  BY <1>0, <1>19 DEF OperatorCrash, Trouble, TypeOK, PCs, Committers
<1>20. CASE UNCHANGED vars
  BY <1>20 DEF vars, TypeOK
<1>21. QED
  BY <1>1, <1>2, <1>3, <1>4, <1>5, <1>6, <1>7, <1>8, <1>9, <1>10, <1>11,
     <1>12, <1>13, <1>14, <1>15, <1>16, <1>17, <1>18, <1>19, <1>20
  DEF Next, User, Reconciler, Environment

-----------------------------------------------------------------------------

\* What a status write does to the fields the invariant is about.
LEMMA StatusEffect ==
  ASSUME TypeOK, FreshIsCurrent, NEW st \in Statuses, UpdateStatus(st)
  PROVE  /\ \A f \in {"exists", "uid", "gen", "spec", "fin", "deleting"} :
              committer'[f] = committer[f] /\ mem'[f] = mem[f]
         /\ \/ committer' = committer /\ fresh' = fresh
            \/ fresh' \subseteq {"mem"}
         /\ "mem" \in fresh' => mem' = [committer' EXCEPT !.status = mem'.status]
<1> DEFINE reported == [committer EXCEPT !.status = st]
<1>1. committer \in Committers /\ mem \in Committers
  BY DEF TypeOK
<1>2. CASE Accepted(reported)
  <2>1. mem = [committer EXCEPT !.status = mem.status]
    BY <1>2 DEF Accepted, Current, FreshIsCurrent
  <2>2. committer' = reported /\ mem' = reported /\ fresh' = {"mem"}
    BY <1>2 DEF Accepted
  <2>3. QED BY <1>1, <2>1, <2>2 DEF Committers
<1>3. CASE Current /\ mem' = committer /\ UNCHANGED <<committer, fresh, troubles>>
  <2>1. mem = [committer EXCEPT !.status = mem.status]
    BY <1>3 DEF Current, FreshIsCurrent
  <2>2. QED BY <1>1, <1>3, <2>1 DEF Committers
<1>4. CASE Refused("status", reported) /\ mem' = [mem EXCEPT !.status = st]
  <2>1. \/ UNCHANGED <<committer, fresh>>
        \/ committer' = reported /\ fresh' = {}
    BY <1>4 DEF Refused, Written
  <2>2. "mem" \in fresh => mem = [committer EXCEPT !.status = mem.status]
    BY DEF FreshIsCurrent
  <2>3. QED BY <1>1, <1>4, <2>1, <2>2 DEF Committers
<1>5. QED BY <1>2, <1>3, <1>4 DEF UpdateStatus

\* A status write, with the other variables the invariant is about unchanged.
LEMMA StatusStep ==
  ASSUME IInv, TypeOK', NEW st \in Statuses, UpdateStatus(st),
         UNCHANGED <<cache, children, seen, seenFresh>>,
         \/ pc' \in {"idle", "cleanup"} /\ (pc' = "cleanup" => pc = "deleting")
         \/ pc' = "finalizer" /\ pc = "init"
  PROVE  IInv'
<1>1. /\ TypeOK /\ FreshIsCurrent /\ Guarded /\ DeletionSeen /\ WrittenFromPast
  BY DEF IInv
<1>2. /\ committer'.exists = committer.exists /\ committer'.uid = committer.uid
      /\ committer'.gen = committer.gen /\ committer'.fin = committer.fin
      /\ committer'.deleting = committer.deleting
      /\ mem'.exists = mem.exists /\ mem'.uid = mem.uid /\ mem'.gen = mem.gen
      /\ mem'.fin = mem.fin /\ mem'.deleting = mem.deleting
  BY <1>1, StatusEffect
<1>3. FreshIsCurrent'
  BY <1>1, StatusEffect DEF FreshIsCurrent
<1>4. Guarded'
  BY <1>1, <1>2 DEF Guarded, Held
<1>5. DeletionSeen'
  BY <1>1, <1>2 DEF DeletionSeen
<1>6. WrittenFromPast'
  BY <1>1, <1>2 DEF WrittenFromPast
<1>7. QED BY <1>3, <1>4, <1>5, <1>6 DEF IInv

\* A write of child c from a spec no newer than the one in memory.
LEMMA PutStep ==
  ASSUME TypeOK, FreshIsCurrent, WrittenFromPast, NEW c \in Child,
         NEW child \in Children, child.from <= mem.gen,
         Put(c, child) \/ UNCHANGED <<children, seenFresh>>,
         UNCHANGED <<committer, cache, mem, fresh, seen>>
  PROVE  FreshIsCurrent' /\ WrittenFromPast'
<1>1. CASE Put(c, child)
  <2>1. children' = [children EXCEPT ![c] = child]
    BY <1>1 DEF Put
  <2>2. \A d \in Child : children'[d] = IF d = c THEN child ELSE children[d]
    BY <2>1 DEF TypeOK
  <2>3. \A d \in seenFresh' : d \in seenFresh /\ (d = c => child = children[c])
    BY <1>1 DEF Put
  <2>4. FreshIsCurrent'
    BY <2>2, <2>3 DEF FreshIsCurrent, TypeOK
  <2>5. WrittenFromPast'
    BY <2>2 DEF WrittenFromPast
  <2>6. QED BY <2>4, <2>5
<1>2. CASE UNCHANGED <<children, seenFresh>>
  BY <1>2 DEF FreshIsCurrent, WrittenFromPast
<1>3. QED BY <1>1, <1>2

LEMMA InitInv == Init => IInv
<1> SUFFICES ASSUME Init PROVE IInv
  OBVIOUS
<1>1. TypeOK BY InitType
<1>2. FreshIsCurrent
  <2>1. mem = [committer EXCEPT !.status = mem.status]
    BY NoCommitterType DEF Init, Committers
  <2>2. QED BY <2>1 DEF Init, FreshIsCurrent
<1>3. Guarded BY NoCommitterType DEF Init, Guarded
<1>4. DeletionSeen BY NoCommitterType DEF Init, DeletionSeen
<1>5. WrittenFromPast BY NoCommitterType, NoChildType DEF Init, WrittenFromPast
<1>6. QED BY <1>1, <1>2, <1>3, <1>4, <1>5 DEF IInv

LEMMA InductiveStep == IInv /\ [Next]_vars => IInv'
<1> SUFFICES ASSUME IInv, [Next]_vars PROVE IInv'
  OBVIOUS
<1> USE DEF Goto
<1>0. TypeOK /\ FreshIsCurrent /\ Guarded /\ DeletionSeen /\ WrittenFromPast
  BY DEF IInv
<1>t. TypeOK' BY <1>0, NextType
<1>n. /\ committer \in Committers /\ mem \in Committers /\ cache \in Committers
      /\ committer.uid \in Nat /\ mem.uid \in Nat /\ cache.uid \in Nat
      /\ committer.gen \in Nat /\ mem.gen \in Nat /\ cache.gen \in Nat
      /\ children \in [Child -> Children]
      /\ \A c \in Child : children[c].from \in Nat
  BY <1>0 DEF TypeOK, Committers, Children
<1>c. ASSUME todo <= Last PROVE todo \in Child
  BY <1>0, <1>c, CommitterAssumption DEF TypeOK, Child
<1>s. \A st \in {"Pending", "Running", "Failed"} : st \in Statuses
  BY DEF Statuses
<1>1. ASSUME NEW s \in Specs, CreateCommitter(s) PROVE IInv'
  <2>1. /\ committer'.exists /\ committer'.uid = committer.uid + 1
        /\ committer'.gen = committer.gen + 1 /\ ~committer'.fin
        /\ ~committer'.deleting
    BY <1>1, NoCommitterType DEF CreateCommitter, Written, Committers
  <2>2. /\ ~committer.exists /\ fresh' = {}
        /\ UNCHANGED <<cache, mem, pc, children, seen, seenFresh>>
    BY <1>1 DEF CreateCommitter, Written
  <2>3. FreshIsCurrent' BY <1>0, <2>2 DEF FreshIsCurrent
  <2>4. Guarded' BY <1>0, <2>1, <2>2 DEF Guarded, Held
  <2>5. DeletionSeen' BY <1>0, <1>n, <2>1, <2>2 DEF DeletionSeen
  <2>6. WrittenFromPast' BY <1>0, <1>n, <2>1, <2>2 DEF WrittenFromPast
  <2>7. QED BY <1>t, <2>3, <2>4, <2>5, <2>6 DEF IInv
<1>2. ASSUME NEW s \in Specs, EditSpec(s) PROVE IInv'
  <2>1. /\ committer'.exists = committer.exists /\ committer'.uid = committer.uid
        /\ committer'.gen = committer.gen + 1 /\ committer'.fin = committer.fin
        /\ committer'.deleting = committer.deleting
    BY <1>2, <1>n DEF EditSpec, Written, Committers
  <2>2. fresh' = {} /\ UNCHANGED <<cache, mem, pc, children, seen, seenFresh>>
    BY <1>2 DEF EditSpec, Written
  <2>3. FreshIsCurrent' BY <1>0, <2>2 DEF FreshIsCurrent
  <2>4. Guarded' BY <1>0, <2>1, <2>2 DEF Guarded, Held
  <2>5. DeletionSeen' BY <1>0, <2>1, <2>2 DEF DeletionSeen
  <2>6. WrittenFromPast' BY <1>0, <1>n, <2>1, <2>2 DEF WrittenFromPast
  <2>7. QED BY <1>t, <2>3, <2>4, <2>5, <2>6 DEF IInv
<1>3. CASE DeleteCommitter
  <2>1. /\ committer'.exists = committer.fin /\ committer'.uid = committer.uid
        /\ committer'.gen = committer.gen /\ committer'.fin = committer.fin
        /\ committer.fin => committer'.deleting
    BY <1>3, <1>n DEF DeleteCommitter, Written, Committers
  <2>2. /\ committer.exists /\ ~committer.deleting /\ fresh' = {}
        /\ UNCHANGED <<cache, mem, pc, children, seen, seenFresh>>
    BY <1>3 DEF DeleteCommitter, Written
  <2>3. FreshIsCurrent' BY <1>0, <2>2 DEF FreshIsCurrent
  <2>4. Guarded' BY <1>0, <2>1, <2>2 DEF Guarded, Held
  <2>5. DeletionSeen' BY <1>0, <2>1, <2>2 DEF DeletionSeen
  <2>6. WrittenFromPast' BY <1>0, <2>1, <2>2 DEF WrittenFromPast
  <2>7. QED BY <1>t, <2>3, <2>4, <2>5, <2>6 DEF IInv
<1>4. CASE CacheSync
  <2> USE <1>4 DEF CacheSync
  <2>1. FreshIsCurrent' BY <1>0 DEF FreshIsCurrent
  <2>2. Guarded' BY <1>0 DEF Guarded, Held
  <2>3. DeletionSeen' BY <1>0, <1>n DEF DeletionSeen
  <2>4. WrittenFromPast' BY <1>0, <1>n DEF WrittenFromPast
  <2>5. QED BY <1>t, <2>1, <2>2, <2>3, <2>4 DEF IInv
<1>5. CASE StartReconcile
  <2>1. /\ pc = "idle" /\ mem' = cache
        /\ fresh' = IF "cache" \in fresh THEN {"cache", "mem"} ELSE {}
        /\ UNCHANGED <<committer, cache, children, seen, seenFresh>>
    BY <1>5 DEF StartReconcile
  <2>2. /\ ~cache.exists => pc' = "idle"
        /\ cache.exists /\ cache.deleting => pc' = "deleting"
        /\ cache.exists /\ ~cache.deleting => pc' \in {"init", "finalizer"}
    BY <1>5 DEF StartReconcile
  <2>3. FreshIsCurrent'
    <3>1. cache = [cache EXCEPT !.status = cache.status] BY <1>n DEF Committers
    <3>2. QED BY <1>0, <2>1, <3>1 DEF FreshIsCurrent
  <2>4. Guarded' BY <1>0, <2>1, <2>2 DEF Guarded, Held
  <2>5. DeletionSeen' BY <1>0, <1>n, <2>1, <2>2 DEF DeletionSeen
  <2>6. WrittenFromPast' BY <1>0, <1>n, <2>1 DEF WrittenFromPast
  <2>7. QED BY <1>t, <2>3, <2>4, <2>5, <2>6 DEF IInv
<1>6. CASE InitialiseStatus
  BY <1>6, <1>t, <1>s, StatusStep DEF InitialiseStatus
<1>7. CASE EnsureFinalizer
  <2> DEFINE guarded == [committer EXCEPT !.fin = TRUE]
  <2>1. /\ pc = "finalizer" /\ UNCHANGED <<cache, children, seen, seenFresh>>
        /\ \/ mem.fin /\ pc' = "children" /\ UNCHANGED <<committer, mem, fresh>>
           \/ /\ Current /\ pc' = "children" /\ fresh' = {"mem"}
              /\ committer' = guarded /\ mem' = guarded
           \/ pc' = "failFinalizer" /\ UNCHANGED <<committer, mem, fresh>>
           \/ /\ Current /\ pc' = "failFinalizer" /\ UNCHANGED mem
              /\ committer' = guarded /\ fresh' = {}
    BY <1>7 DEF EnsureFinalizer, Accepted, Refused, Written
  <2>2. /\ guarded.exists = committer.exists /\ guarded.uid = committer.uid
        /\ guarded.gen = committer.gen /\ guarded.fin
        /\ guarded.deleting = committer.deleting
        /\ guarded = [guarded EXCEPT !.status = guarded.status]
    BY <1>n DEF Committers
  <2>3. Current => /\ committer.exists /\ committer.uid = mem.uid
                   /\ committer.gen = mem.gen
                   /\ committer.deleting = mem.deleting
    BY <1>0, <1>n DEF Current, FreshIsCurrent, Committers
  <2> HIDE DEF guarded
  <2>4. FreshIsCurrent' BY <1>0, <2>1, <2>2 DEF FreshIsCurrent
  <2>5. Guarded' BY <1>0, <2>1, <2>2, <2>3 DEF Guarded, Held
  <2>6. DeletionSeen' BY <1>0, <2>1, <2>2, <2>3 DEF DeletionSeen
  <2>7. WrittenFromPast' BY <1>0, <2>1, <2>2, <2>3 DEF WrittenFromPast
  <2>8. QED BY <1>t, <2>4, <2>5, <2>6, <2>7 DEF IInv
<1>8. CASE ReconcileChild
  <2>1. /\ UNCHANGED <<committer, cache, mem, fresh, seen>>
        /\ pc = "children" /\ pc' \in {"children", "failChildren"}
        /\ Put(todo, CreateOrUpdate(todo)) \/ UNCHANGED <<children, seenFresh>>
    BY <1>8 DEF ReconcileChild
  <2>2. todo \in Child BY <1>8, <1>c DEF ReconcileChild
  <2>3. /\ CreateOrUpdate(todo) \in Children
        /\ CreateOrUpdate(todo).from <= mem.gen
    BY <1>0, <1>n, <2>2, CreateOrUpdateType
  <2>4. FreshIsCurrent' /\ WrittenFromPast'
    BY <1>0, <2>1, <2>2, <2>3, PutStep
  <2>5. Guarded' /\ DeletionSeen'
    BY <1>0, <2>1 DEF Guarded, Held, DeletionSeen
  <2>6. QED BY <1>t, <2>4, <2>5 DEF IInv
<1>9. CASE ChildrenReconciled
  BY <1>0, <1>t, <1>9
  DEF ChildrenReconciled, IInv, FreshIsCurrent, Guarded, Held, DeletionSeen,
      WrittenFromPast
<1>10. CASE MarkRunning
  BY <1>10, <1>t, <1>s, StatusStep DEF MarkRunning
<1>11. CASE MarkFailed
  <2>1. CASE UpdateStatus("Failed")
    BY <1>11, <2>1, <1>t, <1>s, StatusStep DEF MarkFailed
  <2>2. CASE UNCHANGED <<committer, mem, fresh, troubles>>
    BY <1>0, <1>t, <1>11, <2>2
    DEF MarkFailed, IInv, FreshIsCurrent, Guarded, Held, DeletionSeen,
        WrittenFromPast
  <2>3. QED BY <1>11, <2>1, <2>2 DEF MarkFailed
<1>12. CASE MarkDeleting
  BY <1>12, <1>t, <1>s, StatusStep DEF MarkDeleting
<1>13. CASE CleanupChild
  <2> DEFINE marked == [children[todo] EXCEPT !.deleting = TRUE]
  <2>1. /\ UNCHANGED <<committer, cache, mem, fresh, seen>>
        /\ pc = "cleanup" /\ pc' \in {"cleanup", "failDeletion"}
        /\ Put(todo, marked) \/ UNCHANGED <<children, seenFresh>>
    BY <1>13 DEF CleanupChild
  <2>2. todo \in Child BY <1>13, <1>c DEF CleanupChild
  <2>3. marked \in Children /\ marked.from <= mem.gen
    BY <1>0, <1>n, <2>2 DEF Children, WrittenFromPast
  <2> HIDE DEF marked
  <2>4. FreshIsCurrent' /\ WrittenFromPast'
    BY <1>0, <2>1, <2>2, <2>3, PutStep
  <2>5. Guarded' /\ DeletionSeen'
    BY <1>0, <2>1 DEF Guarded, Held, DeletionSeen
  <2>6. QED BY <1>t, <2>4, <2>5 DEF IInv
<1>14. CASE CleanupDone
  BY <1>0, <1>t, <1>14
  DEF CleanupDone, IInv, FreshIsCurrent, Guarded, Held, DeletionSeen,
      WrittenFromPast
<1>15. CASE RemoveFinalizer
  <2> DEFINE released == [committer EXCEPT !.fin = FALSE,
                                           !.exists = ~committer.deleting]
  <2>1. /\ pc = "removal" /\ UNCHANGED <<cache, children, seen, seenFresh>>
        /\ \/ /\ Current /\ pc' = "idle" /\ fresh' = {"mem"}
              /\ committer' = released /\ mem' = released
           \/ pc' = "failDeletion" /\ UNCHANGED <<committer, mem, fresh>>
           \/ /\ Current /\ pc' = "failDeletion" /\ UNCHANGED mem
              /\ committer' = released /\ fresh' = {}
    BY <1>15 DEF RemoveFinalizer, Accepted, Refused, Written
  <2>2. /\ released.exists = ~committer.deleting
        /\ released.uid = committer.uid /\ released.gen = committer.gen
        /\ ~released.fin /\ released.deleting = committer.deleting
        /\ released = [released EXCEPT !.status = released.status]
    BY <1>n DEF Committers
  <2>3. Current => /\ committer.exists /\ committer.uid = mem.uid
                   /\ committer.gen = mem.gen
                   /\ committer.deleting
    BY <1>0, <1>n, <2>1 DEF Current, FreshIsCurrent, DeletionSeen, Committers
  <2> HIDE DEF released
  <2>4. FreshIsCurrent' BY <1>0, <2>1, <2>2 DEF FreshIsCurrent
  <2>5. Guarded'
    BY <1>0, <2>1, <2>2, <2>3 DEF Guarded, Held, DeletionSeen
  <2>6. DeletionSeen' BY <1>0, <1>n, <2>1, <2>2, <2>3 DEF DeletionSeen
  <2>7. WrittenFromPast' BY <1>0, <2>1, <2>2, <2>3 DEF WrittenFromPast
  <2>8. QED BY <1>t, <2>4, <2>5, <2>6, <2>7 DEF IInv
<1>16. ASSUME NEW c \in Child, ChildSync(c) PROVE IInv'
  <2>1. FreshIsCurrent'
    BY <1>0, <1>16 DEF ChildSync, FreshIsCurrent, TypeOK
  <2>2. Guarded' /\ DeletionSeen' /\ WrittenFromPast'
    BY <1>0, <1>16 DEF ChildSync, Guarded, Held, DeletionSeen, WrittenFromPast
  <2>3. QED BY <1>t, <2>1, <2>2 DEF IInv
<1>17. ASSUME NEW c \in Child, ComponentWrites(c) PROVE IInv'
  BY <1>0, <1>t, <1>17
  DEF ComponentWrites, IInv, FreshIsCurrent, Guarded, Held, DeletionSeen,
      WrittenFromPast
<1>18. ASSUME NEW c \in Child, ComponentDone(c) PROVE IInv'
  <2>1. \A d \in Child : children'[d] = IF d = c THEN NoChild ELSE children[d]
    BY <1>18, <1>n DEF ComponentDone
  <2>2. /\ seenFresh' = seenFresh \ {c}
        /\ UNCHANGED <<committer, cache, mem, fresh, pc, seen>>
    BY <1>18 DEF ComponentDone
  <2>3. FreshIsCurrent'
    BY <1>0, <2>1, <2>2 DEF FreshIsCurrent, TypeOK
  <2>4. Guarded' /\ DeletionSeen'
    BY <1>0, <2>2 DEF Guarded, Held, DeletionSeen
  <2>5. WrittenFromPast'
    BY <1>0, <1>n, <2>1, <2>2, NoChildType DEF WrittenFromPast
  <2>6. QED BY <1>t, <2>3, <2>4, <2>5 DEF IInv
<1>19. CASE OperatorCrash
  <2> USE <1>19 DEF OperatorCrash
  <2>1. FreshIsCurrent' BY DEF FreshIsCurrent
  <2>2. Guarded' BY <1>0 DEF Guarded, Held
  <2>3. DeletionSeen' BY <1>0, <1>n DEF DeletionSeen
  <2>4. WrittenFromPast' BY <1>0, <1>n DEF WrittenFromPast
  <2>5. QED BY <1>t, <2>1, <2>2, <2>3, <2>4 DEF IInv
<1>20. CASE UNCHANGED vars
  BY <1>0, <1>t, <1>20
  DEF vars, IInv, FreshIsCurrent, Guarded, Held, DeletionSeen, WrittenFromPast
<1>21. QED
  BY <1>1, <1>2, <1>3, <1>4, <1>5, <1>6, <1>7, <1>8, <1>9, <1>10, <1>11,
     <1>12, <1>13, <1>14, <1>15, <1>16, <1>17, <1>18, <1>19, <1>20
  DEF Next, User, Reconciler, Environment

\* What a reconcile read, however late, is enough to know that the finalizer
\* holds the committer while its children are written.
THEOREM Invariance == Spec => []IInv
BY InitInv, InductiveStep, PTL DEF Spec

\* A child that appears or changes was written by ReconcileChild, or keeps
\* its spec.
LEMMA ChildWriter ==
  ASSUME TypeOK, [Next]_vars, NEW c \in Child,
         children'[c] # children[c], children'[c].exists
  PROVE  \/ ReconcileChild /\ children'[c].from = mem.gen
         \/ children[c].exists /\ children'[c].from = children[c].from
<1>0. children \in [Child -> Children]
  BY DEF TypeOK
<1>1. CASE ReconcileChild
  <2>1. children' \in {children, [children EXCEPT ![todo] = CreateOrUpdate(todo)]}
    BY <1>1 DEF ReconcileChild, Put
  <2>2. c = todo /\ children'[c] = CreateOrUpdate(c)
    BY <1>0, <2>1
  <2>3. QED BY <1>1, <2>2, CreateOrUpdateType
<1>2. CASE CleanupChild
  <2>1. \/ children' = children
        \/ /\ children[todo].exists
           /\ children' = [children EXCEPT ![todo] =
                             [children[todo] EXCEPT !.deleting = TRUE]]
    BY <1>2 DEF CleanupChild, Put
  <2>2. QED BY <1>0, <2>1 DEF Children
<1>3. ASSUME NEW d \in Child, ComponentDone(d) PROVE FALSE
  BY <1>0, <1>3, NoChildType DEF ComponentDone
<1>4. CASE UNCHANGED children
  BY <1>4
<1>5. QED
  BY <1>1, <1>2, <1>3, <1>4
  DEF Next, User, Reconciler, Environment, vars, CreateCommitter, EditSpec,
      DeleteCommitter, CacheSync, StartReconcile, InitialiseStatus,
      EnsureFinalizer, ChildrenReconciled, MarkRunning, MarkFailed,
      MarkDeleting, CleanupDone, RemoveFinalizer, OperatorCrash, ChildSync,
      ComponentWrites

\* No reconcile writes into a child a spec older than the one it has.
THEOREM SpecsMoveForward == Spec => NoSpecRollback
<1>1. IInv /\ [Next]_vars =>
        [\A c \in Child : children[c].exists /\ children'[c].exists
                            => children'[c].from >= children[c].from]_vars
  <2> SUFFICES ASSUME IInv, [Next]_vars, NEW c \in Child,
                      children[c].exists, children'[c].exists
               PROVE  children'[c].from >= children[c].from
    OBVIOUS
  <2>1. children[c].from \in Nat /\ mem.gen \in Nat
    BY DEF IInv, TypeOK, Children, Committers
  <2>2. children[c].from <= mem.gen
    BY DEF IInv, WrittenFromPast
  <2>3. children'[c].from \in {children[c].from, mem.gen}
    BY ChildWriter DEF IInv
  <2>4. QED BY <2>1, <2>2, <2>3
<1>2. QED BY <1>1, Invariance, PTL DEF Spec, NoSpecRollback

\* A status write is invisible to the protocol.
LEMMA StatusPhase ==
  ASSUME TypeOK, FreshIsCurrent, NEW st \in Statuses, UpdateStatus(st)
  PROVE  Phase' = Phase
<1>1. /\ committer'.exists = committer.exists /\ committer'.fin = committer.fin
      /\ committer'.deleting = committer.deleting
  BY StatusEffect
<1>2. QED BY <1>1 DEF Phase

\* The controller implements the finalizer protocol, although it reads its
\* children, too, from caches.
THEOREM ImplementsFinalizerProtocol == Spec => FollowsFinalizerProtocol
<1> DEFINE deps == {c \in Child : children[c].exists}
<1>1. Init => Protocol!Init
  <2> SUFFICES ASSUME Init PROVE Phase = "absent" /\ deps = {}
    BY DEF Protocol!Init
  <2>1. ~committer.exists BY NoCommitterType DEF Init
  <2>2. \A c \in Child : ~children[c].exists BY NoChildType DEF Init
  <2>3. QED BY <2>1, <2>2 DEF Phase
<1>2. IInv /\ [Next]_vars => [Protocol!Next]_(Protocol!vars)
  <2> SUFFICES ASSUME IInv, [Next]_vars
               PROVE  Protocol!Next \/ (Phase' = Phase /\ deps' = deps)
    BY DEF Protocol!vars
  <2> USE DEF Goto
  <2>t. /\ TypeOK /\ FreshIsCurrent /\ Guarded /\ DeletionSeen
        /\ committer \in Committers /\ mem \in Committers
        /\ children \in [Child -> Children]
    BY DEF IInv, TypeOK
  <2>s. \A st \in {"Pending", "Running", "Failed"} : st \in Statuses
    BY DEF Statuses
  <2>1. ASSUME NEW s \in Specs, CreateCommitter(s) PROVE Protocol!Create
    <3>1. ~committer.exists /\ committer'.exists /\ ~committer'.fin
      BY <2>1, NoCommitterType DEF CreateCommitter, Written, Committers
    <3>2. deps' = deps BY <2>1 DEF CreateCommitter
    <3>3. QED BY <3>1, <3>2 DEF Phase, Protocol!Create, Protocol!Become
  <2>2. ASSUME NEW s \in Specs, EditSpec(s) PROVE Phase' = Phase /\ deps' = deps
    BY <2>2, <2>t DEF EditSpec, Written, Phase, Committers
  <2>3. CASE DeleteCommitter
    <3>1. CASE committer.fin
      BY <2>3, <2>t, <3>1
      DEF DeleteCommitter, Written, Phase, Committers, Protocol!Next,
          Protocol!Terminate, Protocol!Become
    <3>2. CASE ~committer.fin
      BY <2>3, <2>t, <3>2
      DEF DeleteCommitter, Written, Phase, Committers, Protocol!Next,
          Protocol!Abandon, Protocol!Become
    <3>3. QED BY <3>1, <3>2
  <2>4. CASE UNCHANGED <<committer, children>>
    BY <2>4 DEF Phase
  <2>5. CASE InitialiseStatus \/ MarkRunning \/ MarkDeleting
    BY <2>5, <2>t, <2>s, StatusPhase
    DEF InitialiseStatus, MarkRunning, MarkDeleting
  <2>6. CASE MarkFailed
    BY <2>6, <2>t, <2>s, <2>4, StatusPhase DEF MarkFailed
  <2>7. CASE EnsureFinalizer
    <3> DEFINE guarded == [committer EXCEPT !.fin = TRUE]
    <3>1. /\ pc = "finalizer" /\ UNCHANGED children
          /\ \/ UNCHANGED committer
             \/ ~mem.fin /\ Current /\ committer' = guarded
      BY <2>7 DEF EnsureFinalizer, Accepted, Refused, Written
    <3>2. CASE UNCHANGED committer
      BY <2>4, <3>1, <3>2
    <3>3. CASE ~mem.fin /\ Current /\ committer' = guarded
      <4>1. committer.exists /\ ~committer.fin /\ ~committer.deleting
        BY <2>t, <3>1, <3>3 DEF Current, FreshIsCurrent, Guarded, Committers
      <4>2. committer'.exists /\ committer'.fin /\ ~committer'.deleting
        BY <2>t, <3>3, <4>1 DEF Committers
      <4>3. Protocol!Guard
        BY <3>1, <4>1, <4>2 DEF Phase, Protocol!Guard, Protocol!Become
      <4>4. QED BY <4>3 DEF Protocol!Next
    <3>4. QED BY <3>1, <3>2, <3>3
  <2>8. CASE ReconcileChild
    <3>1. committer' = committer /\ Held(mem)
      BY <2>8, <2>t DEF ReconcileChild, Guarded
    <3>2. Phase \in {"guarded", "terminating"} /\ Phase' = Phase
      BY <3>1 DEF Held, Phase
    <3>3. todo \in Child
      BY <2>8, <2>t, CommitterAssumption DEF ReconcileChild, TypeOK, Child
    <3>4. children' \in {children, [children EXCEPT ![todo] = CreateOrUpdate(todo)]}
      BY <2>8 DEF ReconcileChild, Put
    <3>5. \A c \in Child : c # todo => children'[c] = children[c]
      BY <2>t, <3>3, <3>4
    <3>6. children[todo].exists => children'[todo].exists
      <4>1. children[todo].exists => CreateOrUpdate(todo).exists
        BY <2>t, <3>3 DEF CreateOrUpdate, Children
      <4>2. QED BY <2>t, <3>3, <3>4, <4>1
    <3>7. CASE ~children[todo].exists /\ children'[todo].exists
      <4>1. todo \notin deps /\ deps' = deps \cup {todo}
        BY <3>3, <3>5, <3>7
      <4>2. QED BY <3>2, <3>3, <4>1 DEF Protocol!Next, Protocol!Produce
    <3>8. CASE children'[todo].exists = children[todo].exists
      <4>1. deps' = deps BY <3>5, <3>8
      <4>2. QED BY <3>2, <4>1
    <3>9. children[todo].exists \in BOOLEAN /\ children'[todo].exists \in BOOLEAN
      BY <2>t, <3>3, NextType DEF TypeOK, Children
    <3>10. QED BY <3>6, <3>7, <3>8, <3>9
  <2>9. CASE CleanupChild
    <3>1. committer' = committer BY <2>9 DEF CleanupChild
    <3>2. \/ children' = children
          \/ children' = [children EXCEPT ![todo] =
                            [children[todo] EXCEPT !.deleting = TRUE]]
      BY <2>9 DEF CleanupChild, Put
    <3>3. \A c \in Child : children'[c].exists = children[c].exists
      BY <2>t, <3>2 DEF Children
    <3>4. deps' = deps BY <3>3
    <3>5. QED BY <3>1, <3>4 DEF Phase
  <2>10. CASE RemoveFinalizer
    <3> DEFINE released == [committer EXCEPT !.fin = FALSE,
                                             !.exists = ~committer.deleting]
    <3>1. /\ pc = "removal" /\ UNCHANGED children
          /\ UNCHANGED committer \/ (Current /\ committer' = released)
      BY <2>10 DEF RemoveFinalizer, Accepted, Refused, Written
    <3>2. CASE UNCHANGED committer
      BY <2>4, <3>1, <3>2
    <3>3. CASE Current /\ committer' = released
      <4>1. committer.exists /\ committer.deleting /\ committer.fin
        BY <2>t, <3>1, <3>3 DEF Current, DeletionSeen, Guarded
      <4>2. ~committer'.exists
        BY <2>t, <3>3, <4>1 DEF Committers
      <4>3. Protocol!Release
        BY <3>1, <4>1, <4>2 DEF Phase, Protocol!Release, Protocol!Become
      <4>4. QED BY <4>3 DEF Protocol!Next
    <3>4. QED BY <3>1, <3>2, <3>3
  <2>11. ASSUME NEW c \in Child, ComponentDone(c) PROVE Protocol!Next
    <3>1. c \in deps /\ deps' = deps \ {c}
      BY <2>11, <2>t, NoChildType DEF ComponentDone
    <3>2. Phase' = Phase BY <2>11 DEF ComponentDone, Phase
    <3>3. QED BY <3>1, <3>2 DEF Protocol!Next, Protocol!Reclaim
  <2>12. QED
    BY <2>1, <2>2, <2>3, <2>4, <2>5, <2>6, <2>7, <2>8, <2>9, <2>10, <2>11
    DEF Next, User, Reconciler, Environment, vars, CacheSync, StartReconcile,
        ChildrenReconciled, CleanupDone, OperatorCrash, ChildSync,
        ComponentWrites, Protocol!Next
<1>3. QED
  BY <1>1, <1>2, Invariance, PTL DEF Spec, FollowsFinalizerProtocol, Protocol!Spec
=============================================================================
