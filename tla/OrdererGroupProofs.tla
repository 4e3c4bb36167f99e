------------------------- MODULE OrdererGroupProofs -------------------------
(***************************************************************************)
(* Theorems about OrdererGroup, for any number of batchers, any specs and  *)
(* any bounds: type correctness, the inductive invariant, and the safety   *)
(* properties that follow from it.                                         *)
(***************************************************************************)
EXTENDS OrdererGroup, TLAPS

\* What build*Spec returns is a child spec.
LEMMA BuildSpecType ==
  ASSUME NEW s \in Specs, NEW c \in Child
  PROVE  BuildSpec(s, c) \in ChildSpec
<1>1. /\ s.mode \in Modes /\ s.common \in Settings \cup {Unset}
      /\ s.cfg \in [Child -> ComponentConfig]
  BY GroupAssumption DEF GroupSpec
<1>2. \A d \in Child : /\ s.cfg[d].setting \in Settings \cup {Unset}
                       /\ s.cfg[d].id \in Ids
  BY <1>1 DEF ComponentConfig
<1>3. \A d \in Child : /\ Merged(s, s.cfg[d]).mode \in Modes
                       /\ Merged(s, s.cfg[d]).setting \in Settings \cup {Unset}
  BY <1>1, <1>2 DEF Merged, Modes
<1>4. /\ Consenter \in Child /\ Assembler \in Child /\ Router \in Child
  BY GroupAssumption DEF Consenter, Assembler, Router, Child
<1>5. \A d \in Child : /\ WithId(Merged(s, s.cfg[d]), s.cfg[d].id) \in ChildSpec
                       /\ NoId(Merged(s, s.cfg[d])) \in ChildSpec
  BY <1>2, <1>3 DEF WithId, NoId, ChildSpec
<1>6. QED
  BY <1>4, <1>5 DEF BuildSpec, BuildConsenterSpecFromInstance,
                    BuildAssemblerSpec, BuildRouterSpec, BuildBatcherSpec

\* What create-or-update leaves behind is a child.
LEMMA CreateOrUpdateType ==
  ASSUME TypeOK, NEW c \in Child
  PROVE  CreateOrUpdate(c) \in Children
<1>1. mem.spec \in Specs /\ mem.uid \in Nat /\ mem.gen \in Nat
  BY DEF TypeOK, Groups
<1>2. BuildSpec(mem.spec, c) \in ChildSpec
  BY <1>1, BuildSpecType
<1>3. /\ children[c].exists \in BOOLEAN /\ children[c].deleting \in BOOLEAN
      /\ children[c].owner \in Nat
  BY DEF TypeOK, Children
<1>4. QED
  BY <1>1, <1>2, <1>3 DEF CreateOrUpdate, Children

\* The writes of the group keep its type.
LEMMA GroupWriteType ==
  ASSUME NEW g \in Groups
  PROVE  /\ Bump(g) \in Groups
         /\ \A st \in Statuses : [g EXCEPT !.status = st] \in Groups
         /\ \A b \in BOOLEAN : [g EXCEPT !.fin = b] \in Groups
         /\ \A b \in BOOLEAN : [g EXCEPT !.exists = b] \in Groups
         /\ \A b \in BOOLEAN : [g EXCEPT !.deleting = b] \in Groups
         /\ \A s \in Specs, n \in Nat : [g EXCEPT !.spec = s, !.gen = n] \in Groups
         /\ \A a, b \in BOOLEAN : [g EXCEPT !.fin = a, !.exists = b] \in Groups
<1>1. Bump(g) \in Groups
  BY DEF Groups, Bump
<1>2. QED
  BY <1>1 DEF Groups

\* The outcomes of a status write.
LEMMA UpdateStatusType ==
  ASSUME TypeOK, NEW st \in Statuses, UpdateStatus(st)
  PROVE  group' \in Groups /\ mem' \in Groups /\ faults' \in Nat
<1>1. group \in Groups /\ mem \in Groups /\ faults \in Nat
  BY DEF TypeOK
<1>2. /\ Bump([group EXCEPT !.status = st]) \in Groups
      /\ [mem EXCEPT !.status = st] \in Groups
  BY <1>1, GroupWriteType
<1>3. QED
  BY <1>1, <1>2 DEF UpdateStatus, Accepted, Refused, Fault

LEMMA InitType == Init => TypeOK
<1> SUFFICES ASSUME Init PROVE TypeOK
  OBVIOUS
<1>1. NoGroup \in Groups
  BY GroupAssumption DEF NoGroup, Groups, Statuses
<1>2. NoChild \in Children
  BY DEF NoChild, Children, ChildSpec, Modes
<1>3. 1 \in 1 .. (Last + 1)
  BY GroupAssumption DEF Last
<1>4. QED
  BY <1>1, <1>2, <1>3 DEF Init, TypeOK, PCs

LEMMA NextType == TypeOK /\ [Next]_vars => TypeOK'
<1> SUFFICES ASSUME TypeOK, [Next]_vars PROVE TypeOK'
  OBVIOUS
<1> USE DEF Goto
<1>1. ASSUME NEW s \in Specs, CreateGroup(s) PROVE TypeOK'
  <2>1. group.uid + 1 \in Nat /\ group.gen + 1 \in Nat
    BY DEF TypeOK, Groups
  <2>2. group' \in Groups
    BY <1>1, <2>1 DEF CreateGroup, Groups, Statuses
  <2>3. QED BY <1>1, <2>2 DEF CreateGroup, TypeOK
<1>2. ASSUME NEW s \in Specs, EditSpec(s) PROVE TypeOK'
  <2>1. group \in Groups /\ group.gen + 1 \in Nat
    BY DEF TypeOK, Groups
  <2>2. [group EXCEPT !.spec = s, !.gen = @ + 1] \in Groups
    BY <2>1, GroupWriteType
  <2>3. group' \in Groups
    BY <1>2, <2>2, GroupWriteType DEF EditSpec
  <2>4. QED BY <1>2, <2>3 DEF EditSpec, TypeOK
<1>3. CASE DeleteGroup
  <2>1. group \in Groups BY DEF TypeOK
  <2>2. group' \in Groups
    BY <1>3, <2>1, GroupWriteType DEF DeleteGroup
  <2>3. QED BY <1>3, <2>2 DEF DeleteGroup, TypeOK
<1>4. CASE CacheSync
  BY <1>4 DEF TypeOK, CacheSync
<1>5. CASE StartReconcile
  <2>1. 1 \in 1 .. (Last + 1)
    BY GroupAssumption DEF Last
  <2>2. QED
    BY <1>5, <2>1 DEF TypeOK, StartReconcile, PCs
<1>6. CASE InitialiseStatus
  <2>1. "Initializing" \in Statuses BY DEF Statuses
  <2>2. QED BY <1>6, <2>1, UpdateStatusType DEF InitialiseStatus, TypeOK, PCs
<1>7. CASE EnsureFinalizer
  <2>1. group \in Groups /\ mem \in Groups /\ faults \in Nat BY DEF TypeOK
  <2>2. Bump([group EXCEPT !.fin = TRUE]) \in Groups
    BY <2>1, GroupWriteType
  <2>3. /\ group' \in Groups /\ mem' \in Groups
        /\ faults' \in Nat /\ pc' \in PCs
    BY <1>7, <2>1, <2>2 DEF EnsureFinalizer, Accepted, Refused, Fault, PCs
  <2>4. QED BY <1>7, <2>3 DEF EnsureFinalizer, TypeOK
<1>8. CASE ReconcileChild
  <2>1. todo \in Child /\ todo + 1 \in 1 .. (Last + 1)
    BY <1>8, GroupAssumption DEF ReconcileChild, TypeOK, Last, Child
  <2>2. CreateOrUpdate(todo) \in Children
    BY <2>1, CreateOrUpdateType
  <2>3. [children EXCEPT ![todo] = CreateOrUpdate(todo)] \in [Child -> Children]
    BY <2>1, <2>2 DEF TypeOK
  <2>4. children' \in [Child -> Children]
    BY <1>8, <2>3 DEF ReconcileChild, TypeOK
  <2>5. todo' \in 1 .. (Last + 1) /\ pc' \in PCs /\ faults' \in Nat
    BY <1>8, <2>1 DEF ReconcileChild, TypeOK, Fault, PCs
  <2>6. QED BY <1>8, <2>4, <2>5 DEF ReconcileChild, TypeOK
<1>9. CASE ChildrenReconciled
  BY <1>9 DEF TypeOK, ChildrenReconciled, PCs
<1>10. CASE MarkRunning
  <2>1. "Running" \in Statuses BY DEF Statuses
  <2>2. QED BY <1>10, <2>1, UpdateStatusType DEF MarkRunning, TypeOK, PCs
<1>11. CASE MarkFailed
  <2>1. FailureStatus \in Statuses BY DEF FailureStatus, Statuses
  <2>2. QED BY <1>11, <2>1, UpdateStatusType DEF MarkFailed, TypeOK, PCs
<1>12. CASE MarkDeleting
  <2>1. "Deleting" \in Statuses BY DEF Statuses
  <2>2. QED BY <1>12, <2>1, UpdateStatusType DEF MarkDeleting, TypeOK, PCs
<1>13. CASE CleanupChild
  <2>1. /\ todo \in Child /\ todo + 1 \in 1 .. (Last + 1)
        /\ Last + 1 \in 1 .. (Last + 1)
    BY <1>13, GroupAssumption DEF CleanupChild, TypeOK, Last, Child
  <2>2. [children EXCEPT ![todo].deleting = TRUE] \in [Child -> Children]
    BY <2>1 DEF TypeOK, Children
  <2>3. children' \in [Child -> Children]
    BY <1>13, <2>2 DEF CleanupChild, TypeOK
  <2>4. todo' \in 1 .. (Last + 1) /\ faults' \in Nat
    BY <1>13, <2>1 DEF CleanupChild, TypeOK, Fault
  <2>5. QED BY <1>13, <2>3, <2>4 DEF CleanupChild, TypeOK
<1>14. CASE CleanupDone
  BY <1>14 DEF TypeOK, CleanupDone, PCs
<1>15. CASE RemoveFinalizer
  <2>1. /\ group \in Groups /\ mem \in Groups /\ faults \in Nat
        /\ group.deleting \in BOOLEAN
    BY DEF TypeOK, Groups
  <2>2. Bump([group EXCEPT !.fin = FALSE, !.exists = ~group.deleting]) \in Groups
    BY <2>1, GroupWriteType
  <2>3. /\ group' \in Groups /\ mem' \in Groups
        /\ faults' \in Nat /\ pc' \in PCs
    BY <1>15, <2>1, <2>2 DEF RemoveFinalizer, Accepted, Refused, Fault, PCs
  <2>4. QED BY <1>15, <2>3 DEF RemoveFinalizer, TypeOK
<1>16. ASSUME NEW c \in Child, ComponentDone(c) PROVE TypeOK'
  <2>1. NoChild \in Children
    BY DEF NoChild, Children, ChildSpec, Modes
  <2>2. QED BY <1>16, <2>1 DEF TypeOK, ComponentDone
<1>17. ASSUME NEW c \in Child, GarbageCollect(c) PROVE TypeOK'
  BY <1>17 DEF TypeOK, GarbageCollect, Children
<1>18. CASE OperatorCrash
  BY <1>18 DEF TypeOK, OperatorCrash, Fault, PCs, Groups
<1>19. CASE UNCHANGED vars
  BY <1>19 DEF TypeOK, vars
<1>20. QED
  BY <1>1, <1>2, <1>3, <1>4, <1>5, <1>6, <1>7, <1>8, <1>9, <1>10, <1>11,
     <1>12, <1>13, <1>14, <1>15, <1>16, <1>17, <1>18, <1>19
  DEF Next, User, Reconciler, Environment

\* Every variable keeps its type, for any constants that satisfy
\* GroupAssumption.
THEOREM TypeCorrect == Spec => []TypeOK
  BY InitType, NextType, PTL DEF Spec

-----------------------------------------------------------------------------
(* The inductive invariant                                                  *)

\* How the group changes in a step: not at all; by an accepted write, which
\* never removes the deletion mark; by the deletion of an unprotected
\* object; or by its re-creation.
Advance(g, h) ==
  \/ h = g
  \/ /\ h.uid = g.uid /\ h.rv = g.rv + 1 /\ h.gen >= g.gen
     /\ h.exists => g.exists
     /\ g.deleting => h.deleting
  \/ /\ ~h.exists
     /\ h.uid = g.uid /\ h.rv = g.rv /\ h.gen = g.gen
  \/ h.uid = g.uid + 1 /\ h.gen >= g.gen

\* A snapshot of the past stays one.
LEMMA SnapshotStays ==
  ASSUME NEW s \in Groups, NEW g \in Groups, NEW h \in Groups,
         Snapshot(s, g), Advance(g, h)
  PROVE  Snapshot(s, h)
<1>1. /\ s.uid \in Nat /\ s.rv \in Nat /\ s.gen \in Nat
      /\ g.uid \in Nat /\ g.rv \in Nat /\ g.gen \in Nat
      /\ h.uid \in Nat /\ h.rv \in Nat /\ h.gen \in Nat
  BY DEF Groups
<1>2. CASE h = g
  BY <1>2
<1>3. CASE /\ h.uid = g.uid /\ h.rv = g.rv + 1 /\ h.gen >= g.gen
           /\ h.exists => g.exists
           /\ g.deleting => h.deleting
  BY <1>1, <1>3 DEF Snapshot
<1>4. CASE /\ ~h.exists
           /\ h.uid = g.uid /\ h.rv = g.rv /\ h.gen = g.gen
  BY <1>1, <1>4 DEF Snapshot
<1>5. CASE h.uid = g.uid + 1 /\ h.gen >= g.gen
  BY <1>1, <1>5 DEF Snapshot
<1>6. QED BY <1>2, <1>3, <1>4, <1>5 DEF Advance

\* The group is a snapshot of itself.
LEMMA SnapshotSelf ==
  ASSUME NEW g \in Groups
  PROVE  Snapshot(g, g)
<1>1. g.uid \in Nat /\ g.rv \in Nat /\ g.gen \in Nat
  BY DEF Groups
<1>2. QED BY <1>1 DEF Snapshot

\* The status of a copy does not matter to what it is a snapshot of.
LEMMA SnapshotStatus ==
  ASSUME NEW s \in Groups, NEW g \in Groups, NEW st \in Statuses, Snapshot(s, g)
  PROVE  Snapshot([s EXCEPT !.status = st], g)
  BY DEF Snapshot, Groups

\* What an accepted write or a status write does to the group.
LEMMA BumpFields ==
  ASSUME NEW g \in Groups
  PROVE  /\ Bump(g).uid = g.uid /\ Bump(g).rv = g.rv + 1 /\ Bump(g).gen = g.gen
         /\ Bump(g).exists = g.exists /\ Bump(g).deleting = g.deleting
         /\ Bump(g).fin = g.fin /\ Bump(g).spec = g.spec
  BY DEF Bump, Groups

\* The reconciler's writes leave everything but status and finalizer alone.
LEMMA StatusEffect ==
  ASSUME TypeOK, NEW st \in Statuses, UpdateStatus(st)
  PROVE  \/ group' = group /\ mem' = mem
         \/ group' = group /\ mem' = [mem EXCEPT !.status = st]
         \/ /\ Current /\ mem' = group'
            /\ group'.uid = group.uid /\ group'.rv = group.rv + 1
            /\ group'.gen = group.gen /\ group'.exists = group.exists
            /\ group'.deleting = group.deleting /\ group'.fin = group.fin
            /\ group'.spec = group.spec
<1>1. group \in Groups BY DEF TypeOK
<1>2. [group EXCEPT !.status = st] \in Groups BY <1>1, GroupWriteType
<1>3. CASE mem.status # st /\ Accepted([group EXCEPT !.status = st])
  <2>1. Current /\ mem' = group' /\ group' = Bump([group EXCEPT !.status = st])
    BY <1>3 DEF Accepted
  <2>2. QED BY <2>1, <1>1, <1>2, BumpFields DEF Groups
<1>4. QED BY <1>3 DEF UpdateStatus

\* A status write advances the group and leaves the copy a snapshot.
LEMMA StatusKeeps ==
  ASSUME TypeOK, TypeOK', NEW st \in Statuses, UpdateStatus(st),
         Snapshot(mem, group)
  PROVE  Advance(group, group') /\ Snapshot(mem, group)'
<1>1. group \in Groups /\ group' \in Groups /\ mem \in Groups
  BY DEF TypeOK
<1>2. CASE group' = group /\ mem' = mem
  BY <1>2 DEF Advance
<1>3. CASE group' = group /\ mem' = [mem EXCEPT !.status = st]
  BY <1>1, <1>3, SnapshotStatus DEF Advance
<1>4. CASE /\ Current /\ mem' = group'
           /\ group'.uid = group.uid /\ group'.rv = group.rv + 1
           /\ group'.gen = group.gen /\ group'.exists = group.exists
           /\ group'.deleting = group.deleting
  BY <1>1, <1>4, SnapshotSelf DEF Advance, Groups
<1>5. QED BY <1>2, <1>3, <1>4, StatusEffect

LEMMA InitBase == Init => Base
<1> SUFFICES ASSUME Init PROVE Base
  OBVIOUS
<1>1. TypeOK BY InitType
<1>2. Snapshot(cache, group) /\ Snapshot(mem, group)
  BY <1>1, SnapshotSelf DEF Init, TypeOK
<1>3. Guarded /\ DeletionSeen /\ WrittenFromPast
  <2>1. /\ ~group.exists /\ ~cache.exists /\ ~mem.fin /\ pc = "idle"
        /\ mem.gen = 0 /\ cache.gen = 0
    BY DEF Init, NoGroup
  <2>2. \A c \in Child : children[c].from = 0
    BY DEF Init, NoChild
  <2>3. QED BY <2>1, <2>2 DEF Guarded, DeletionSeen, WrittenFromPast
<1>4. QED BY <1>1, <1>2, <1>3 DEF Base

LEMMA BaseStep == Base /\ [Next]_vars => Base'
<1> SUFFICES ASSUME Base, [Next]_vars PROVE Base'
  OBVIOUS
<1>t. /\ TypeOK /\ TypeOK'
      /\ group \in Groups /\ group' \in Groups
      /\ cache \in Groups /\ mem \in Groups
      /\ Snapshot(cache, group) /\ Snapshot(mem, group)
      /\ Guarded /\ DeletionSeen /\ WrittenFromPast
  BY NextType DEF Base, TypeOK
<1>1. ASSUME NEW s \in Specs, CreateGroup(s) PROVE Base'
  <2>1. Advance(group, group')
    <3>1. group'.uid = group.uid + 1 /\ group'.gen = group.gen + 1
      BY <1>1 DEF CreateGroup
    <3>2. group.gen \in Nat BY <1>t DEF Groups
    <3>3. QED BY <3>1, <3>2 DEF Advance
  <2>2. Snapshot(cache, group)' /\ Snapshot(mem, group)'
    BY <1>1, <1>t, <2>1, SnapshotStays DEF CreateGroup
  <2>3. Guarded' /\ DeletionSeen' /\ WrittenFromPast'
    BY <1>1, <1>t DEF CreateGroup, Guarded, Held, DeletionSeen, WrittenFromPast
  <2>4. QED BY <1>t, <2>2, <2>3 DEF Base
<1>2. ASSUME NEW s \in Specs, EditSpec(s) PROVE Base'
  <2>1. [group EXCEPT !.spec = s, !.gen = @ + 1] \in Groups
    <3>1. group.gen + 1 \in Nat BY <1>t DEF Groups
    <3>2. QED BY <1>t, <3>1, GroupWriteType
  <2>2. /\ group'.uid = group.uid /\ group'.rv = group.rv + 1
        /\ group'.gen = group.gen + 1 /\ group'.exists = group.exists
        /\ group'.deleting = group.deleting /\ group'.fin = group.fin
    BY <1>2, <1>t, <2>1, BumpFields DEF EditSpec, Groups
  <2>3. Advance(group, group')
    BY <2>2, <1>t DEF Advance, Groups
  <2>4. Snapshot(cache, group)' /\ Snapshot(mem, group)'
    BY <1>2, <1>t, <2>3, SnapshotStays DEF EditSpec
  <2>5. Guarded' /\ DeletionSeen' /\ WrittenFromPast'
    BY <1>2, <1>t, <2>2 DEF EditSpec, Guarded, Held, DeletionSeen, WrittenFromPast
  <2>6. QED BY <1>t, <2>4, <2>5 DEF Base
<1>3. CASE DeleteGroup
  <2>1. [group EXCEPT !.deleting = TRUE] \in Groups
    BY <1>t, GroupWriteType
  <2>2. CASE group.fin
    <3>1. /\ group'.uid = group.uid /\ group'.rv = group.rv + 1
          /\ group'.gen = group.gen /\ group'.exists /\ group'.deleting
          /\ group'.fin /\ group.exists
      BY <1>3, <1>t, <2>1, <2>2, BumpFields DEF DeleteGroup, Groups
    <3>2. Advance(group, group')
      BY <3>1, <1>t DEF Advance, Groups
    <3>3. Snapshot(cache, group)' /\ Snapshot(mem, group)'
      BY <1>3, <1>t, <3>2, SnapshotStays DEF DeleteGroup
    <3>4. Guarded' /\ DeletionSeen' /\ WrittenFromPast'
      BY <1>3, <1>t, <3>1 DEF DeleteGroup, Guarded, Held, DeletionSeen, WrittenFromPast
    <3>5. QED BY <1>t, <3>3, <3>4 DEF Base
  <2>3. CASE ~group.fin
    <3>1. /\ group'.uid = group.uid /\ group'.rv = group.rv
          /\ group'.gen = group.gen /\ ~group'.exists
      BY <1>3, <1>t, <2>3 DEF DeleteGroup, Groups
    <3>2. Advance(group, group')
      BY <3>1 DEF Advance
    <3>3. Snapshot(cache, group)' /\ Snapshot(mem, group)'
      BY <1>3, <1>t, <3>2, SnapshotStays DEF DeleteGroup
    <3>4. Guarded' /\ DeletionSeen' /\ WrittenFromPast'
      BY <1>3, <1>t, <2>3, <3>1 DEF DeleteGroup, Guarded, Held, DeletionSeen, WrittenFromPast
    <3>5. QED BY <1>t, <3>3, <3>4 DEF Base
  <2>4. QED BY <2>2, <2>3
<1>4. CASE CacheSync
  <2>1. Snapshot(cache, group)' /\ Snapshot(mem, group)'
    BY <1>4, <1>t, SnapshotSelf DEF CacheSync
  <2>2. Guarded' /\ DeletionSeen'
    BY <1>4, <1>t DEF CacheSync, Guarded, Held, Snapshot, DeletionSeen
  <2>3. WrittenFromPast'
    BY <1>4, <1>t DEF CacheSync, Snapshot, WrittenFromPast
  <2>4. QED BY <1>t, <2>1, <2>2, <2>3 DEF Base
<1>5. CASE StartReconcile
  <2>1. Snapshot(cache, group)' /\ Snapshot(mem, group)'
    BY <1>5, <1>t DEF StartReconcile
  <2>2. Guarded' /\ DeletionSeen'
    BY <1>5, <1>t DEF StartReconcile, Goto, Guarded, Held, DeletionSeen
  <2>3. WrittenFromPast'
    <3>1. \A c \in Child : children[c].from \in Nat
      BY <1>t DEF TypeOK, Children
    <3>2. mem.gen \in Nat /\ cache.gen \in Nat
      BY <1>t DEF Groups
    <3>3. mem' = cache /\ cache' = cache /\ children' = children
      BY <1>5 DEF StartReconcile
    <3>4. \A c \in Child : children[c].from <= cache.gen
      BY <1>t, <3>1, <3>2 DEF WrittenFromPast
    <3>5. QED BY <3>2, <3>3, <3>4 DEF WrittenFromPast
  <2>4. QED BY <1>t, <2>1, <2>2, <2>3 DEF Base
<1>6. CASE InitialiseStatus
  <2>1. "Initializing" \in Statuses BY DEF Statuses, FailureStatus
  <2>2. UpdateStatus("Initializing") BY <1>6 DEF InitialiseStatus
  <2>3. Advance(group, group') /\ Snapshot(mem, group)'
    BY <2>1, <2>2, <1>t, StatusKeeps
  <2>4. cache' = cache /\ children' = children
    BY <1>6 DEF InitialiseStatus
  <2>5. Snapshot(cache, group)'
    BY <2>3, <2>4, <1>t, SnapshotStays
  <2>6. Guarded' /\ DeletionSeen' /\ WrittenFromPast'
    BY <1>6, <2>1, <2>2, <2>4, <1>t, StatusEffect
    DEF InitialiseStatus, Goto, Current, Groups, Guarded, Held, Snapshot, DeletionSeen,
        WrittenFromPast
  <2>7. QED BY <2>3, <2>5, <2>6, <1>t DEF Base
<1>7. CASE EnsureFinalizer
  <2>1. CASE /\ UNCHANGED <<group, mem>>
             /\ (mem.fin /\ pc' = "children") \/ pc' = "failFinalizer"
    BY <1>7, <1>t, <2>1 DEF EnsureFinalizer, Goto, Base, Guarded, Held, DeletionSeen,
       WrittenFromPast
  <2>2. CASE /\ ~mem.fin /\ Accepted([group EXCEPT !.fin = TRUE])
             /\ Goto("children")
    <3>1. [group EXCEPT !.fin = TRUE] \in Groups
      BY <1>t, GroupWriteType
    <3>2. /\ Current /\ mem' = group'
          /\ group'.uid = group.uid /\ group'.rv = group.rv + 1
          /\ group'.gen = group.gen /\ group'.exists = group.exists
          /\ group'.deleting = group.deleting /\ group'.fin
      BY <2>2, <1>t, <3>1, BumpFields DEF Accepted, Groups
    <3>3. Advance(group, group')
      BY <3>2, <1>t DEF Advance, Groups
    <3>4. Snapshot(cache, group)' /\ Snapshot(mem, group)'
      BY <1>7, <1>t, <3>2, <3>3, SnapshotStays, SnapshotSelf DEF EnsureFinalizer
    <3>5. mem.gen = group.gen
      BY <1>7, <1>t, <3>2 DEF EnsureFinalizer, Current, Snapshot, Guarded
    <3>6. Guarded' /\ DeletionSeen'
      BY <1>7, <2>2, <1>t, <3>2
      DEF EnsureFinalizer, Goto, Current, Guarded, Held, DeletionSeen
    <3>7. WrittenFromPast'
      BY <1>7, <1>t, <3>2, <3>5 DEF EnsureFinalizer, WrittenFromPast
    <3>8. QED BY <1>t, <3>4, <3>6, <3>7 DEF Base
  <2>3. QED BY <1>7, <2>1, <2>2 DEF EnsureFinalizer, Goto
<1>8. CASE ReconcileChild
  <2>1. WrittenFromPast'
    <3>1. todo \in Child
      BY <1>8, GroupAssumption DEF ReconcileChild, TypeOK, Base, Last, Child
    <3>2. children' \in {children, [children EXCEPT ![todo] = CreateOrUpdate(todo)]}
      BY <1>8 DEF ReconcileChild
    <3>3. mem.gen \in Nat BY <1>t DEF Groups
    <3>4. CreateOrUpdate(todo).from = mem.gen
      BY DEF CreateOrUpdate
    <3>5. \A c \in Child : children'[c].from <= mem.gen
      BY <1>t, <3>1, <3>2, <3>3, <3>4 DEF WrittenFromPast, TypeOK
    <3>6. QED BY <1>8, <1>t, <3>5 DEF ReconcileChild, WrittenFromPast
  <2>2. QED
    BY <1>8, <1>t, <2>1 DEF ReconcileChild, Goto, Base, Guarded, DeletionSeen
<1>9. CASE ChildrenReconciled
  BY <1>9, <1>t DEF ChildrenReconciled, Goto, Base, Guarded, DeletionSeen, WrittenFromPast
<1>10. CASE MarkRunning
  <2>1. "Running" \in Statuses BY DEF Statuses, FailureStatus
  <2>2. UpdateStatus("Running") BY <1>10 DEF MarkRunning
  <2>3. Advance(group, group') /\ Snapshot(mem, group)'
    BY <2>1, <2>2, <1>t, StatusKeeps
  <2>4. cache' = cache /\ children' = children
    BY <1>10 DEF MarkRunning
  <2>5. Snapshot(cache, group)'
    BY <2>3, <2>4, <1>t, SnapshotStays
  <2>6. Guarded' /\ DeletionSeen' /\ WrittenFromPast'
    BY <1>10, <2>1, <2>2, <2>4, <1>t, StatusEffect
    DEF MarkRunning, Goto, Current, Groups, Guarded, Held, Snapshot, DeletionSeen,
        WrittenFromPast
  <2>7. QED BY <2>3, <2>5, <2>6, <1>t DEF Base
<1>11. CASE MarkFailed
  <2>1. FailureStatus \in Statuses BY DEF Statuses, FailureStatus
  <2>2. UpdateStatus(FailureStatus) BY <1>11 DEF MarkFailed
  <2>3. Advance(group, group') /\ Snapshot(mem, group)'
    BY <2>1, <2>2, <1>t, StatusKeeps
  <2>4. cache' = cache /\ children' = children
    BY <1>11 DEF MarkFailed
  <2>5. Snapshot(cache, group)'
    BY <2>3, <2>4, <1>t, SnapshotStays
  <2>6. Guarded' /\ DeletionSeen' /\ WrittenFromPast'
    BY <1>11, <2>1, <2>2, <2>4, <1>t, StatusEffect
    DEF MarkFailed, Goto, Current, Groups, Guarded, Held, Snapshot, DeletionSeen,
        WrittenFromPast
  <2>7. QED BY <2>3, <2>5, <2>6, <1>t DEF Base
<1>12. CASE MarkDeleting
  <2>1. "Deleting" \in Statuses BY DEF Statuses, FailureStatus
  <2>2. UpdateStatus("Deleting") BY <1>12 DEF MarkDeleting
  <2>3. Advance(group, group') /\ Snapshot(mem, group)'
    BY <2>1, <2>2, <1>t, StatusKeeps
  <2>4. cache' = cache /\ children' = children
    BY <1>12 DEF MarkDeleting
  <2>5. Snapshot(cache, group)'
    BY <2>3, <2>4, <1>t, SnapshotStays
  <2>6. Guarded' /\ DeletionSeen' /\ WrittenFromPast'
    BY <1>12, <2>1, <2>2, <2>4, <1>t, StatusEffect
    DEF MarkDeleting, Goto, Current, Groups, Guarded, Held, Snapshot, DeletionSeen,
        WrittenFromPast
  <2>7. QED BY <2>3, <2>5, <2>6, <1>t DEF Base
<1>13. CASE CleanupChild
  <2>1. WrittenFromPast'
    <3>1. \A c \in Child : children'[c].from = children[c].from
      BY <1>13, <1>t DEF CleanupChild, TypeOK, Children
    <3>2. QED BY <1>13, <1>t, <3>1 DEF CleanupChild, WrittenFromPast
  <2>2. QED
    BY <1>13, <1>t, <2>1 DEF CleanupChild, Base, Guarded, DeletionSeen
<1>14. CASE CleanupDone
  BY <1>14, <1>t DEF CleanupDone, Goto, Base, Guarded, DeletionSeen, WrittenFromPast
<1>15. CASE RemoveFinalizer
  <2>1. CASE UNCHANGED <<group, mem>> /\ pc' = "failRemoval"
    BY <1>15, <1>t, <2>1 DEF RemoveFinalizer, Base, Guarded, DeletionSeen, WrittenFromPast
  <2>2. CASE /\ Accepted([group EXCEPT !.fin = FALSE, !.exists = ~group.deleting])
             /\ Goto("idle")
    <3>1. /\ group.deleting \in BOOLEAN
          /\ [group EXCEPT !.fin = FALSE, !.exists = ~group.deleting] \in Groups
      <4>1. group.deleting \in BOOLEAN BY <1>t DEF Groups
      <4>2. FALSE \in BOOLEAN /\ (~group.deleting) \in BOOLEAN BY <4>1
      <4>3. QED BY <1>t, <4>1, <4>2, GroupWriteType
    <3>2. /\ Current /\ mem' = group'
          /\ group'.uid = group.uid /\ group'.rv = group.rv + 1
          /\ group'.gen = group.gen /\ group'.exists = ~group.deleting
          /\ group'.deleting = group.deleting
      BY <2>2, <1>t, <3>1, BumpFields DEF Accepted, Groups
    <3>3. mem.exists /\ mem.deleting /\ group.deleting /\ mem.gen = group.gen
      BY <1>15, <1>t, <3>2 DEF RemoveFinalizer, DeletionSeen, Current, Snapshot
    <3>4. Advance(group, group')
      BY <3>2, <1>t DEF Advance, Groups, Current
    <3>5. Snapshot(cache, group)' /\ Snapshot(mem, group)'
      BY <1>15, <1>t, <3>2, <3>4, SnapshotStays, SnapshotSelf DEF RemoveFinalizer
    <3>6. ~(cache.exists /\ cache.fin /\ ~cache.deleting)
      BY <1>15, <1>t, <3>2 DEF RemoveFinalizer, DeletionSeen, Guarded, Held, Current
    <3>7. Guarded' /\ DeletionSeen'
      BY <1>15, <2>2, <3>2, <3>3, <3>6
      DEF RemoveFinalizer, Goto, Guarded, DeletionSeen
    <3>8. WrittenFromPast'
      BY <1>15, <1>t, <3>2, <3>3 DEF RemoveFinalizer, WrittenFromPast
    <3>9. QED BY <1>t, <3>5, <3>7, <3>8 DEF Base
  <2>3. QED BY <1>15, <2>1, <2>2 DEF RemoveFinalizer, Goto
<1>16. ASSUME NEW c \in Child, ComponentDone(c) PROVE Base'
  <2>1. \A d \in Child : children'[d].from \in {0, children[d].from}
    BY <1>16, <1>t DEF ComponentDone, TypeOK, NoChild
  <2>2. mem.gen \in Nat BY <1>t DEF Groups
  <2>3. QED
    BY <1>16, <1>t, <2>1, <2>2
    DEF ComponentDone, Base, Guarded, DeletionSeen, WrittenFromPast
<1>17. ASSUME NEW c \in Child, GarbageCollect(c) PROVE Base'
  <2>1. \A d \in Child : children'[d].from = children[d].from
    BY <1>17, <1>t DEF GarbageCollect, TypeOK, Children
  <2>2. QED
    BY <1>17, <1>t, <2>1
    DEF GarbageCollect, Base, Guarded, DeletionSeen, WrittenFromPast
<1>18. CASE OperatorCrash
  <2>1. Snapshot(cache, group)' /\ Snapshot(mem, group)'
    BY <1>18, <1>t, SnapshotSelf DEF OperatorCrash
  <2>2. Guarded' /\ DeletionSeen'
    BY <1>18, <1>t DEF OperatorCrash, Guarded, Held, DeletionSeen
  <2>3. WrittenFromPast'
    BY <1>18, <1>t DEF OperatorCrash, Snapshot, WrittenFromPast, Groups
  <2>4. QED BY <1>t, <2>1, <2>2, <2>3 DEF Base
<1>19. CASE UNCHANGED vars
  BY <1>19, <1>t DEF vars, Base, Guarded, DeletionSeen, WrittenFromPast
<1>20. QED
  BY <1>1, <1>2, <1>3, <1>4, <1>5, <1>6, <1>7, <1>8, <1>9, <1>10, <1>11,
     <1>12, <1>13, <1>14, <1>15, <1>16, <1>17, <1>18, <1>19
  DEF Next, User, Reconciler, Environment

\* What the reconciler reads from its cache is always a snapshot of the group
\* good enough to act on: what the safety of the children rests on.
LEMMA BaseInvariance == Spec => []Base
  BY InitBase, BaseStep, PTL DEF Spec

-----------------------------------------------------------------------------
(* The operator at rest                                                     *)

\* Whoever changes the group leaves the cache and the children as they are,
\* and the group differs from all that it has been.
Changes ==
  /\ UNCHANGED <<cache, children>>
  /\ \/ /\ group.exists /\ group'.uid = group.uid
        /\ group'.rv = group.rv + 1
        /\ group.deleting => group'.deleting
     \/ group.exists /\ group'.uid = group.uid /\ ~group'.exists
     \/ ~group.exists /\ group'.uid = group.uid + 1 /\ ~group'.deleting

LEMMA StatusChanges ==
  ASSUME TypeOK, NEW st \in Statuses, UpdateStatus(st),
         UNCHANGED <<cache, children>>
  PROVE  group' = group \/ Changes
BY StatusEffect DEF Changes, Current

LEMMA GroupChanges == Base /\ [Next]_vars => group' = group \/ Changes
<1> SUFFICES ASSUME Base, [Next]_vars PROVE group' = group \/ Changes
  OBVIOUS
<1>t. TypeOK /\ group \in Groups
  BY DEF Base, TypeOK
<1>1. ASSUME NEW s \in Specs, CreateGroup(s) PROVE Changes
  BY <1>1 DEF CreateGroup, Changes
<1>2. ASSUME NEW s \in Specs, EditSpec(s) PROVE Changes
  BY <1>2, <1>t DEF EditSpec, Bump, Groups, Changes
<1>3. CASE DeleteGroup
  BY <1>3, <1>t DEF DeleteGroup, Bump, Groups, Changes
<1>4. CASE InitialiseStatus \/ MarkRunning \/ MarkFailed \/ MarkDeleting
  <2>1. \E st \in Statuses : UpdateStatus(st)
    BY <1>4
    DEF InitialiseStatus, MarkRunning, MarkFailed, MarkDeleting, Statuses,
        FailureStatus
  <2>2. UNCHANGED <<cache, children>>
    BY <1>4 DEF InitialiseStatus, MarkRunning, MarkFailed, MarkDeleting
  <2>3. QED BY <1>t, <2>1, <2>2, StatusChanges
<1>5. CASE EnsureFinalizer
  BY <1>5, <1>t DEF EnsureFinalizer, Accepted, Current, Bump, Groups, Changes
<1>6. CASE RemoveFinalizer
  BY <1>6, <1>t DEF RemoveFinalizer, Accepted, Current, Bump, Groups, Changes
<1>7. CASE group' = group
  BY <1>7
<1>8. QED
  BY <1>1, <1>2, <1>3, <1>4, <1>5, <1>6, <1>7
  DEF Next, User, Reconciler, Environment, vars, CacheSync, StartReconcile,
      ReconcileChild, ChildrenReconciled, CleanupChild, CleanupDone,
      ComponentDone, GarbageCollect, OperatorCrash

\* A group that has just changed is in nobody's cache.
LEMMA ChangeDisturbs ==
  ASSUME Base, Changes
  PROVE  ~Undisturbed' /\ group' # group
<1>1. /\ group.uid \in Nat /\ group.rv \in Nat
      /\ cache.uid \in Nat /\ cache.rv \in Nat
      /\ cache.uid <= group.uid /\ (cache.uid = group.uid => cache.rv <= group.rv)
  BY DEF Base, TypeOK, Groups, Snapshot
<1>2. QED BY <1>1 DEF Changes, Undisturbed

\* A status write that leaves an undisturbed group alone was not needed, or
\* a fault stood in its way.
LEMMA StatusAtRest ==
  ASSUME TypeOK, group.exists, group' = group, NEW st, UpdateStatus(st),
         mem = [group EXCEPT !.status = mem.status],
         StatusTold => mem.status = group.status
  PROVE  /\ mem' = [group EXCEPT !.status = mem'.status]
         /\ StatusTold' => mem'.status = group.status /\ group.status = st
<1>1. group \in Groups /\ faults \in Nat
  BY DEF TypeOK
<1>2. Current
  BY <1>1 DEF Current, Groups
<1>3. CASE mem.status = st /\ UNCHANGED <<group, mem, faults>>
  BY <1>3 DEF StatusTold
<1>4. CASE Accepted([group EXCEPT !.status = st])
  BY <1>1, <1>4 DEF Accepted, Bump, Groups
<1>5. CASE Refused("status") /\ mem' = [mem EXCEPT !.status = st]
  <2>1. ~StatusTold'
    BY <1>1, <1>2, <1>5 DEF Refused, Fault, StatusTold
  <2>2. mem' = [group EXCEPT !.status = mem'.status]
    BY <1>1, <1>5 DEF Groups
  <2>3. QED BY <2>1, <2>2
<1>6. QED BY <1>3, <1>4, <1>5 DEF UpdateStatus

LEMMA FaultsGrow == TypeOK /\ [Next]_vars => (StatusTold' => StatusTold)
<1> SUFFICES ASSUME TypeOK, [Next]_vars
             PROVE  faults' \in {faults, faults + 1}
  BY DEF StatusTold, TypeOK
<1>1. ASSUME NEW st, UpdateStatus(st) PROVE faults' \in {faults, faults + 1}
  BY <1>1 DEF UpdateStatus, Accepted, Refused, Fault
<1>2. CASE InitialiseStatus \/ MarkRunning \/ MarkFailed \/ MarkDeleting
  BY <1>1, <1>2 DEF InitialiseStatus, MarkRunning, MarkFailed, MarkDeleting
<1>3. CASE EnsureFinalizer \/ RemoveFinalizer
  BY <1>3 DEF EnsureFinalizer, RemoveFinalizer, Accepted, Refused, Fault
<1>4. CASE ReconcileChild \/ CleanupChild \/ OperatorCrash
  BY <1>4 DEF ReconcileChild, CleanupChild, OperatorCrash, Fault
<1>5. CASE faults' = faults
  BY <1>5
<1>6. QED
  BY <1>2, <1>3, <1>4, <1>5
  DEF Next, User, Reconciler, Environment, vars, CreateGroup, EditSpec,
      DeleteGroup, CacheSync, StartReconcile, ChildrenReconciled,
      CleanupDone, ComponentDone, GarbageCollect

\* An undisturbed step of the operator leaves the group as it is.
LEMMA RestingGroup ==
  Base /\ [Next]_vars /\ Undisturbed' => group' = group
BY GroupChanges, ChangeDisturbs

\* An accepted write is a new version of the group.
LEMMA AcceptedRises ==
  ASSUME TypeOK, NEW g \in Groups, g.rv = group.rv, Accepted(g)
  PROVE  group' # group
BY DEF TypeOK, Accepted, Bump, Groups

LEMMA AttendedStep == Base /\ Attended /\ [Next]_vars => Attended'
<1> SUFFICES ASSUME Base, Attended, [Next]_vars PROVE Attended'
  OBVIOUS
<1>t. TypeOK /\ group \in Groups /\ mem \in Groups /\ DeletionSeen
  BY DEF Base, TypeOK
<1>1. pc' \in {"init", "finalizer"} => todo' = 1
  BY DEF Attended, Next, User, Reconciler, Environment, vars, CreateGroup,
         EditSpec, DeleteGroup, CacheSync, StartReconcile, InitialiseStatus,
         EnsureFinalizer, ReconcileChild, ChildrenReconciled, MarkRunning,
         MarkFailed, MarkDeleting, CleanupChild, CleanupDone,
         RemoveFinalizer, ComponentDone, GarbageCollect, OperatorCrash, Goto
<1>2. ASSUME Undisturbed'
      PROVE  /\ pc' # "idle" =>
                  /\ mem' = [group EXCEPT !.status = mem'.status]
                  /\ StatusTold' => mem'.status = group.status
                  /\ pc' \in {"init", "finalizer", "children", "running"} =>
                       ~group.deleting
             /\ pc' = "idle" =>
                  ~group.deleting /\ (StatusTold' => group.status = "Running")
  <2> DEFINE Goal ==
        /\ pc' # "idle" =>
             /\ mem' = [group EXCEPT !.status = mem'.status]
             /\ StatusTold' => mem'.status = group.status
             /\ pc' \in {"init", "finalizer", "children", "running"} =>
                  ~group.deleting
        /\ pc' = "idle" =>
             ~group.deleting /\ (StatusTold' => group.status = "Running")
  <2>g. group' = group
    BY <1>2, RestingGroup
  <2>f. StatusTold' => StatusTold
    BY <1>t, FaultsGrow
  <2>e. group.exists /\ cache' = group /\ ~queue'
    BY <1>2, <2>g DEF Undisturbed
  <2>u. UNCHANGED <<cache, queue>> => Undisturbed
    BY <2>e DEF Undisturbed
  <2>a. ASSUME Undisturbed, pc # "idle"
        PROVE  /\ mem = [group EXCEPT !.status = mem.status]
               /\ StatusTold => mem.status = group.status
               /\ pc \in {"init", "finalizer", "children", "running"} =>
                    ~group.deleting
    BY <2>a DEF Attended
  <2>c. Undisturbed /\ pc # "idle" => Current
    BY <2>a, <1>t DEF Current, Undisturbed, Groups
  <2>1. ASSUME NEW s \in Specs, CreateGroup(s) PROVE FALSE
    BY <2>1, <2>e DEF CreateGroup
  <2>2. CASE UNCHANGED <<group, cache, queue, pc, mem, faults>>
    BY <2>2, <2>u DEF Attended, StatusTold
  <2>3. CASE (\E s \in Specs : EditSpec(s)) \/ DeleteGroup
    <3>1. UNCHANGED <<group, cache, queue, pc, mem, faults>>
      BY <2>3, <2>g DEF EditSpec, DeleteGroup
    <3>2. QED BY <2>2, <3>1
  <2>4. CASE CacheSync \/ MarkFailed
    BY <2>4, <2>e DEF CacheSync, MarkFailed
  <2>5. CASE StartReconcile
    <3>1. cache = group /\ mem' = group
      BY <2>5, <2>e DEF StartReconcile
    <3>2. group = [group EXCEPT !.status = group.status]
      BY <1>t DEF Groups
    <3>3. \/ pc' = "deleting"
          \/ pc' \in {"init", "finalizer"} /\ ~group.deleting
      BY <2>5, <2>e, <3>1 DEF StartReconcile, Goto
    <3>4. QED BY <3>1, <3>2, <3>3
  <2>6. CASE InitialiseStatus \/ MarkDeleting \/ MarkRunning
    <3>1. PICK st \in {"Initializing", "Deleting", "Running"} :
            UpdateStatus(st) /\ (MarkRunning => st = "Running")
      BY <2>6 DEF InitialiseStatus, MarkDeleting, MarkRunning
    <3>2. Undisturbed /\ pc # "idle"
      BY <2>6, <2>u DEF InitialiseStatus, MarkDeleting, MarkRunning
    <3>3. /\ mem' = [group EXCEPT !.status = mem'.status]
          /\ StatusTold' => mem'.status = group.status /\ group.status = st
      BY <1>t, <2>e, <2>g, <2>a, <3>1, <3>2, StatusAtRest
    <3>4. /\ InitialiseStatus => pc = "init" /\ pc' = "finalizer"
          /\ MarkDeleting => pc' = "cleanup"
          /\ MarkRunning => pc = "running" /\ pc' = "idle"
      BY DEF InitialiseStatus, MarkDeleting, MarkRunning, Goto
    <3>5. QED BY <2>6, <2>a, <3>1, <3>2, <3>3, <3>4
  <2>7. CASE EnsureFinalizer
    <3>1. Undisturbed /\ pc = "finalizer" /\ pc' \in {"children", "failFinalizer"}
      BY <2>7, <2>u DEF EnsureFinalizer, Goto
    <3>2. ~Accepted([group EXCEPT !.fin = TRUE])
      <4>1. /\ [group EXCEPT !.fin = TRUE] \in Groups
            /\ [group EXCEPT !.fin = TRUE].rv = group.rv
        BY <1>t DEF Groups
      <4>2. QED BY <1>t, <2>g, <4>1, AcceptedRises
    <3>3. mem' = mem
      BY <2>7, <3>2 DEF EnsureFinalizer
    <3>4. QED BY <2>a, <2>f, <3>1, <3>3
  <2>8. CASE ReconcileChild \/ ChildrenReconciled
    <3>1. /\ Undisturbed /\ pc = "children" /\ mem' = mem
          /\ pc' \in {"children", "failChildren", "running"}
      BY <2>8, <2>u DEF ReconcileChild, ChildrenReconciled, Goto
    <3>2. QED BY <2>a, <2>f, <3>1
  <2>9. CASE CleanupChild \/ CleanupDone
    <3>1. /\ Undisturbed /\ pc = "cleanup" /\ mem' = mem
          /\ pc' \in {"cleanup", "removal"}
      BY <2>9, <2>u DEF CleanupChild, CleanupDone, Goto
    <3>2. QED BY <2>a, <2>f, <3>1
  <2>10. CASE RemoveFinalizer
    <3>1. Undisturbed /\ pc = "removal"
      BY <2>10, <2>u DEF RemoveFinalizer
    <3>2. ~Accepted([group EXCEPT !.fin = FALSE, !.exists = ~group.deleting])
      <4> DEFINE g == [group EXCEPT !.fin = FALSE, !.exists = ~group.deleting]
      <4>1. g \in Groups /\ g.rv = group.rv
        BY <1>t DEF Groups
      <4>2. QED BY <1>t, <2>g, <4>1, AcceptedRises
    <3>3. mem' = mem /\ pc' = "failRemoval"
      BY <2>10, <3>2 DEF RemoveFinalizer, Goto
    <3>4. QED BY <2>a, <2>f, <3>1, <3>3
  <2>11. CASE OperatorCrash
    BY <2>11, <2>e DEF OperatorCrash
  <2>12. Goal
    BY <2>1, <2>2, <2>3, <2>4, <2>5, <2>6, <2>7, <2>8, <2>9, <2>10, <2>11
    DEF Next, User, Reconciler, Environment, vars, ComponentDone,
        GarbageCollect
  <2>13. QED BY <2>12
<1>3. QED
  <2>1. Undisturbed' => group' = group
    BY RestingGroup
  <2>2. QED BY <1>1, <1>2, <2>1 DEF Attended

\* The only step that brings a child into being is a reconciler's, and it
\* writes it for the group it holds in memory.
LEMMA ChildWriter ==
  ASSUME TypeOK, [Next]_vars, NEW c \in Child,
         children'[c] # children[c], children'[c].exists
  PROVE  \/ /\ ReconcileChild /\ children'[c] = CreateOrUpdate(c)
         \/ /\ children[c].exists /\ children'[c].from = children[c].from
            /\ children'[c].owner = children[c].owner
<1>1. CASE ReconcileChild
  <2>1. children' \in {children, [children EXCEPT ![todo] = CreateOrUpdate(todo)]}
    BY <1>1 DEF ReconcileChild
  <2>2. QED BY <1>1, <2>1 DEF TypeOK
<1>2. CASE CleanupChild
  <2>1. \A d \in Child : /\ children'[d].from = children[d].from
                         /\ children'[d].owner = children[d].owner
                         /\ children'[d].exists = children[d].exists
    BY <1>2 DEF CleanupChild, TypeOK, Children
  <2>2. QED BY <2>1
<1>3. ASSUME NEW d \in Child, ComponentDone(d) PROVE FALSE
  BY <1>3 DEF ComponentDone, NoChild, TypeOK
<1>4. CASE \E d \in Child : GarbageCollect(d)
  BY <1>4 DEF GarbageCollect, TypeOK, Children
<1>5. CASE UNCHANGED children
  BY <1>5
<1>6. QED
  BY <1>1, <1>2, <1>3, <1>4, <1>5
  DEF Next, User, Reconciler, Environment, vars, CreateGroup, EditSpec,
      DeleteGroup, CacheSync, StartReconcile, InitialiseStatus,
      EnsureFinalizer, ChildrenReconciled, MarkRunning, MarkFailed,
      MarkDeleting, CleanupDone, RemoveFinalizer, OperatorCrash

\* The operator holds no copy of the group but one that it has read or written.
LEMMA CopiesRead ==
  TypeOK /\ [Next]_vars =>
    /\ cache' \in {cache, group}
    /\ \/ mem' \in {mem, cache, group'}
       \/ \E st : mem' = [mem EXCEPT !.status = st]
<1> SUFFICES ASSUME TypeOK, [Next]_vars
             PROVE  /\ cache' \in {cache, group}
                    /\ \/ mem' \in {mem, cache, group'}
                       \/ \E st : mem' = [mem EXCEPT !.status = st]
  OBVIOUS
<1>1. CASE InitialiseStatus \/ MarkRunning \/ MarkFailed \/ MarkDeleting
  <2>1. PICK st : UpdateStatus(st)
    BY <1>1 DEF InitialiseStatus, MarkRunning, MarkFailed, MarkDeleting
  <2>2. cache' = cache
    BY <1>1 DEF InitialiseStatus, MarkRunning, MarkFailed, MarkDeleting
  <2>3. mem' = group' \/ mem' = mem \/ mem' = [mem EXCEPT !.status = st]
    BY <2>1, Zenon DEF UpdateStatus, Accepted
  <2>4. QED BY <2>2, <2>3, Zenon
<1>2. CASE EnsureFinalizer
  BY <1>2, Zenon DEF EnsureFinalizer, Accepted
<1>3. CASE RemoveFinalizer
  BY <1>3, Zenon DEF RemoveFinalizer, Accepted
<1>4. CASE cache' \in {cache, group} /\ mem' \in {mem, cache}
  BY <1>4
<1>5. QED
  BY <1>1, <1>2, <1>3, <1>4
  DEF Next, User, Reconciler, Environment, vars, CreateGroup, EditSpec,
      DeleteGroup, CacheSync, StartReconcile, ReconcileChild,
      ChildrenReconciled, CleanupChild, CleanupDone, ComponentDone,
      GarbageCollect, OperatorCrash

\* A child is marked only by the deletion of its own group, or by the garbage
\* collector when its own group is gone.
LEMMA ChildMarker ==
  ASSUME Base, FirstOwned, [Next]_vars, NEW c \in Child,
         children'[c].exists, children'[c].deleting,
         ~(children[c].exists /\ children[c].deleting),
         group.exists, group.uid = 1
  PROVE  group.deleting
<1>t. TypeOK /\ Snapshot(mem, group) /\ DeletionSeen
  BY DEF Base
<1>1. CASE ReconcileChild
  <2>1. children' \in {children, [children EXCEPT ![todo] = CreateOrUpdate(todo)]}
    BY <1>1 DEF ReconcileChild
  <2>2. children'[c] = children[c] \/ children'[c] = CreateOrUpdate(c)
    BY <1>t, <2>1 DEF TypeOK
  <2>3. CreateOrUpdate(c).deleting => children[c].exists /\ children[c].deleting
    BY DEF CreateOrUpdate
  <2>4. QED BY <2>2, <2>3
<1>2. CASE CleanupChild
  <2>1. mem.exists /\ mem.deleting
    BY <1>2, <1>t DEF CleanupChild, DeletionSeen
  <2>2. mem.uid = group.uid
    BY <1>t, <2>1 DEF FirstOwned, Snapshot, TypeOK, Groups
  <2>3. QED BY <1>t, <2>1, <2>2 DEF Snapshot
<1>3. ASSUME NEW d \in Child, ComponentDone(d) PROVE FALSE
  BY <1>3, <1>t DEF ComponentDone, NoChild, TypeOK
<1>4. ASSUME NEW d \in Child, GarbageCollect(d) PROVE FALSE
  <2>1. children[d].owner = 1
    BY <1>4, <1>t DEF GarbageCollect, FirstOwned, TypeOK, Children
  <2>2. QED BY <1>4, <2>1 DEF GarbageCollect
<1>5. CASE UNCHANGED children
  BY <1>5
<1>6. QED
  BY <1>1, <1>2, <1>3, <1>4, <1>5
  DEF Next, User, Reconciler, Environment, vars, CreateGroup, EditSpec,
      DeleteGroup, CacheSync, StartReconcile, InitialiseStatus,
      EnsureFinalizer, ChildrenReconciled, MarkRunning, MarkFailed,
      MarkDeleting, CleanupDone, RemoveFinalizer, OperatorCrash

LEMMA FirstOwnedStep == Base /\ FirstOwned /\ [Next]_vars => FirstOwned'
<1> SUFFICES ASSUME Base, FirstOwned, [Next]_vars PROVE FirstOwned'
  OBVIOUS
<1>t. /\ TypeOK /\ TypeOK' /\ Guarded
      /\ group.uid \in Nat /\ group'.uid \in Nat /\ mem \in Groups
  BY NextType DEF Base, TypeOK, Groups
<1>g. group' = group \/ Changes
  BY GroupChanges
<1>1. group'.exists => group'.uid # 0
  BY <1>t, <1>g DEF FirstOwned, Changes
<1>2. group.uid <= group'.uid
  BY <1>t, <1>g DEF Changes
<1>3. cache'.exists => cache'.uid # 0
  BY <1>t, CopiesRead DEF FirstOwned
<1>4. mem'.exists => mem'.uid # 0
  <2>1. CASE mem' \in {mem, cache, group'}
    BY <1>1, <2>1 DEF FirstOwned
  <2>2. CASE \E st : mem' = [mem EXCEPT !.status = st]
    BY <1>t, <2>2 DEF FirstOwned, Groups
  <2>3. QED BY <1>t, <2>1, <2>2, CopiesRead
<1>5. ASSUME NEW c \in Child, children'[c].exists
      PROVE  children'[c].owner # 0 /\ children'[c].owner <= group'.uid
  <2>1. CASE children[c].exists /\ children'[c].owner = children[c].owner
    <3>1. children[c].owner \in Nat
      BY <1>t DEF TypeOK, Children
    <3>2. QED BY <1>t, <1>2, <2>1, <3>1 DEF FirstOwned
  <2>2. CASE ReconcileChild /\ children'[c] = CreateOrUpdate(c)
    <3>1. mem.exists /\ Held(mem, group)
      BY <1>t, <2>2 DEF ReconcileChild, Guarded
    <3>2. children'[c].owner \in {mem.uid, children[c].owner}
      BY <2>2 DEF CreateOrUpdate
    <3>3. CASE children[c].exists
      BY <2>1, <2>2, <3>3 DEF CreateOrUpdate
    <3>4. CASE ~children[c].exists
      <4>1. children'[c].owner = mem.uid
        BY <2>2, <3>4 DEF CreateOrUpdate
      <4>2. mem.uid # 0 /\ mem.uid = group.uid
        BY <3>1 DEF Held, FirstOwned
      <4>3. QED BY <1>t, <1>2, <4>1, <4>2
    <3>5. QED BY <3>3, <3>4
  <2>3. CASE children'[c] = children[c]
    BY <1>5, <2>1, <2>3
  <2>4. QED BY <1>t, <1>5, <2>1, <2>2, <2>3, ChildWriter
<1>6. ASSUME group'.uid = 1, group'.exists, ~group'.deleting,
             NEW c \in Child, children'[c].exists
      PROVE  ~children'[c].deleting
  <2>1. CASE group' = group
    BY <1>6, <2>1, ChildMarker DEF FirstOwned
  <2>2. CASE Changes /\ group.exists /\ group'.uid = group.uid
    BY <1>6, <2>2 DEF Changes, FirstOwned
  <2>3. CASE Changes /\ ~group.exists /\ group'.uid = group.uid + 1
    <3>1. group.uid = 0 /\ children[c].exists
      BY <1>t, <1>6, <2>3 DEF Changes
    <3>2. children[c].owner \in Nat
      BY <1>t DEF TypeOK, Children
    <3>3. QED BY <3>1, <3>2 DEF FirstOwned
  <2>4. QED BY <1>g, <2>1, <2>2, <2>3 DEF Changes
<1>7. QED BY <1>1, <1>3, <1>4, <1>5, <1>6 DEF FirstOwned

\* The reconcile of an undisturbed group writes what that group asks for, and
\* whoever marks a child of it has the group marked first.
LEMMA FirstConvergesStep == IInv /\ [Next]_vars => FirstConverges'
<1> SUFFICES ASSUME IInv, [Next]_vars,
                    group'.uid = 1, Undisturbed', ~group'.deleting,
                    group'.spec.manage, NEW c \in Passed'
             PROVE  Converged(c)'
  BY DEF FirstConverges
<1>t. /\ TypeOK /\ Base /\ Attended /\ FirstOwned /\ FirstConverges
      /\ FirstOwned'
  BY FirstOwnedStep DEF IInv, Base
<1>g. group' = group
  BY <1>t, RestingGroup
<1>e. /\ group.exists /\ cache' = group /\ ~queue' /\ group.uid = 1
      /\ ~group.deleting /\ group.spec.manage
      /\ c \in Wanted(group.spec) /\ c \in Child
  BY <1>g DEF Undisturbed, Passed, Wanted
<1>u. UNCHANGED <<cache, queue>> => Undisturbed
  BY <1>e DEF Undisturbed
<1>p. \/ pc' \in {"idle", "running"}
      \/ pc' = "children" /\ c < todo'
  BY DEF Passed
<1>c. ASSUME Undisturbed, c \in Passed PROVE Converged(c)
  BY <1>t, <1>e, <1>c DEF FirstConverges
<1>k. ASSUME UNCHANGED <<cache, queue>>, c \in Passed, children'[c] = children[c]
      PROVE  Converged(c)'
  BY <1>g, <1>u, <1>c, <1>k DEF Converged
<1>1. ASSUME NEW s \in Specs, CreateGroup(s) PROVE FALSE
  BY <1>1, <1>e DEF CreateGroup
<1>2. CASE UNCHANGED <<cache, queue, pc, todo, children>>
  BY <1>2, <1>k, <1>e, <1>p DEF Passed
<1>3. CASE (\E s \in Specs : EditSpec(s)) \/ DeleteGroup
  BY <1>2, <1>3 DEF EditSpec, DeleteGroup
<1>4. CASE CacheSync \/ MarkFailed \/ OperatorCrash
  BY <1>4, <1>e DEF CacheSync, MarkFailed, OperatorCrash
<1>5. CASE StartReconcile
  BY <1>5, <1>e, <1>p DEF StartReconcile, Goto
<1>6. CASE InitialiseStatus \/ MarkDeleting \/ CleanupChild \/ CleanupDone
  BY <1>6, <1>p
  DEF InitialiseStatus, MarkDeleting, CleanupChild, CleanupDone, Goto
<1>7. CASE EnsureFinalizer
  <2>1. todo' = 1
    BY <1>7, <1>t DEF EnsureFinalizer, Attended
  <2>2. pc' \in {"children", "failFinalizer"}
    BY <1>7 DEF EnsureFinalizer, Goto
  <2>3. QED BY <1>e, <1>p, <2>1, <2>2 DEF Child
<1>8. CASE MarkRunning
  BY <1>8, <1>k, <1>e DEF MarkRunning, Passed
<1>9. CASE ReconcileChild
  <2>1. pc = "children" /\ pc' = "children" /\ c < todo'
    BY <1>9, <1>p DEF ReconcileChild, Goto
  <2>2. UNCHANGED <<cache, queue>> /\ todo' = todo + 1
    BY <1>9, <2>1 DEF ReconcileChild, Goto
  <2>3. todo \in Nat /\ c \in Nat
    BY <1>t, <1>e DEF TypeOK, Child
  <2>4. CASE c < todo
    <3>1. children'[c] = children[c]
      <4>1. children' \in {children,
                           [children EXCEPT ![todo] = CreateOrUpdate(todo)]}
        BY <1>9 DEF ReconcileChild
      <4>2. QED BY <1>t, <1>e, <2>3, <2>4, <4>1 DEF TypeOK
    <3>2. QED BY <1>k, <1>e, <2>1, <2>2, <2>4, <3>1 DEF Passed
  <2>5. CASE c = todo
    <3>1. mem.spec = group.spec
      <4>1. mem = [group EXCEPT !.status = mem.status]
        BY <1>t, <1>u, <2>1, <2>2 DEF Attended
      <4>2. QED BY <1>t, <4>1 DEF TypeOK, Groups
    <3>2. children'[c] = CreateOrUpdate(c)
      <4>1. children' = [children EXCEPT ![todo] = CreateOrUpdate(todo)]
        BY <1>9, <1>e, <2>1, <2>5, <3>1 DEF ReconcileChild, Goto
      <4>2. QED BY <1>t, <1>e, <2>5, <4>1 DEF TypeOK
    <3>3. children'[c].exists /\ children'[c].spec = BuildSpec(group.spec, c)
      BY <3>1, <3>2 DEF CreateOrUpdate
    <3>4. ~children'[c].deleting
      BY <1>t, <1>e, <1>g, <3>3 DEF FirstOwned
    <3>5. QED BY <1>g, <3>3, <3>4 DEF Converged
  <2>6. QED BY <2>1, <2>2, <2>3, <2>4, <2>5
<1>10. CASE ChildrenReconciled
  <2>1. pc = "children" /\ UNCHANGED <<cache, queue, children, mem>>
    BY <1>10 DEF ChildrenReconciled
  <2>2. mem.spec = group.spec
    <3>1. mem = [group EXCEPT !.status = mem.status]
      BY <1>t, <1>u, <2>1 DEF Attended
    <3>2. QED BY <1>t, <3>1 DEF TypeOK, Groups
  <2>3. c < todo
    BY <1>10, <1>t, <1>e, <2>2, GroupAssumption
    DEF ChildrenReconciled, TypeOK, Child, Last
  <2>4. QED BY <1>k, <1>e, <2>1, <2>3 DEF Passed
<1>11. CASE RemoveFinalizer
  <2>1. ~Accepted([group EXCEPT !.fin = FALSE, !.exists = ~group.deleting])
    <3> DEFINE g == [group EXCEPT !.fin = FALSE, !.exists = ~group.deleting]
    <3>1. g \in Groups /\ g.rv = group.rv
      BY <1>t DEF TypeOK, Groups
    <3>2. QED BY <1>t, <1>g, <3>1, AcceptedRises
  <2>2. pc' = "failRemoval"
    BY <1>11, <2>1 DEF RemoveFinalizer, Goto
  <2>3. QED BY <1>p, <2>2
<1>12. ASSUME NEW d \in Child, ComponentDone(d) PROVE Converged(c)'
  <2>1. d # c
    <3>1. c \in Passed /\ Undisturbed
      BY <1>12, <1>e, <1>p, <1>u DEF ComponentDone, Passed
    <3>2. QED BY <1>12, <1>c, <3>1 DEF ComponentDone, Converged
  <2>2. children'[c] = children[c] /\ c \in Passed /\ UNCHANGED <<cache, queue>>
    BY <1>12, <1>t, <1>e, <1>p, <2>1 DEF ComponentDone, Passed, TypeOK
  <2>3. QED BY <1>k, <2>2
<1>13. ASSUME NEW d \in Child, GarbageCollect(d) PROVE FALSE
  <2>1. children[d].owner = 1
    BY <1>13, <1>t, <1>e DEF GarbageCollect, FirstOwned, TypeOK, Children
  <2>2. QED BY <1>13, <1>e, <2>1 DEF GarbageCollect
<1>14. QED
  BY <1>1, <1>2, <1>3, <1>4, <1>5, <1>6, <1>7, <1>8, <1>9, <1>10, <1>11,
     <1>12, <1>13
  DEF Next, User, Reconciler, Environment, vars

LEMMA InitIInv == Init => IInv
<1> SUFFICES ASSUME Init PROVE IInv
  OBVIOUS
<1>1. /\ group = NoGroup /\ cache = NoGroup /\ mem = NoGroup /\ pc = "idle"
      /\ ~NoGroup.exists /\ \A c \in Child : ~children[c].exists
  BY DEF Init, NoGroup, NoChild
<1>2. ~Undisturbed
  BY <1>1 DEF Undisturbed
<1>3. QED
  BY <1>1, <1>2, InitBase DEF IInv, Attended, FirstOwned, FirstConverges

\* What the reconciler reads from its cache, late as it may be, is enough to
\* act on (Base), and a reconcile that no write of the group has overtaken
\* ends with nothing left to do (Attended, FirstOwned, FirstConverges): the
\* invariant that the safety properties rest on.
THEOREM Invariance == Spec => []IInv
<1>1. IInv /\ [Next]_vars => IInv'
  BY BaseStep, AttendedStep, FirstOwnedStep, FirstConvergesStep DEF IInv
<1>2. QED BY <1>1, InitIInv, PTL DEF Spec

-----------------------------------------------------------------------------
(* Safety properties                                                        *)

\* A child is created only for the incarnation of the group that exists,
\* whatever the cache showed when the reconcile began.
THEOREM ChildrenOfLiveGroup == Spec => CreatedForLiveGroup
<1>1. Base /\ [Next]_vars =>
        [\A c \in Child : ~children[c].exists /\ children'[c].exists
                          => group.exists /\ children'[c].owner = group.uid]_vars
  <2> SUFFICES ASSUME Base, [Next]_vars, NEW c \in Child,
                      ~children[c].exists, children'[c].exists
               PROVE  group.exists /\ children'[c].owner = group.uid
    OBVIOUS
  <2>1. ReconcileChild /\ children'[c] = CreateOrUpdate(c)
    BY ChildWriter DEF Base
  <2>2. Held(mem, group)
    BY <2>1 DEF ReconcileChild, Base, Guarded
  <2>3. children'[c].owner = mem.uid
    BY <2>1 DEF CreateOrUpdate
  <2>4. QED BY <2>2, <2>3 DEF Held
<1>2. QED BY <1>1, BaseInvariance, PTL DEF Spec, CreatedForLiveGroup

\* No reconcile writes into a child a spec older than the one it has.
THEOREM SpecsMoveForward == Spec => NoSpecRollback
<1>1. Base /\ [Next]_vars =>
        [\A c \in Child : children[c].exists /\ children'[c].exists
                          => children'[c].from >= children[c].from]_vars
  <2> SUFFICES ASSUME Base, [Next]_vars, NEW c \in Child,
                      children[c].exists, children'[c].exists
               PROVE  children'[c].from >= children[c].from
    OBVIOUS
  <2>1. children[c].from \in Nat
    BY DEF Base, TypeOK, Children
  <2>2. CASE children'[c] = children[c]
    BY <2>1, <2>2
  <2>3. CASE ReconcileChild /\ children'[c] = CreateOrUpdate(c)
    <3>1. children'[c].from = mem.gen BY <2>3 DEF CreateOrUpdate
    <3>2. mem.gen \in Nat BY DEF Base, TypeOK, Groups
    <3>3. QED BY <2>1, <3>1, <3>2 DEF Base, WrittenFromPast
  <2>4. QED BY <2>1, <2>2, <2>3, ChildWriter DEF Base
<1>2. QED BY <1>1, BaseInvariance, PTL DEF Spec, NoSpecRollback

\* How an accepted write of the group moves the phase of the protocol.
LEMMA StatusPhase ==
  ASSUME TypeOK, NEW st \in Statuses, UpdateStatus(st)
  PROVE  Phase' = Phase
  BY StatusEffect DEF Phase

\* The controller implements the finalizer protocol.
THEOREM ImplementsFinalizerProtocol == Spec => FollowsFinalizerProtocol
<1> DEFINE deps == {c \in Child : children[c].exists}
<1>1. Init => Protocol!Init
  <2> SUFFICES ASSUME Init PROVE Phase = "absent" /\ deps = {}
    BY DEF Protocol!Init
  <2>1. ~group.exists BY DEF Init, NoGroup
  <2>2. \A c \in Child : ~children[c].exists BY DEF Init, NoChild
  <2>3. QED BY <2>1, <2>2 DEF Phase
<1>2. Base /\ [Next]_vars => [Protocol!Next]_(Protocol!vars)
  <2> SUFFICES ASSUME Base, [Next]_vars
               PROVE  Protocol!Next \/ (Phase' = Phase /\ deps' = deps)
    BY DEF Protocol!vars
  <2>t. /\ TypeOK /\ Guarded /\ DeletionSeen /\ Snapshot(mem, group)
        /\ group \in Groups /\ group' \in Groups
    BY NextType DEF Base, TypeOK
  <2>1. ASSUME NEW s \in Specs, CreateGroup(s) PROVE Protocol!Create
    BY <2>1 DEF CreateGroup, Phase, Protocol!Create, Protocol!Become
  <2>2. ASSUME NEW s \in Specs, EditSpec(s) PROVE Phase' = Phase /\ deps' = deps
    BY <2>2, <2>t DEF EditSpec, Bump, Phase, Groups
  <2>3. CASE DeleteGroup
    <3>1. CASE group.fin
      BY <2>3, <2>t, <3>1
      DEF DeleteGroup, Bump, Phase, Groups, Protocol!Next, Protocol!Terminate,
          Protocol!Become
    <3>2. CASE ~group.fin
      BY <2>3, <2>t, <3>2
      DEF DeleteGroup, Phase, Groups, Protocol!Next, Protocol!Abandon,
          Protocol!Become
    <3>3. QED BY <3>1, <3>2
  <2>4. CASE \/ InitialiseStatus \/ MarkRunning \/ MarkFailed \/ MarkDeleting
    <3>1. /\ "Initializing" \in Statuses /\ "Running" \in Statuses
          /\ FailureStatus \in Statuses /\ "Deleting" \in Statuses
      BY DEF Statuses, FailureStatus
    <3>2. Phase' = Phase
      BY <2>4, <2>t, <3>1, StatusPhase
      DEF InitialiseStatus, MarkRunning, MarkFailed, MarkDeleting
    <3>3. deps' = deps
      BY <2>4 DEF InitialiseStatus, MarkRunning, MarkFailed, MarkDeleting
    <3>4. QED BY <3>2, <3>3
  <2>5. CASE EnsureFinalizer
    <3>1. CASE UNCHANGED <<group, children>>
      BY <3>1 DEF Phase
    <3>2. CASE ~mem.fin /\ Accepted([group EXCEPT !.fin = TRUE])
      <4>1. group.exists /\ ~group.fin /\ ~group.deleting
        BY <2>5, <2>t, <3>2
        DEF EnsureFinalizer, Accepted, Current, Snapshot, Guarded, Groups
      <4>2. group'.exists /\ group'.fin /\ ~group'.deleting
        BY <2>t, <3>2, <4>1 DEF Accepted, Bump, Groups
      <4>3. Protocol!Guard
        BY <2>5, <4>1, <4>2
        DEF EnsureFinalizer, Phase, Protocol!Guard, Protocol!Become
      <4>4. QED BY <4>3 DEF Protocol!Next
    <3>3. QED BY <2>5, <3>1, <3>2 DEF EnsureFinalizer
  <2>6. CASE ReconcileChild
    <3>1. Held(mem, group)
      BY <2>6, <2>t DEF ReconcileChild, Guarded
    <3>2. Phase \in {"guarded", "terminating"}
      BY <3>1 DEF Held, Phase
    <3>3. Phase' = Phase
      BY <2>6 DEF ReconcileChild, Phase
    <3>4. todo \in Child
      BY <2>6, <2>t, GroupAssumption DEF ReconcileChild, TypeOK, Last, Child
    <3>5. deps' = deps \/ deps' = deps \cup {todo}
      <4>1. children' \in {children, [children EXCEPT ![todo] = CreateOrUpdate(todo)]}
        BY <2>6 DEF ReconcileChild
      <4>2. CreateOrUpdate(todo).exists
        BY DEF CreateOrUpdate
      <4>3. CASE children' = [children EXCEPT ![todo] = CreateOrUpdate(todo)]
        <5>1. \A c \in Child : children'[c].exists <=> children[c].exists \/ c = todo
          BY <2>t, <4>2, <4>3, <3>4 DEF TypeOK
        <5>2. QED BY <5>1, <3>4
      <4>4. QED BY <4>1, <4>3
    <3>6. CASE deps' # deps
      <4>1. todo \notin deps /\ deps' = deps \cup {todo}
        BY <3>5, <3>6
      <4>2. QED
        BY <4>1, <3>2, <3>3, <3>4 DEF Protocol!Next, Protocol!Produce
    <3>7. QED BY <3>3, <3>6
  <2>7. CASE CleanupChild
    <3>1. \A c \in Child : children'[c].exists = children[c].exists
      BY <2>7, <2>t DEF CleanupChild, TypeOK, Children
    <3>2. deps' = deps BY <3>1
    <3>3. QED BY <2>7, <3>2 DEF CleanupChild, Phase
  <2>8. CASE RemoveFinalizer
    <3>1. CASE UNCHANGED <<group, children>>
      BY <3>1 DEF Phase
    <3>2. CASE Accepted([group EXCEPT !.fin = FALSE, !.exists = ~group.deleting])
      <4>1. group.exists /\ group.deleting /\ group.fin
        BY <2>8, <2>t, <3>2
        DEF RemoveFinalizer, Accepted, Current, Snapshot, DeletionSeen, Guarded
      <4>2. ~group'.exists
        BY <2>t, <3>2, <4>1 DEF Accepted, Bump, Groups
      <4>3. Protocol!Release
        BY <2>8, <4>1, <4>2
        DEF RemoveFinalizer, Phase, Protocol!Release, Protocol!Become
      <4>4. QED BY <4>3 DEF Protocol!Next
    <3>3. QED BY <2>8, <3>1, <3>2 DEF RemoveFinalizer
  <2>9. ASSUME NEW c \in Child, ComponentDone(c) PROVE Protocol!Next
    <3>1. c \in deps /\ deps' = deps \ {c}
      BY <2>9, <2>t DEF ComponentDone, TypeOK, NoChild
    <3>2. Phase' = Phase BY <2>9 DEF ComponentDone, Phase
    <3>3. QED BY <3>1, <3>2 DEF Protocol!Next, Protocol!Reclaim
  <2>10. ASSUME NEW c \in Child, GarbageCollect(c) PROVE deps' = deps /\ Phase' = Phase
    <3>1. \A d \in Child : children'[d].exists = children[d].exists
      BY <2>10, <2>t DEF GarbageCollect, TypeOK, Children
    <3>2. deps' = deps BY <3>1
    <3>3. QED BY <2>10, <3>2 DEF GarbageCollect, Phase
  <2>11. CASE UNCHANGED <<group, children>>
    BY <2>11 DEF Phase
  <2>12. QED
    BY <2>1, <2>2, <2>3, <2>4, <2>5, <2>6, <2>7, <2>8, <2>9, <2>10, <2>11
    DEF Next, User, Reconciler, Environment, vars, CacheSync, StartReconcile,
        ChildrenReconciled, CleanupDone, OperatorCrash, Protocol!Next
<1>3. QED
  BY <1>1, <1>2, BaseInvariance, PTL DEF Spec, FollowsFinalizerProtocol, Protocol!Spec

\* When the operator rests, the group reports RUNNING, whatever conflicts,
\* failed calls and crashes came before, as long as no status write has failed
\* but for a conflict: the code logs a failed status write and forgets it.
THEOREM RestingGroupRuns == Spec => [](StatusTold => QuietMeansRunning)
<1>1. IInv => (StatusTold => QuietMeansRunning)
  BY DEF IInv, Attended, QuietMeansRunning, Quiet, Undisturbed
<1>2. QED BY <1>1, Invariance, PTL

\* When the operator rests, the first group of its name has every listed
\* component as its current spec builds it, whatever edits, conflicts, failed
\* calls and crashes came before. (The children of an earlier incarnation may
\* still be marked when a later one finds them.)
THEOREM RestingGroupConverged == Spec => [](group.uid = 1 => QuietMeansConverged)
<1>1. IInv => (group.uid = 1 => QuietMeansConverged)
  BY DEF IInv, FirstConverges, QuietMeansConverged, Quiet, Managed,
         Undisturbed, Passed
<1>2. QED BY <1>1, Invariance, PTL

\* A group marked for deletion is never at rest: as long as it exists, the
\* operator works on it, has its key queued, or is yet to be told.
THEOREM MarkedGroupIsAttended ==
  Spec => [](Quiet /\ group.exists => ~group.deleting)
<1>1. IInv => (Quiet /\ group.exists => ~group.deleting)
  BY DEF IInv, Attended, Quiet, Undisturbed
<1>2. QED BY <1>1, Invariance, PTL

=============================================================================
