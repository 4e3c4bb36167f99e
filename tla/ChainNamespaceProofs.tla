------------------------ MODULE ChainNamespaceProofs ------------------------
(***************************************************************************)
(* Theorems about ChainNamespace, for any set of specs, any set of flaky   *)
(* outside resources and any bounds: the inductive invariant, that the     *)
(* operator never gives up on a resource, and that the controller          *)
(* implements Submission.                                                  *)
(***************************************************************************)
EXTENDS ChainNamespace, TLAPS

\* Marshalling a stored spec gives a stored spec: it is idempotent.
LEMMA MarshalledType ==
  ASSUME NEW s \in StoredSpecs
  PROVE  Marshalled(s) \in StoredSpecs
<1>1. CASE s \in Specs
  BY <1>1 DEF StoredSpecs
<1>2. CASE \E t \in Specs : s = Marshalled(t)
  <2>1. PICK t \in Specs : s = Marshalled(t)
    BY <1>2
  <2>2. t \in NamespaceSpec /\ t.version \in Int
    BY NamespaceAssumption DEF NamespaceSpec
  <2>3. s.version # 0
    BY <2>1, <2>2 DEF Marshalled, NamespaceSpec
  <2>4. s \in [complete : BOOLEAN, tls : {"off", "incomplete", "on"},
               keyPath : BOOLEAN, version : Int]
    BY <2>1, <2>2 DEF Marshalled, NamespaceSpec
  <2>5. Marshalled(s) = s
    BY <2>3, <2>4 DEF Marshalled
  <2>6. QED BY <2>5
<1>3. QED BY <1>1, <1>2 DEF StoredSpecs

\* The writes of the resource keep its type.
LEMMA WriteType ==
  ASSUME NEW n \in Namespaces, NEW s \in StoredSpecs, NEW t \in Nat,
         NEW a \in BOOLEAN, NEW b \in BOOLEAN
  PROVE  /\ [n EXCEPT !.spec = s] \in Namespaces
         /\ [n EXCEPT !.deleting = a] \in Namespaces
         /\ [n EXCEPT !.exists = a] \in Namespaces
         /\ [n EXCEPT !.fin = TRUE, !.spec = s] \in Namespaces
         /\ [n EXCEPT !.status = "Deployed", !.txID = t] \in Namespaces
         /\ [n EXCEPT !.status = "Failed", !.txID = 0] \in Namespaces
         /\ [n EXCEPT !.fin = a, !.exists = b, !.spec = s] \in Namespaces
BY DEF Namespaces

\* The outcomes of a write by the reconciler.
LEMMA AnswerType ==
  ASSUME TypeOK, NEW n \in Namespaces, NEW kind,
         Accepted(n) \/ Refused(kind, n)
  PROVE  /\ ns' \in Namespaces /\ mem' \in Namespaces
         /\ fresh' \subseteq {"cache", "mem"} /\ faults' \in Nat
<1>1. ns \in Namespaces /\ mem \in Namespaces /\ faults \in Nat
  BY DEF TypeOK
<1>2. fresh \subseteq {"cache", "mem"}
  BY DEF TypeOK
<1>3. faults' \in Nat
  BY <1>1 DEF Accepted, Refused, Fault
<1>4. ns' \in Namespaces /\ mem' \in Namespaces
  BY <1>1 DEF Accepted, Refused, Written
<1>5. fresh' \in {fresh, {}, {"mem"}}
  BY DEF Accepted, Refused, Written
<1>6. QED BY <1>2, <1>3, <1>4, <1>5

LEMMA NoNamespaceType == NoNamespace \in Namespaces
<1>1. (CHOOSE t \in Specs : TRUE) \in StoredSpecs
  BY NamespaceAssumption DEF StoredSpecs
<1>2. QED BY <1>1 DEF NoNamespace, Namespaces

LEMMA InitType == Init => TypeOK
<1> SUFFICES ASSUME Init PROVE TypeOK
  OBVIOUS
<1>1. <<>> \in Seq([uid : Nat, body : Bodies])
  OBVIOUS
<1>2. QED BY <1>1, NoNamespaceType DEF Init, TypeOK, PCs

LEMMA NextType == TypeOK /\ [Next]_vars => TypeOK'
<1> SUFFICES ASSUME TypeOK, [Next]_vars PROVE TypeOK'
  OBVIOUS
<1> USE DEF Goto
<1>0. /\ ns \in Namespaces /\ mem \in Namespaces /\ cache \in Namespaces
      /\ fresh \subseteq {"cache", "mem"}
      /\ mem.spec \in StoredSpecs /\ mem.uid \in Nat /\ ns.uid \in Nat
      /\ txID \in Nat /\ edits \in Nat /\ faults \in Nat /\ stale \in Nat
  BY DEF TypeOK, Namespaces
<1>1. ASSUME NEW s \in Specs, CreateNamespace(s) PROVE TypeOK'
  <2>1. s \in StoredSpecs BY DEF StoredSpecs
  <2>2. ns' \in Namespaces
    <3>1. NoNamespace \in Namespaces BY NoNamespaceType
    <3>2. /\ ns.uid + 1 \in Nat
          /\ ns' = [NoNamespace EXCEPT !.exists = TRUE, !.uid = ns.uid + 1,
                                       !.spec = s]
      BY <1>0, <1>1 DEF CreateNamespace, Written
    <3>3. QED BY <2>1, <3>1, <3>2 DEF Namespaces
  <2>3. QED BY <1>1, <2>2 DEF CreateNamespace, Written, TypeOK
<1>2. ASSUME NEW s \in Specs, EditSpec(s) PROVE TypeOK'
  <2>1. s \in StoredSpecs BY DEF StoredSpecs
  <2>2. ns' \in Namespaces
    BY <1>0, <1>2, <2>1, WriteType DEF EditSpec, Written
  <2>3. QED BY <1>0, <1>2, <2>2 DEF EditSpec, Written, TypeOK
<1>3. CASE DeleteNamespace
  <2>1. ns' \in Namespaces
    BY <1>0, <1>3, WriteType DEF DeleteNamespace, Written
  <2>2. QED BY <1>3, <2>1 DEF DeleteNamespace, Written, TypeOK
<1>4. ASSUME NEW r \in Flaky, Toggle(r) PROVE TypeOK'
  BY <1>4, NamespaceAssumption DEF Toggle, TypeOK
<1>5. CASE CacheSync
  BY <1>5 DEF CacheSync, TypeOK
<1>6. CASE StartReconcile
  <2>1. pc' \in PCs
    <3>1. CASE ~cache.exists
      BY <1>6, <3>1 DEF StartReconcile, PCs
    <3>2. CASE cache.exists /\ cache.deleting
      BY <1>6, <3>2 DEF StartReconcile, PCs
    <3>3. CASE cache.exists /\ ~cache.deleting
      BY <1>6, <3>3 DEF StartReconcile, PCs
    <3>4. QED BY <3>1, <3>2, <3>3
  <2>2. stale' \in Nat
    BY <1>0, <1>6 DEF StartReconcile
  <2>3. fresh' \subseteq {"cache", "mem"}
    BY <1>6 DEF StartReconcile
  <2>4. QED BY <1>0, <1>6, <2>1, <2>2, <2>3 DEF StartReconcile, TypeOK
<1>7. CASE EnsureFinalizer
  <2> DEFINE guarded == [ns EXCEPT !.fin = TRUE, !.spec = Marshalled(mem.spec)]
  <2>1. guarded \in Namespaces
    BY <1>0, WriteType, MarshalledType
  <2>2. /\ ns' \in Namespaces /\ mem' \in Namespaces
        /\ fresh' \subseteq {"cache", "mem"} /\ faults' \in Nat
    <3>1. CASE mem.fin BY <1>0, <1>7, <3>1 DEF EnsureFinalizer
    <3>2. CASE Accepted(guarded) \/ Refused("object", guarded)
      <4> HIDE DEF guarded
      <4>1. QED BY <2>1, <3>2, AnswerType
    <3>3. QED BY <1>7, <3>1, <3>2 DEF EnsureFinalizer
  <2>3. queue' \in BOOLEAN /\ pc' \in PCs
    BY <1>7 DEF EnsureFinalizer, Fail, TypeOK, PCs
  <2>4. QED BY <1>7, <2>2, <2>3 DEF EnsureFinalizer, TypeOK
<1>8. CASE PrepareEnvelope
  BY <1>0, <1>8 DEF PrepareEnvelope, Done, Fault, TypeOK, PCs
<1>9. CASE Broadcast
  <2> DEFINE envelope == [uid |-> mem.uid, body |-> createNamespacesTx(mem.spec)]
  <2>1. envelope \in [uid : Nat, body : Bodies]
    BY <1>0 DEF Bodies
  <2>2. chain \in Seq([uid : Nat, body : Bodies]) /\ Len(chain) + 1 \in Nat
    BY DEF TypeOK
  <2>3. Append(chain, envelope) \in Seq([uid : Nat, body : Bodies])
    BY <2>1, <2>2
  <2>4. chain' \in Seq([uid : Nat, body : Bodies])
    BY <1>9, <2>2, <2>3 DEF Broadcast
  <2>5. txID' \in Nat /\ faults' \in Nat /\ pc' \in PCs
    BY <1>0, <1>9, <2>2 DEF Broadcast, Fault, PCs
  <2>6. QED BY <1>9, <2>4, <2>5 DEF Broadcast, TypeOK
<1>10. CASE MarkDeployed
  <2> DEFINE recorded == [ns EXCEPT !.status = "Deployed", !.txID = txID]
  <2>1. recorded \in Namespaces
    BY <1>0, WriteType
  <2>2. Accepted(recorded) \/ Refused("status", recorded)
    BY <1>10 DEF MarkDeployed
  <2>3. /\ ns' \in Namespaces /\ mem' \in Namespaces
        /\ fresh' \subseteq {"cache", "mem"} /\ faults' \in Nat
    <3> HIDE DEF recorded
    <3>1. QED BY <2>1, <2>2, AnswerType
  <2>4. QED BY <1>10, <2>3 DEF MarkDeployed, Done, Fail, TypeOK, PCs
<1>11. CASE MarkFailed
  <2> DEFINE recorded == [ns EXCEPT !.status = "Failed", !.txID = 0]
  <2>1. recorded \in Namespaces
    BY <1>0, WriteType
  <2>2. \/ Accepted(recorded) \/ Refused("status", recorded)
        \/ UNCHANGED <<ns, mem, fresh, faults>>
    BY <1>11 DEF MarkFailed
  <2>3. /\ ns' \in Namespaces /\ mem' \in Namespaces
        /\ fresh' \subseteq {"cache", "mem"} /\ faults' \in Nat
    <3> HIDE DEF recorded
    <3>1. QED BY <1>0, <2>1, <2>2, AnswerType
  <2>4. QED BY <1>11, <2>3 DEF MarkFailed, Fail, TypeOK, PCs
<1>12. CASE HandleDeletion
  <2> DEFINE released == [ns EXCEPT !.fin = FALSE, !.exists = ~ns.deleting,
                                    !.spec = Marshalled(mem.spec)]
  <2>1. FALSE \in BOOLEAN /\ (~ns.deleting) \in BOOLEAN
    BY <1>0 DEF Namespaces
  <2>2. released \in Namespaces
    BY <1>0, <2>1, WriteType, MarshalledType
  <2>3. Accepted(released) \/ Refused("object", released)
    BY <1>12 DEF HandleDeletion
  <2>4. /\ ns' \in Namespaces /\ mem' \in Namespaces
        /\ fresh' \subseteq {"cache", "mem"} /\ faults' \in Nat
    <3> HIDE DEF released
    <3>1. QED BY <2>2, <2>3, AnswerType
  <2>5. QED BY <1>12, <2>4 DEF HandleDeletion, Done, Fail, TypeOK, PCs
<1>13. CASE OperatorCrash
  <2>1. ns.exists \in BOOLEAN BY <1>0 DEF Namespaces
  <2>2. QED BY <1>0, <1>13, <2>1 DEF OperatorCrash, Fault, TypeOK, PCs
<1>14. CASE UNCHANGED vars
  BY <1>14 DEF vars, TypeOK
<1>15. QED
  BY <1>1, <1>2, <1>3, <1>4, <1>5, <1>6, <1>7, <1>8, <1>9, <1>10, <1>11,
     <1>12, <1>13, <1>14 DEF Next, Outside, Reconciler

-----------------------------------------------------------------------------

LEMMA InitInv == Init => IInv
<1> SUFFICES ASSUME Init PROVE IInv
  OBVIOUS
<1>1. TypeOK BY InitType
<1>2. DOMAIN chain = {} BY DEF Init
<1>3. /\ ~NoNamespace.exists /\ NoNamespace.uid = 0 /\ ~NoNamespace.fin
      /\ NoNamespace.txID = 0 /\ NoNamespace.status # "Deployed"
  BY DEF NoNamespace
<1>4. FreshIsCurrent /\ Guarded /\ DeletionSeen
  <2>1. FreshIsCurrent BY DEF Init, FreshIsCurrent
  <2>2. Guarded BY <1>3 DEF Init, Guarded
  <2>3. DeletionSeen BY <1>3 DEF Init, DeletionSeen
  <2>4. QED BY <2>1, <2>2, <2>3
<1>5. Recorded /\ Owed
  BY <1>2, <1>3 DEF Init, Recorded, Owed
<1>6. QED BY <1>1, <1>4, <1>5 DEF IInv

\* The incarnations of the envelopes are numbers.
LEMMA ChainType ==
  ASSUME TypeOK
  PROVE  \A i \in DOMAIN chain : chain[i].uid \in Nat /\ i # 0
<1>1. chain \in Seq([uid : Nat, body : Bodies])
  BY DEF TypeOK
<1>2. \A i \in DOMAIN chain : i \in 1 .. Len(chain) /\ Len(chain) \in Nat
  BY <1>1
<1>3. ASSUME NEW i \in DOMAIN chain PROVE chain[i].uid \in Nat
  <2> DEFINE Envelope == [uid : Nat, body : Bodies]
  <2>1. \A e \in Envelope : e.uid \in Nat
    OBVIOUS
  <2>2. chain \in Seq(Envelope)
    BY <1>1
  <2> HIDE DEF Envelope
  <2>3. chain[i] \in Envelope
    BY <1>2, <2>2
  <2>4. QED BY <2>1, <2>3
<1>4. QED BY <1>2, <1>3

\* An envelope added to the chain leaves those before it where they are.
LEMMA ChainGrows ==
  ASSUME TypeOK, NEW e, chain' = Append(chain, e)
  PROVE  /\ DOMAIN chain' = DOMAIN chain \cup {Len(chain) + 1}
         /\ \A i \in DOMAIN chain : chain'[i] = chain[i]
         /\ chain'[Len(chain) + 1] = e
         /\ Len(chain) + 1 \in Nat \ {0}
<1>1. chain \in Seq([uid : Nat, body : Bodies])
  BY DEF TypeOK
<1>2. /\ Len(chain) \in Nat /\ DOMAIN chain = 1 .. Len(chain)
      /\ DOMAIN chain' = 1 .. (Len(chain) + 1)
  BY <1>1
<1>3. QED BY <1>1, <1>2

LEMMA InductiveStep == IInv /\ [Next]_vars => IInv'
<1> SUFFICES ASSUME IInv, [Next]_vars PROVE IInv'
  OBVIOUS
<1> USE DEF Goto
<1>0. TypeOK /\ FreshIsCurrent /\ Guarded /\ DeletionSeen /\ Recorded /\ Owed
  BY DEF IInv
<1>t. TypeOK' BY <1>0, NextType
<1>n. /\ ns \in Namespaces /\ mem \in Namespaces /\ cache \in Namespaces
      /\ ns.uid \in Nat /\ mem.uid \in Nat /\ cache.uid \in Nat
      /\ txID \in Nat
      /\ \A i \in DOMAIN chain : chain[i].uid \in Nat
      /\ 0 \notin DOMAIN chain
  BY <1>0, ChainType DEF TypeOK, Namespaces
<1>1. ASSUME NEW s \in Specs, CreateNamespace(s) PROVE IInv'
  <2>1. /\ ns'.exists /\ ns'.uid = ns.uid + 1 /\ ~ns'.fin /\ ~ns'.deleting
        /\ ns'.status # "Deployed" /\ ns'.txID = 0
    BY <1>1, <1>n, NoNamespaceType
    DEF CreateNamespace, Written, NoNamespace, Namespaces
  <2>2. /\ ~ns.exists /\ fresh' = {}
        /\ UNCHANGED <<cache, mem, queue, pc, txID, chain>>
    BY <1>1 DEF CreateNamespace, Written
  <2>3. /\ ns.uid \in Nat /\ mem.uid \in Nat /\ cache.uid \in Nat
        /\ \A i \in DOMAIN chain : chain[i].uid \in Nat
    BY <1>n
  <2>4. FreshIsCurrent' BY <2>2 DEF FreshIsCurrent
  <2>5. Guarded' BY <1>0, <2>1, <2>2 DEF Guarded, Held
  <2>6. DeletionSeen' BY <1>0, <2>1, <2>2, <2>3 DEF DeletionSeen
  <2>7. Recorded' BY <1>0, <2>1, <2>2, <2>3 DEF Recorded, OwnEnvelope
  <2>8. Owed' BY <2>2 DEF Owed
  <2>9. QED BY <1>t, <2>4, <2>5, <2>6, <2>7, <2>8 DEF IInv
<1>2. ASSUME NEW s \in Specs, EditSpec(s) PROVE IInv'
  <2> USE <1>2 DEF EditSpec, Written
  <2>1. /\ ns'.exists = ns.exists /\ ns'.uid = ns.uid /\ ns'.fin = ns.fin
        /\ ns'.deleting = ns.deleting /\ ns'.status = ns.status
        /\ ns'.txID = ns.txID
    BY <1>n DEF Namespaces
  <2>2. FreshIsCurrent' BY DEF FreshIsCurrent
  <2>3. Guarded' BY <1>0, <2>1 DEF Guarded, Held
  <2>4. DeletionSeen' BY <1>0, <2>1 DEF DeletionSeen
  <2>5. Recorded' BY <1>0, <2>1 DEF Recorded, OwnEnvelope
  <2>6. Owed' BY DEF Owed
  <2>7. QED BY <1>t, <2>2, <2>3, <2>4, <2>5, <2>6 DEF IInv
<1>3. CASE DeleteNamespace
  <2> USE <1>3 DEF DeleteNamespace, Written
  <2>1. /\ ns'.exists = ns.fin /\ ns'.uid = ns.uid /\ ns'.fin = ns.fin
        /\ ns.fin => ns'.deleting
        /\ ns'.status = ns.status /\ ns'.txID = ns.txID
    BY <1>n DEF Namespaces
  <2>2. FreshIsCurrent' BY DEF FreshIsCurrent
  <2>3. Guarded' BY <1>0, <2>1 DEF Guarded, Held
  <2>4. DeletionSeen' BY <1>0, <2>1 DEF DeletionSeen
  <2>5. Recorded' BY <1>0, <2>1 DEF Recorded, OwnEnvelope
  <2>6. Owed' BY DEF Owed
  <2>7. QED BY <1>t, <2>2, <2>3, <2>4, <2>5, <2>6 DEF IInv
<1>4. ASSUME NEW r \in Flaky, Toggle(r) PROVE IInv'
  <2> USE <1>4 DEF Toggle
  <2>1. FreshIsCurrent' /\ Guarded' /\ DeletionSeen'
    BY <1>0 DEF FreshIsCurrent, Guarded, Held, DeletionSeen
  <2>2. Recorded' /\ Owed'
    BY <1>0 DEF Recorded, OwnEnvelope, Owed, Deployed
  <2>3. QED BY <1>t, <2>1, <2>2 DEF IInv
<1>5. CASE CacheSync
  <2> USE <1>5 DEF CacheSync
  <2>1. FreshIsCurrent' BY <1>0 DEF FreshIsCurrent
  <2>2. Guarded' BY <1>0 DEF Guarded, Held
  <2>3. DeletionSeen' BY <1>0, <1>n DEF DeletionSeen
  <2>4. Recorded' BY <1>0 DEF Recorded, OwnEnvelope
  <2>5. Owed' BY DEF Owed
  <2>6. QED BY <1>t, <2>1, <2>2, <2>3, <2>4, <2>5 DEF IInv
<1>6. CASE StartReconcile
  <2>1. /\ pc = "idle" /\ ~queue' /\ mem' = cache
        /\ fresh' = IF "cache" \in fresh THEN {"cache", "mem"} ELSE {}
        /\ UNCHANGED <<ns, cache, txID, chain>>
    BY <1>6 DEF StartReconcile
  <2>2. /\ ~cache.exists => pc' = "idle"
        /\ cache.exists /\ cache.deleting /\ cache.fin => pc' = "deletion"
        /\ cache.exists /\ cache.deleting /\ ~cache.fin => pc' = "idle"
        /\ cache.exists /\ ~cache.deleting => pc' = "finalizer"
    BY <1>6 DEF StartReconcile
  <2>3. FreshIsCurrent' BY <1>0, <2>1 DEF FreshIsCurrent
  <2>4. Guarded' BY <1>0, <2>1, <2>2 DEF Guarded, Held
  <2>5. DeletionSeen' BY <1>0, <1>n, <2>1, <2>2 DEF DeletionSeen
  <2>6. Recorded' BY <1>0, <2>1, <2>2 DEF Recorded, OwnEnvelope
  <2>7. Owed'
    BY <1>0, <2>1, <2>2 DEF Owed, FreshIsCurrent, Guarded, Deployed
  <2>8. QED BY <1>t, <2>3, <2>4, <2>5, <2>6, <2>7 DEF IInv
<1>7. CASE EnsureFinalizer
  <2> DEFINE guarded == [ns EXCEPT !.fin = TRUE, !.spec = Marshalled(mem.spec)]
  <2>1. /\ pc = "finalizer" /\ UNCHANGED <<cache, txID, chain>>
        /\ \/ mem.fin /\ pc' = "deploy" /\ UNCHANGED <<ns, mem, fresh, queue>>
           \/ /\ Current /\ pc' = "deploy" /\ fresh' = {"mem"}
              /\ ns' = guarded /\ mem' = guarded
           \/ /\ pc' = "idle" /\ queue' /\ UNCHANGED mem
              /\ UNCHANGED <<ns, fresh>> \/ (ns' = guarded /\ fresh' = {})
    BY <1>7 DEF EnsureFinalizer, Accepted, Refused, Written, Fail
  <2>2. /\ guarded.exists = ns.exists /\ guarded.uid = ns.uid /\ guarded.fin
        /\ guarded.deleting = ns.deleting /\ guarded.status = ns.status
        /\ guarded.txID = ns.txID
    BY <1>n DEF Namespaces
  <2> HIDE DEF guarded
  <2>3. FreshIsCurrent' BY <1>0, <2>1 DEF FreshIsCurrent
  <2>4. Guarded' BY <1>0, <2>1, <2>2 DEF Guarded, Held, Current
  <2>5. DeletionSeen' BY <1>0, <1>n, <2>1, <2>2 DEF DeletionSeen
  <2>6. Recorded' BY <1>0, <2>1, <2>2 DEF Recorded, OwnEnvelope
  <2>7. Owed' BY <1>0, <2>1 DEF Owed
  <2>8. QED BY <1>t, <2>3, <2>4, <2>5, <2>6, <2>7 DEF IInv
<1>8. CASE PrepareEnvelope
  <2>1. /\ pc = "deploy" /\ UNCHANGED <<ns, cache, mem, fresh, queue, txID, chain>>
        /\ \/ Deployed(mem) /\ pc' = "idle"
           \/ ~Deployed(mem) /\ pc' \in {"broadcast", "failed"}
    BY <1>8 DEF PrepareEnvelope, Done, Skip
  <2>2. FreshIsCurrent' BY <1>0, <2>1 DEF FreshIsCurrent
  <2>3. Guarded' BY <1>0, <2>1 DEF Guarded, Held
  <2>4. DeletionSeen' BY <1>0, <2>1 DEF DeletionSeen
  <2>5. Recorded' BY <1>0, <2>1 DEF Recorded, OwnEnvelope, Deployed
  <2>6. Owed' BY <1>0, <2>1 DEF Owed, Deployed
  <2>7. QED BY <1>t, <2>2, <2>3, <2>4, <2>5, <2>6 DEF IInv
<1>9. CASE Broadcast
  <2> DEFINE envelope == [uid |-> mem.uid, body |-> createNamespacesTx(mem.spec)]
  <2>1. /\ pc = "broadcast" /\ UNCHANGED <<ns, cache, mem, fresh, queue>>
        /\ \/ /\ pc' = "deployed" /\ chain' = Append(chain, envelope)
              /\ txID' = Len(chain) + 1
           \/ pc' = "failed" /\ chain' = Append(chain, envelope)
           \/ pc' = "failed" /\ UNCHANGED chain
    BY <1>9 DEF Broadcast
  <2>2. envelope.uid = mem.uid OBVIOUS
  <2> HIDE DEF envelope
  <2>3. FreshIsCurrent' BY <1>0, <2>1 DEF FreshIsCurrent
  <2>4. Guarded' BY <1>0, <2>1 DEF Guarded, Held
  <2>5. DeletionSeen' BY <1>0, <2>1 DEF DeletionSeen
  <2>6. ns.uid = mem.uid
    BY <1>0, <2>1 DEF Guarded, Held
  <2>7. Recorded'
    <3>1. CASE chain' = Append(chain, envelope)
      <4>1. /\ DOMAIN chain' = DOMAIN chain \cup {Len(chain) + 1}
            /\ \A i \in DOMAIN chain : chain'[i] = chain[i]
            /\ chain'[Len(chain) + 1] = envelope
        BY <1>0, <3>1, ChainGrows
      <4>2. \A i \in DOMAIN chain' : chain'[i].uid <= ns'.uid
        BY <1>0, <1>n, <2>1, <2>2, <2>6, <4>1 DEF Recorded
      <4>3. QED
        BY <1>0, <2>1, <2>2, <2>6, <4>1, <4>2 DEF Recorded, OwnEnvelope
    <3>2. CASE UNCHANGED chain
      BY <1>0, <2>1, <3>2, ChainGrows DEF Recorded, OwnEnvelope
    <3>3. QED BY <2>1, <3>1, <3>2
  <2>8. Owed' BY <1>0, <2>1 DEF Owed
  <2>9. QED BY <1>t, <2>3, <2>4, <2>5, <2>7, <2>8 DEF IInv
<1>10. CASE MarkDeployed
  <2> DEFINE recorded == [ns EXCEPT !.status = "Deployed", !.txID = txID]
  <2>1. /\ pc = "deployed" /\ pc' = "idle" /\ UNCHANGED <<cache, txID, chain>>
        /\ \/ Current /\ fresh' = {"mem"} /\ ns' = recorded /\ mem' = recorded
           \/ /\ queue' /\ UNCHANGED mem
              /\ \/ UNCHANGED <<ns, fresh>>
                 \/ Current /\ ns' = recorded /\ fresh' = {}
    BY <1>10 DEF MarkDeployed, Accepted, Refused, Written, Fail, Done
  <2>2. /\ recorded.exists = ns.exists /\ recorded.uid = ns.uid
        /\ recorded.fin = ns.fin /\ recorded.deleting = ns.deleting
        /\ recorded.status = "Deployed" /\ recorded.txID = txID
    BY <1>n DEF Namespaces
  <2> HIDE DEF recorded
  <2>3. FreshIsCurrent' BY <1>0, <2>1 DEF FreshIsCurrent
  <2>4. Guarded' BY <1>0, <2>1, <2>2 DEF Guarded, Held
  <2>5. DeletionSeen' BY <1>0, <1>n, <2>1, <2>2 DEF DeletionSeen
  <2>6. Recorded'
    BY <1>0, <1>n, <2>1, <2>2 DEF Recorded, OwnEnvelope, Current
  <2>7. Owed' BY <1>0, <2>1 DEF Owed
  <2>8. QED BY <1>t, <2>3, <2>4, <2>5, <2>6, <2>7 DEF IInv
<1>11. CASE MarkFailed
  <2> DEFINE recorded == [ns EXCEPT !.status = "Failed", !.txID = 0]
  <2>1. /\ pc = "failed" /\ pc' = "idle" /\ queue'
        /\ UNCHANGED <<cache, txID, chain>>
        /\ \/ fresh' = {"mem"} /\ ns' = recorded /\ mem' = recorded
           \/ UNCHANGED mem /\ UNCHANGED <<ns, fresh>>
           \/ UNCHANGED mem /\ ns' = recorded /\ fresh' = {}
    BY <1>11 DEF MarkFailed, Accepted, Refused, Written, Fail
  <2>2. /\ recorded.exists = ns.exists /\ recorded.uid = ns.uid
        /\ recorded.fin = ns.fin /\ recorded.deleting = ns.deleting
        /\ recorded.status = "Failed" /\ recorded.txID = 0
    BY <1>n DEF Namespaces
  <2> HIDE DEF recorded
  <2>3. FreshIsCurrent' BY <1>0, <2>1 DEF FreshIsCurrent
  <2>4. Guarded' BY <1>0, <2>1, <2>2 DEF Guarded, Held
  <2>5. DeletionSeen' BY <1>0, <1>n, <2>1, <2>2 DEF DeletionSeen
  <2>6. Recorded' BY <1>0, <2>1, <2>2 DEF Recorded, OwnEnvelope
  <2>7. Owed' BY <2>1 DEF Owed
  <2>8. QED BY <1>t, <2>3, <2>4, <2>5, <2>6, <2>7 DEF IInv
<1>12. CASE HandleDeletion
  <2> DEFINE released == [ns EXCEPT !.fin = FALSE, !.exists = ~ns.deleting,
                                    !.spec = Marshalled(mem.spec)]
  <2>1. /\ pc = "deletion" /\ pc' = "idle" /\ UNCHANGED <<cache, txID, chain>>
        /\ \/ Current /\ fresh' = {"mem"} /\ ns' = released /\ mem' = released
           \/ /\ queue' /\ UNCHANGED mem
              /\ \/ UNCHANGED <<ns, fresh>>
                 \/ Current /\ ns' = released /\ fresh' = {}
    BY <1>12 DEF HandleDeletion, Accepted, Refused, Written, Fail, Done
  <2>2. /\ released.exists = ~ns.deleting /\ released.uid = ns.uid
        /\ ~released.fin /\ released.deleting = ns.deleting
        /\ released.status = ns.status /\ released.txID = ns.txID
    BY <1>n DEF Namespaces
  <2>3. Current => ns.deleting
    BY <1>0, <2>1 DEF Current, DeletionSeen
  <2> HIDE DEF released
  <2>4. FreshIsCurrent' BY <1>0, <2>1 DEF FreshIsCurrent
  <2>5. Guarded'
    BY <1>0, <2>1, <2>2, <2>3 DEF Guarded, Held, DeletionSeen, Current
  <2>6. DeletionSeen' BY <1>0, <1>n, <2>1, <2>2, <2>3 DEF DeletionSeen
  <2>7. Recorded'
    BY <1>0, <2>1, <2>2, <2>3 DEF Recorded, OwnEnvelope
  <2>8. Owed' BY <1>0, <2>1 DEF Owed
  <2>9. QED BY <1>t, <2>4, <2>5, <2>6, <2>7, <2>8 DEF IInv
<1>13. CASE OperatorCrash
  <2> USE <1>13 DEF OperatorCrash
  <2>1. FreshIsCurrent' BY DEF FreshIsCurrent
  <2>2. Guarded' BY <1>0 DEF Guarded, Held
  <2>3. DeletionSeen' BY <1>0, <1>n DEF DeletionSeen
  <2>4. Recorded' BY <1>0 DEF Recorded, OwnEnvelope
  <2>5. Owed' BY DEF Owed
  <2>6. QED BY <1>t, <2>1, <2>2, <2>3, <2>4, <2>5 DEF IInv
<1>14. CASE UNCHANGED vars
  <2> USE <1>14 DEF vars
  <2>1. FreshIsCurrent' /\ Guarded' /\ DeletionSeen'
    BY <1>0 DEF FreshIsCurrent, Guarded, Held, DeletionSeen
  <2>2. Recorded' /\ Owed'
    BY <1>0 DEF Recorded, OwnEnvelope, Owed, Deployed
  <2>3. QED BY <1>t, <2>1, <2>2 DEF IInv
<1>15. QED
  BY <1>1, <1>2, <1>3, <1>4, <1>5, <1>6, <1>7, <1>8, <1>9, <1>10, <1>11,
     <1>12, <1>13, <1>14 DEF Next, Outside, Reconciler

\* What the controller believes about its resource is right whenever it acts
\* on it: the finalizer is in place, the recorded transaction was accepted
\* for this resource, and work that is owed is queued or on its way.
THEOREM Invariance == Spec => []IInv
BY InitInv, InductiveStep, PTL DEF Spec

\* The operator rests only when the resource is deployed (or gone).
THEOREM NeverGivesUp == Spec => []QuietMeansDeployed
<1>1. IInv => QuietMeansDeployed
  BY DEF IInv, Owed, QuietMeansDeployed, Quiet
<1>2. QED BY <1>1, Invariance, PTL

-----------------------------------------------------------------------------
(* Refinement                                                               *)

\* A step that changes none of what Submission sees.
LEMMA Invisible ==
  ASSUME ns'.exists = ns.exists, ns'.uid = ns.uid, ns'.fin = ns.fin,
         ns'.txID = ns.txID, chain' = chain
  PROVE  UNCHANGED Log!vars
BY DEF Log!vars

\* A status write by a reconciler that has broadcast is a Record, one that
\* has failed is not visible.
LEMMA Recording ==
  ASSUME IInv, pc = "deployed", Current, ns.txID = 0, chain' = chain,
         ns' = [ns EXCEPT !.status = "Deployed", !.txID = txID]
  PROVE  Log!Record
<1>1. /\ TypeOK /\ Guarded /\ Recorded
  BY DEF IInv
<1>2. /\ ns'.exists = ns.exists /\ ns'.uid = ns.uid /\ ns'.fin = ns.fin
      /\ ns'.txID = txID
  BY <1>1 DEF TypeOK, Namespaces
<1>3. ns.exists /\ ns.fin /\ ns.uid = mem.uid
  BY <1>1 DEF Guarded, Held
<1>4. txID \in DOMAIN chain /\ chain[txID].uid = ns.uid
  BY <1>1, <1>3 DEF Recorded, OwnEnvelope
<1>5. QED BY <1>2, <1>3, <1>4 DEF Log!Record

\* The resource disappears.
LEMMA Leaving ==
  ASSUME IInv, ns.exists, ~ns'.exists, chain' = chain
  PROVE  Log!Disappear
<1>1. ns.uid # 0 BY DEF IInv, Recorded
<1>2. QED BY <1>1 DEF Log!Disappear

\* The controller implements Submission: the transaction recorded for a
\* resource was accepted for that resource and is recorded for good, and
\* nothing is sent for a resource it does not hold.
THEOREM ImplementsSubmission == Spec => RecordsAcceptedTransaction
<1>1. Init => Log!Init
  <2>1. ~NoNamespace.exists
    BY DEF NoNamespace
  <2>2. QED BY <2>1 DEF Init, Log!Init
<1>2. IInv /\ [Next]_vars => [Log!Next]_(Log!vars)
  <2> SUFFICES ASSUME IInv, [Next]_vars
               PROVE  Log!Next \/ UNCHANGED Log!vars
    OBVIOUS
  <2> USE DEF Goto
  <2>0. /\ TypeOK /\ FreshIsCurrent /\ Guarded /\ DeletionSeen /\ Recorded
        /\ ns \in Namespaces /\ ns.uid \in Nat
    BY DEF IInv, TypeOK, Namespaces
  <2>1. ASSUME NEW s \in Specs, CreateNamespace(s) PROVE Log!Appear
    <3>1. /\ ns'.exists /\ ns'.uid = ns.uid + 1 /\ ~ns'.fin /\ ns'.txID = 0
          /\ ~ns.exists /\ chain' = chain
      BY <2>0, <2>1 DEF CreateNamespace, Written, NoNamespace, Namespaces
    <3>2. ns'.uid \in Nat \ {0} /\ \A i \in DOMAIN chain : chain[i].uid # ns'.uid
      <4>1. \A i \in DOMAIN chain : chain[i].uid \in Nat
        BY <2>0, ChainType
      <4>2. QED BY <2>0, <3>1, <4>1 DEF Recorded
    <3>3. QED BY <3>1, <3>2 DEF Log!Appear
  <2>2. ASSUME NEW s \in Specs, EditSpec(s) PROVE UNCHANGED Log!vars
    BY <2>0, <2>2, Invisible DEF EditSpec, Written, Namespaces
  <2>3. CASE DeleteNamespace
    <3>1. CASE ns.fin
      BY <2>0, <2>3, <3>1, Invisible DEF DeleteNamespace, Written, Namespaces
    <3>2. CASE ~ns.fin
      <4>1. ns.exists /\ ~ns'.exists /\ chain' = chain
        BY <2>0, <2>3, <3>2 DEF DeleteNamespace, Written, Namespaces
      <4>2. QED BY <4>1, Leaving DEF Log!Next
    <3>3. QED BY <3>1, <3>2
  <2>4. CASE UNCHANGED <<ns, chain>>
    BY <2>4, Invisible
  <2>5. CASE EnsureFinalizer
    <3> DEFINE guarded == [ns EXCEPT !.fin = TRUE, !.spec = Marshalled(mem.spec)]
    <3>1. chain' = chain /\ (ns' = ns \/ (Current /\ ns' = guarded))
      BY <2>5 DEF EnsureFinalizer, Accepted, Refused, Written
    <3>2. CASE ns' = ns
      BY <3>1, <3>2, <2>4
    <3>3. CASE Current /\ ns' = guarded
      <4>1. /\ ns'.exists = ns.exists /\ ns'.uid = ns.uid /\ ns'.fin
            /\ ns'.txID = ns.txID
        BY <2>0, <3>3 DEF Namespaces
      <4>2. ns.exists /\ ns.uid # 0
        BY <2>0, <3>3 DEF Current, Recorded
      <4>3. CASE ns.fin
        BY <3>1, <4>1, <4>3, <2>0, Invisible DEF Namespaces, Log!vars
      <4>4. CASE ~ns.fin
        <5>1. Log!Hold BY <3>1, <4>1, <4>2, <4>4 DEF Log!Hold
        <5>2. QED BY <5>1 DEF Log!Next
      <4>5. QED BY <4>3, <4>4
    <3>4. QED BY <3>1, <3>2, <3>3
  <2>6. CASE Broadcast
    <3> DEFINE envelope == [uid |-> mem.uid, body |-> createNamespacesTx(mem.spec)]
    <3>1. ns' = ns /\ (chain' = chain \/ chain' = Append(chain, envelope))
      BY <2>6 DEF Broadcast
    <3>2. CASE chain' = chain
      BY <3>1, <3>2, <2>4
    <3>3. CASE chain' = Append(chain, envelope)
      <4>1. ns.exists /\ ns.fin /\ ns.uid = mem.uid
        BY <2>0, <2>6 DEF Broadcast, Guarded, Held
      <4>2. createNamespacesTx(mem.spec) \in Bodies
        BY <2>0 DEF TypeOK, Namespaces, Bodies
      <4>3. Log!Submit
        BY <3>1, <3>3, <4>1, <4>2 DEF Log!Submit
      <4>4. QED BY <4>3 DEF Log!Next
    <3>4. QED BY <3>1, <3>2, <3>3
  <2>7. CASE MarkDeployed
    <3>1. /\ pc = "deployed" /\ chain' = chain
          /\ \/ ns' = ns
             \/ Current /\ ns' = [ns EXCEPT !.status = "Deployed", !.txID = txID]
      BY <2>7 DEF MarkDeployed, Accepted, Refused, Written
    <3>2. Current => ns.txID = 0
      BY <2>0, <3>1 DEF Current, FreshIsCurrent, Recorded
    <3>3. QED BY <3>1, <3>2, <2>4, Recording DEF Log!Next
  <2>8. CASE MarkFailed
    <3>1. /\ pc = "failed" /\ chain' = chain
          /\ \/ ns' = ns
             \/ Current /\ ns' = [ns EXCEPT !.status = "Failed", !.txID = 0]
      BY <2>8 DEF MarkFailed, Accepted, Refused, Written
    <3>2. Current => ns.txID = 0
      BY <2>0, <3>1 DEF Current, FreshIsCurrent, Recorded
    <3>3. /\ ns'.exists = ns.exists /\ ns'.uid = ns.uid /\ ns'.fin = ns.fin
          /\ ns'.txID = ns.txID
      BY <2>0, <3>1, <3>2 DEF Namespaces
    <3>4. QED BY <3>1, <3>3, Invisible
  <2>9. CASE HandleDeletion
    <3> DEFINE released == [ns EXCEPT !.fin = FALSE, !.exists = ~ns.deleting,
                                      !.spec = Marshalled(mem.spec)]
    <3>1. chain' = chain /\ (ns' = ns \/ (Current /\ ns' = released))
      BY <2>9 DEF HandleDeletion, Accepted, Refused, Written
    <3>2. Current => ns.exists /\ ns.deleting
      BY <2>0, <2>9 DEF HandleDeletion, Current, DeletionSeen
    <3>3. ns' = released => ns'.exists = ~ns.deleting
      BY <2>0 DEF Namespaces
    <3> HIDE DEF released
    <3>4. QED BY <3>1, <3>2, <3>3, <2>4, Leaving DEF Log!Next
  <2>10. QED
    BY <2>1, <2>2, <2>3, <2>4, <2>5, <2>6, <2>7, <2>8, <2>9
    DEF Next, Outside, Reconciler, vars, Toggle, CacheSync, StartReconcile,
        PrepareEnvelope, OperatorCrash, Log!Next
<1>3. QED
  BY <1>1, <1>2, Invariance, PTL DEF Spec, RecordsAcceptedTransaction, Log!Spec
=============================================================================
