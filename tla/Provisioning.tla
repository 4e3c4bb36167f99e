---------------------------- MODULE Provisioning ----------------------------
(***************************************************************************)
(* The controllers of Genesis, Identity, CAEnrollment, Endorser and CA     *)
(* resources, each with one resource, its users, the informers, the        *)
(* garbage collector and the faults: what they promise, and what holds.    *)
(***************************************************************************)
EXTENDS Genesis, Identity, CAEnrollment, Endorser, CA

Reconciler ==
  \/ kind = "genesis" /\ GenesisStep
  \/ kind = "identity" /\ IdentityStep
  \/ kind = "caenrollment" /\ CAEnrollmentStep
  \/ kind = "endorser" /\ EndorserStep
  \/ kind = "ca" /\ CAStep

Next ==
  \/ User \/ Reconciler \/ Environment
  \/ Expire

\* Watches deliver, the worker runs, Kubernetes collects garbage. Nobody has
\* to supply what a controller needs.
Fairness ==
  /\ WF_vars(CacheSync) /\ WF_vars(Reconciler)
  /\ WF_vars(\E o \in Object : ObjectSync(o))

Spec     == Init /\ [][Next]_vars
FairSpec == Spec /\ Fairness
-----------------------------------------------------------------------------
(* The invariant                                                            *)

Contents == Settings \cup {Unset, Due}

Objects ==
  [exists : BOOLEAN, owner : Nat, content : Contents, serial : Nat,
   made : SUBSET ((Input \cup Object) \X (Contents \cup Nat))]

TypeOK ==
  /\ kind \in Kinds
  /\ res \in Resources(kind) /\ cache \in Resources(kind)
  /\ mem \in Resources(kind) /\ fresh \subseteq {"cache", "mem"}
  /\ queue \in BOOLEAN /\ pc \in PCs
  /\ hand \in Seq(Nat)
  /\ objects \in [Object -> Objects] /\ seen \in [Object -> Objects]
  /\ seenFresh \subseteq Object
  /\ inputs \in [Input -> Nat]
  /\ troubles \in Nat

\* A copy that counts as current is the server's object; only the status in
\* memory may differ, after a write of it that failed or before one.
FreshIsCurrent ==
  /\ "cache" \in fresh => cache = res
  /\ "mem" \in fresh => mem = [res EXCEPT !.status = mem.status]
  /\ \A o \in seenFresh : seen[o] = objects[o]

\* The finalizer seen in the copy m is the one the resource carries.
Held(m) == res.exists /\ res.uid = m.uid /\ res.fin

Guarded ==
  /\ res.exists /\ res.deleting => res.fin
  /\ cache.exists /\ cache.fin /\ ~cache.deleting => Held(cache)
  /\ pc \in {"init", "finalizer"} /\ ~mem.deleting =>
       mem.exists /\ (mem.fin => Held(mem))
  /\ pc = "finalizer" => ~mem.deleting
  /\ pc \in {"work", "succeeded"} => Held(mem)

\* During the deletion of a resource the cache never shows it unmarked.
DeletionSeen ==
  /\ cache.uid <= res.uid /\ mem.uid <= res.uid
  /\ cache.exists /\ cache.deleting /\ res.exists /\ cache.uid = res.uid
       => res.deleting
  /\ pc \in {"deleting", "cleanup", "removal"} => mem.deleting
  /\ pc # "idle" /\ mem.deleting =>
       /\ res.exists /\ res.uid = mem.uid => res.deleting
       /\ cache.exists /\ cache.uid = mem.uid => cache.deleting

\* Nothing belongs to a resource that is still to come, and what belongs to
\* a live one belongs to one that the finalizer holds.
OwnedByPast ==
  \A o \in Object :
    /\ objects[o].owner <= res.uid /\ seen[o].owner <= res.uid
    /\ objects[o].exists /\ res.exists /\ objects[o].owner = res.uid => res.fin

\* What the reconciler reads, late as it may be, is enough to know that the
\* resource is held whenever objects are written.
Base == TypeOK /\ FreshIsCurrent /\ Guarded /\ DeletionSeen /\ OwnedByPast

\* The secrets of a CA's key pairs, in the order in which they are stored.
Pairs == <<"tls", "msp", "tlsca">>

Generates(i) == plan[i] = <<"secrets", "generate">>
Stores(i, j) == i <= Len(plan) /\ plan[i] = <<"secrets", Pairs[j]>>

CASteps ==
  ({"config", "secrets", "pvc", "service", "ingress", "deployment", "idemix",
    "delete deployment", "delete service", "delete ingress", "delete claim",
    "delete config", "delete tls", "delete msp", "delete tlsca"}
     \X (caOwns \cup {"generate"})) \cup {Verdict}

\* What a CA's reconcile has in hand are the key pairs that it is about to store.
HandNext ==
  /\ Len(hand) <= 3
  /\ \A i \in 1 .. Len(hand) : Stores(i, i + 3 - Len(hand))

\* All three are stored after they have been generated, or read ...
PairsFollow ==
  \A i \in 1 .. Len(plan) : Generates(i) => \A j \in 1 .. 3 : Stores(i + j, j)

\* ... and none without it.
PairsHeld ==
  \A i \in 1 .. Len(plan) : \A k \in KeyPairs :
    plan[i] = <<"secrets", k>> =>
      i <= Len(hand) \/ \E j \in 1 .. 3 : j < i /\ Generates(i - j)

HandFollowsPlan ==
  kind = "ca" =>
    /\ plan \in Seq(CASteps)
    /\ pc # "work" => hand = <<>>
    /\ pc = "work" => HandNext /\ PairsFollow /\ PairsHeld

\* The inductive invariant behind the safety properties below.
IInv == Base /\ HandFollowsPlan

-----------------------------------------------------------------------------
(* Properties                                                               *)

Phase ==
  CASE ~res.exists             -> "absent"
    [] res.exists /\ ~res.fin  -> "bare"
    [] res.exists /\ res.fin /\ ~res.deleting -> "guarded"
    [] OTHER                   -> "terminating"

Protocol == INSTANCE FinalizerProtocol
  WITH Dependent  <- Object,
       phase      <- Phase,
       dependents <- {o \in Object : objects[o].exists}

\* In spite of stale reads, conflicts, lost answers, crashes and re-creation
\* no controller makes an object for a resource that its finalizer does not
\* hold (the finalizer is added before anything else is done).
FollowsFinalizerProtocol == Protocol!Spec

Live     == res.exists /\ ~res.deleting
Supplied == \A i \in Needs[kind] : inputs[i] # 0

\* A deleted resource goes away, whatever the cleanup runs into.
DeletionCompletes == []<>~(res.exists /\ res.deleting)

\* A resource of kind k that stays, and has what it needs.
Stays(k) == kind = k /\ Live /\ Supplied

BlockCurrent ==
  LET block == objects["block"]
  IN /\ block.exists /\ block.content = res.spec.config
     /\ \A i \in DOMAIN Reads(res.spec) :
          \E v \in 1 .. inputs[Reads(res.spec)[i]] :
            <<Reads(res.spec)[i], v>> \in block.made

\* A valid Genesis ends up with a block of its last spec, with every
\* certificate in it (storeGenesisBlock over a stale cache, secrets that come
\* late, edits in the middle of a reconcile).
BlockFollowsSpec ==
  <>[]Stays("genesis") =>
    <>[](kind = "genesis" /\ res.spec.valid /\ ValidConfig(res.spec)
           => BlockCurrent)

Credential(s) == objects[Output(s)]

\* An Identity gets a verdict that stays true: READY only with its secret
\* there, also after somebody deletes the secret (Owns(Secret)), although
\* failures are not retried; and after the verdict it rests.
IdentityVerdict ==
  <>[]Stays("identity") =>
    <>[](/\ kind = "identity" /\ pc = "idle" /\ ~queue
         /\ res.status.state \in {"READY", "FAILED", "INVALID"}
         /\ res.status.state = "READY" =>
              res.spec.valid /\ Credential(res.spec).exists)

\* A CAEnrollment ends up enrolled with a certificate that is not about to
\* expire, whenever it comes to its last days (needsRenewal, RequeueAfter).
EnrolmentKept ==
  <>[]Stays("caenrollment") =>
    <>[](/\ objects["secret"].exists /\ objects["secret"].content # Due
         /\ res.status.state = "READY")

\* An endorser in deploy mode ends up with the configuration of its last
\* spec, and with pods that were rolled out for it and for the certificates
\* they mount, although the hashes are taken from a cache that may lag
\* behind and a certificate may have been issued twice.
EndorserRolledOut ==
  <>[]Stays("endorser") =>
    <>[](kind = "endorser" /\ res.spec.mode = "deploy" =>
           /\ objects["config"].content = res.spec.config
           /\ objects["service"].exists /\ objects["deployment"].exists
           /\ objects["deployment"].made =
                {<<"config", objects["config"].content>>}
                  \cup {<<c, objects[c].serial>> :
                          c \in Certificates \cap res.status.notes}
           /\ res.status.state = "RUNNING")

\* ENDORSER_IMPLEMENTATION.md: "Certificates mounted from secret".
CertificatesMounted ==
  <>[]Stays("endorser") =>
    <>[](kind = "endorser" /\ res.spec.mode = "deploy" =>
           \A c \in res.spec.enrolment :
             \E m \in objects["deployment"].made : m[1] = c)

\* A CA ends up with all its objects, and with pods rolled out for the
\* configuration of its last spec, although the hash is taken of what the
\* cache shows (ComputeConfigMapHash, Owns(ConfigMap)).
CARolledOut ==
  <>[]Stays("ca") =>
    <>[](/\ kind = "ca"
         /\ \A o \in KeyPairs \cup {"pvc", "service"} : objects[o].exists
         /\ res.spec.ingress = "gateway" => objects["ingress"].exists
         /\ objects["config"].content = res.spec.config
         /\ objects["deployment"].exists
         /\ objects["deployment"].made = {<<"config", res.spec.config>>})

\* The reconciler is about to store the key pairs that are there already.
InHand ==
  \A i \in DOMAIN hand :
    hand[i] = objects[Pairs[i + Len(Pairs) - Len(hand)]].serial

Settled ==
  /\ kind = "ca" /\ Live /\ InHand
  /\ \A k \in KeyPairs :
       objects[k].exists /\ seen[k].exists /\ seen[k].serial = objects[k].serial

\* Once the cache shows the three key pairs of a CA, and no reconcile has
\* others in hand, none is ever replaced while the CA lives and nobody
\* deletes a secret: what the CA has signed stays valid
\* (shouldRegenerateCertificates, getExistingCertificates).
KeysStay ==
  [][Settled /\ Live' /\ (\A k \in KeyPairs : objects'[k].exists)
       => /\ Settled'
          /\ \A k \in KeyPairs : objects'[k].serial = objects[k].serial]_vars
=============================================================================
