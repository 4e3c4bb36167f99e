---------------------------- MODULE KeyPairProofs ----------------------------
(***************************************************************************)
(* The key pairs of a CA: a reconcile that has read or generated the three *)
(* of them stores exactly these, whatever fails in between, and so none    *)
(* that is there already is ever replaced.                                 *)
(***************************************************************************)
EXTENDS ProvisioningProofs, SequenceTheorems

\* A controller stays what it is.
LEMMA KindStays == [Next]_vars => kind' = kind
<1> SUFFICES ASSUME [Next]_vars PROVE kind' = kind
  OBVIOUS
<1>1. (UNCHANGED frame => kind' = kind) /\ (UNCHANGED inside => kind' = kind)
  BY DEF frame, inside
<1>2. CASE UNCHANGED vars
  BY <1>2 DEF vars
<1>3. CASE User
  BY <1>3, <1>1 DEF User, CreateResource, EditSpec, DeleteResource
<1>4. CASE Environment
  BY <1>4, <1>1
  DEF Environment, CacheSync, OperatorCrash, ObjectSync, Touch, Lose,
      GarbageCollect, Supply
<1>5. CASE Expire
  BY <1>5, <1>1 DEF Expire
<1>6. CASE Reconciler
  <2> USE <1>1 DEF BeginWithDeletion, BeginWithStatus, Begin, InitialiseStatus,
                   EnsureFinalizer, MarkFailed, RemoveFinalizer
  <2>1. CASE GenesisStep
    BY <2>1
    DEF GenesisStep, GenesisStarts, GenesisPending, GenesisGuarded,
        ValidateGenesis, FetchCertificate, GenerateBlock, StoreGenesisBlock,
        GenesisDone, GenesisRunning, GenesisFailed, GenesisDeleting,
        GenesisReleased
  <2>2. CASE IdentityStep
    BY <2>2
    DEF IdentityStep, IdentityStarts, IdentityGuarded, IdentityRefused,
        CheckOutput, EnrolX509, EnrolIdemix, StoreCredentials, IdentityDone,
        IdentityReports, IdentityReleased
  <2>3. CASE CAEnrollmentStep
    BY <2>3
    DEF CAEnrollmentStep, CAEnrollmentStarts, CAEnrollmentPending,
        CAEnrollmentGuarded, CheckSecret, EnrolUser, StoreEnrolment,
        CAEnrollmentDone, CAEnrollmentReady, CAEnrollmentFailed,
        CAEnrollmentDeleting, CAEnrollmentReleased
  <2>4. CASE EndorserStep
    BY <2>4
    DEF EndorserStep, EndorserStarts, EndorserPending, EndorserGuarded,
        EnrolCertificate, StoreCertificate, WriteConfig, WriteService, RollOut,
        EndorserRunning, EndorserFailed, EndorserDeleting, EndorserReleased
  <2>5. CASE CAStep
    BY <2>5
    DEF CAStep, CAStarts, CAPending, CAGuarded, ReconcileConfigMaps,
        GenerateKeys, StoreKeys, ReconcilePVC, ReconcileService,
        ReconcileIngress, ReconcileDeployment, ReconcileAccount,
        ReconcileKeysJob, CADone, CARunning, CAFailed, CADeleting, CADeletes,
        CADeleted, CAReleased
  <2>6. QED BY <1>6, <2>1, <2>2, <2>3, <2>4, <2>5 DEF Reconciler
<1>7. QED BY <1>2, <1>3, <1>4, <1>5, <1>6 DEF Next

\* A CA at work on a step of its plan.
Working ==
  /\ kind = "ca" /\ pc = "work" /\ plan # <<>>
  /\ plan \in Seq(CASteps) /\ hand \in Seq(Nat)
  /\ HandNext /\ PairsFollow /\ PairsHeld

Elsewhere == Working /\ Part # "secrets"

LEMMA PlanFacts ==
  ASSUME plan \in Seq(CASteps), plan # <<>>
  PROVE  /\ plan \in Seq(CASteps)
         /\ Len(plan) \in Nat \ {0} /\ Head(plan) = plan[1]
         /\ Tail(plan) \in Seq(CASteps)
         /\ Len(Tail(plan)) = Len(plan) - 1
         /\ \A i \in 1 .. (Len(plan) - 1) : Tail(plan)[i] = plan[i + 1]
BY HeadTailProperties, EmptySeq

LEMMA HandFacts ==
  ASSUME hand \in Seq(Nat)
  PROVE  /\ Len(hand) \in Nat /\ (Len(hand) = 0 <=> hand = <<>>)
         /\ hand # <<>> =>
              /\ Rest = Tail(hand) /\ Issued = hand[1]
              /\ Rest \in Seq(Nat) /\ Len(Rest) = Len(hand) - 1
              /\ \A i \in 1 .. (Len(hand) - 1) : Rest[i] = hand[i + 1]
<1>1. CASE hand # <<>>
  BY <1>1, HeadTailProperties, EmptySeq DEF Rest, Issued
<1>2. QED BY <1>1

\* What is in hand is there to be stored next.
LEMMA EmptyHanded ==
  ASSUME Elsewhere
  PROVE  hand = <<>>
<1>1. ASSUME hand # <<>> PROVE FALSE
  <2>1. Len(hand) \in Nat /\ Len(hand) # 0
    BY <1>1, HandFacts DEF Elsewhere, Working
  <2>2. plan[1] = <<"secrets", Pairs[1 + 3 - Len(hand)]>>
    BY <2>1 DEF Elsewhere, Working, HandNext, Stores
  <2>3. Head(plan) = plan[1]
    BY PlanFacts DEF Elsewhere, Working
  <2>4. QED BY <2>2, <2>3 DEF Elsewhere, Part
<1>2. QED BY <1>1

\* A step of another part is done.
LEMMA ProceedsElsewhere ==
  ASSUME Elsewhere, Proceed, UNCHANGED <<kind, hand>>
  PROVE  HandFollowsPlan'
<1>1. hand = <<>> /\ Len(hand) = 0
  BY EmptyHanded
<1>2. /\ plan' \in Seq(CASteps) /\ Len(plan') = Len(plan) - 1
      /\ \A i \in 1 .. Len(plan') : plan'[i] = plan[i + 1]
      /\ Len(plan) \in Nat \ {0} /\ Head(plan) = plan[1]
  BY PlanFacts DEF Elsewhere, Working, Proceed
<1>3. ~Generates(1)
  BY <1>2 DEF Elsewhere, Part, Generates
<1>4. ASSUME NEW i \in 1 .. Len(plan'), Generates(i)', NEW j \in 1 .. 3
      PROVE  Stores(i + j, j)'
  <2>1. i + 1 \in 1 .. Len(plan) /\ Generates(i + 1)
    BY <1>2, <1>4 DEF Generates
  <2>2. Stores(i + 1 + j, j)
    BY <2>1 DEF Elsewhere, Working, PairsFollow
  <2>3. i + j \in 1 .. Len(plan') /\ i + j + 1 = i + 1 + j
    BY <1>2, <2>2 DEF Stores
  <2>4. plan'[i + j] = plan[i + 1 + j]
    <3>1. plan'[i + j] = plan[i + j + 1]
      BY <1>2, <2>3
    <3>2. QED BY <2>3, <3>1
  <2>5. plan[i + 1 + j] = <<"secrets", Pairs[j]>>
    BY <2>2 DEF Stores
  <2>6. QED BY <2>3, <2>4, <2>5 DEF Stores
<1>5. ASSUME NEW i \in 1 .. Len(plan'), NEW k \in KeyPairs,
             plan'[i] = <<"secrets", k>>
      PROVE  \E j \in 1 .. 3 : j < i /\ Generates(i - j)'
  <2>1. i + 1 \in 1 .. Len(plan) /\ plan[i + 1] = <<"secrets", k>>
    BY <1>2, <1>5
  <2>2. PICK j \in 1 .. 3 : j < i + 1 /\ Generates(i + 1 - j)
    BY <1>1, <2>1 DEF Elsewhere, Working, PairsHeld
  <2>3. j # i
    BY <1>3, <2>2
  <2>4. i - j \in 1 .. Len(plan') /\ i - j + 1 = i + 1 - j
    BY <1>2, <2>2, <2>3
  <2>5. Generates(i - j)'
    BY <1>2, <2>2, <2>4 DEF Generates
  <2>6. QED BY <2>2, <2>3, <2>4, <2>5
<1>6. PairsFollow'
  BY <1>4 DEF PairsFollow
<1>7. PairsHeld'
  BY <1>5 DEF PairsHeld
<1>8. QED
  BY <1>1, <1>2, <1>6, <1>7
  DEF HandFollowsPlan, HandNext, Elsewhere, Working, Proceed

LEMMA VerdictAppended ==
  ASSUME NEW s \in Seq(CASteps)
  PROVE  /\ Append(s, Verdict) \in Seq(CASteps)
         /\ Len(Append(s, Verdict)) = Len(s) + 1
         /\ \A i \in 1 .. Len(s) : Append(s, Verdict)[i] = s[i]
         /\ Append(s, Verdict)[Len(s) + 1] = Verdict
<1>1. Verdict \in CASteps
  BY DEF CASteps
<1>2. QED BY <1>1, AppendProperties

\* A part fails: its other steps are left out, and nothing is in hand.
LEMMA FailsEmptyHanded ==
  ASSUME Working, StepFails, kind' = kind, hand' = <<>>
  PROVE  HandFollowsPlan'
<1>0. /\ plan \in Seq(CASteps) /\ Len(plan) \in Nat \ {0}
      /\ Head(plan) = plan[1] /\ Len(hand) \in Nat
  BY PlanFacts, HandFacts DEF Working
<1>1. PICK n \in 1 .. Len(plan) :
        /\ PartEnds(n)
        /\ plan' = Append(SubSeq(plan, n + 1, Len(plan)), Verdict)
  BY DEF StepFails, Working
<1> DEFINE rest == SubSeq(plan, n + 1, Len(plan))
           left == Len(plan) - n
<1>2. /\ rest \in Seq(CASteps) /\ Len(rest) = left /\ left \in Nat
      /\ \A i \in 1 .. left : rest[i] = plan[n + i]
  <2>1. \A i \in (n + 1) .. Len(plan) : plan[i] \in CASteps
    BY <1>0, ElementOfSeq
  <2>2. /\ rest \in Seq(CASteps)
        /\ Len(rest) = IF n + 1 <= Len(plan) THEN Len(plan) - (n + 1) + 1 ELSE 0
        /\ \A i \in 1 .. (Len(plan) - (n + 1) + 1) : rest[i] = plan[n + 1 + i - 1]
    BY <1>0, <2>1, SubSeqProperties
  <2>3. Len(rest) = left /\ left \in Nat
    BY <1>0, <2>2
  <2>4. ASSUME NEW i \in 1 .. left PROVE rest[i] = plan[n + i]
    <3>1. i \in 1 .. (Len(plan) - (n + 1) + 1) /\ n + 1 + i - 1 = n + i
      BY <1>0
    <3>2. QED BY <2>2, <3>1
  <2>5. QED BY <2>2, <2>3, <2>4
<1>3. /\ plan' \in Seq(CASteps) /\ Len(plan') = left + 1
      /\ \A i \in 1 .. left : plan'[i] = plan[n + i]
      /\ plan'[left + 1] = Verdict
  <2>1. plan' = Append(rest, Verdict)
    BY <1>1
  <2> HIDE DEF rest
  <2>2. /\ Append(rest, Verdict) \in Seq(CASteps)
        /\ Len(Append(rest, Verdict)) = Len(rest) + 1
        /\ \A i \in 1 .. Len(rest) : Append(rest, Verdict)[i] = rest[i]
        /\ Append(rest, Verdict)[Len(rest) + 1] = Verdict
    BY <1>2, VerdictAppended
  <2>3. QED BY <1>2, <2>1, <2>2
<1> HIDE DEF left
<1>p. /\ left \in Nat /\ n + left = Len(plan)
      /\ \A i \in 1 .. Len(plan') : i <= left \/ plan'[i] = Verdict
  <2>1. \A i \in 1 .. Len(plan') : i <= left \/ i = left + 1
    BY <1>2, <1>3
  <2>2. n + left = Len(plan)
    BY <1>0 DEF left
  <2>3. QED BY <1>2, <1>3, <2>1, <2>2
<1>4. ASSUME NEW i \in 1 .. Len(plan'), Generates(i)', NEW j \in 1 .. 3
      PROVE  Stores(i + j, j)'
  <2>1. i <= left
    BY <1>p, <1>4 DEF Generates, Verdict
  <2>2. n + i \in 1 .. Len(plan) /\ Generates(n + i)
    BY <1>0, <1>3, <1>4, <1>p, <2>1 DEF Generates
  <2>3. Stores(n + i + j, j)
    BY <2>2 DEF Working, PairsFollow
  <2>4. i + j \in 1 .. left /\ n + (i + j) = n + i + j
    BY <1>0, <1>p, <2>3 DEF Stores
  <2>5. QED BY <1>3, <1>p, <2>3, <2>4 DEF Stores
<1>s. ASSUME NEW i \in 1 .. left, plan[n + 1][1] = "secrets", Part = "secrets"
      PROVE  FALSE
  <2>1. n < Len(plan)
    BY <1>0, <1>p
  <2>2. QED BY <1>1, <1>s, <2>1 DEF PartEnds
<1>5. ASSUME NEW i \in 1 .. Len(plan'), NEW k \in KeyPairs,
             plan'[i] = <<"secrets", k>>
      PROVE  \E j \in 1 .. 3 : j < i /\ Generates(i - j)'
  <2>1. i \in 1 .. left
    BY <1>p, <1>5 DEF Verdict
  <2>2. n + i \in 1 .. Len(plan) /\ plan[n + i] = <<"secrets", k>>
    BY <1>0, <1>3, <1>5, <1>p, <2>1
  <2>3. CASE n + i <= Len(hand)
    <3>1. 1 \in 1 .. Len(hand) /\ n + 1 \in 1 .. Len(hand)
      BY <1>0, <1>p, <2>1, <2>3
    <3>2. /\ Stores(1, 1 + 3 - Len(hand))
          /\ Stores(n + 1, n + 1 + 3 - Len(hand))
      BY <3>1 DEF Working, HandNext
    <3>3. Part = "secrets" /\ plan[n + 1][1] = "secrets"
      BY <1>0, <3>2 DEF Part, Stores
    <3>4. QED BY <1>s, <2>1, <3>3
  <2>4. ASSUME NEW j \in 1 .. 3, j < n + i, Generates(n + i - j)
        PROVE  j < i /\ Generates(i - j)'
    <3>1. CASE j < i
      <4>1. i - j \in 1 .. left /\ n + (i - j) = n + i - j
        BY <1>p, <2>1, <3>1
      <4>2. QED BY <1>3, <2>4, <3>1, <4>1 DEF Generates
    <3>2. CASE ~(j < i)
      <4> DEFINE m == n + i - j
      <4>1. /\ m \in 1 .. n /\ m \in 1 .. Len(plan)
            /\ n + 1 - m \in 1 .. 3 /\ m + (n + 1 - m) = n + 1
        BY <1>0, <1>p, <2>1, <2>4, <3>2
      <4> HIDE DEF m
      <4>2. Generates(m)
        BY <2>4 DEF m
      <4>3. Part = "secrets"
        BY <1>1, <4>1, <4>2 DEF PartEnds, Generates
      <4>4. Stores(n + 1, n + 1 - m)
        <5>1. \A o \in 1 .. 3 : Stores(m + o, o)
          BY <4>1, <4>2 DEF Working, PairsFollow
        <5>2. Stores(m + (n + 1 - m), n + 1 - m)
          BY <4>1, <5>1
        <5>3. QED BY <4>1, <5>2
      <4>5. QED BY <1>s, <2>1, <4>3, <4>4 DEF Stores
    <3>3. QED BY <3>1, <3>2
  <2>5. QED BY <2>2, <2>3, <2>4 DEF Working, PairsHeld
<1>6. pc' = "work" /\ kind' = "ca" /\ Len(hand') = 0
  BY DEF Working, StepFails
<1>7. QED
  BY <1>3, <1>4, <1>5, <1>6 DEF HandFollowsPlan, HandNext, PairsFollow, PairsHeld

\* The key pairs are in hand before the first of them is stored.
LEMMA GeneratesAll ==
  ASSUME Working, Head(plan) = <<"secrets", "generate">>, Proceed,
         kind' = kind, Len(hand') = 3
  PROVE  HandFollowsPlan'
<1>0. Len(hand) \in Nat
  BY HandFacts DEF Working
<1>1. /\ plan' \in Seq(CASteps) /\ Len(plan') = Len(plan) - 1
      /\ \A i \in 1 .. Len(plan') : plan'[i] = plan[i + 1]
      /\ Len(plan) \in Nat \ {0} /\ Head(plan) = plan[1]
  BY PlanFacts DEF Working, Proceed
<1>2. Generates(1)
  BY <1>1 DEF Generates
<1>3. Len(hand) = 0
  <2>1. ASSUME Len(hand) # 0 PROVE FALSE
    <3>1. Stores(1, 1 + 3 - Len(hand)) /\ 1 <= Len(hand) /\ Len(hand) <= 3
      BY <1>0, <2>1 DEF Working, HandNext
    <3>2. Pairs[1 + 3 - Len(hand)] \in {"tls", "msp", "tlsca"}
      <4>1. \A n \in Nat : 1 <= n /\ n <= 3 =>
              1 + 3 - n = 1 \/ 1 + 3 - n = 2 \/ 1 + 3 - n = 3
        OBVIOUS
      <4>2. QED BY <1>0, <3>1, <4>1 DEF Pairs
    <3>3. QED BY <1>2, <3>1, <3>2 DEF Generates, Stores
  <2>2. QED BY <2>1
<1>4. ASSUME NEW i \in 1 .. Len(plan'), Generates(i)', NEW j \in 1 .. 3
      PROVE  Stores(i + j, j)'
  <2>1. i + 1 \in 1 .. Len(plan) /\ Generates(i + 1)
    BY <1>1, <1>4 DEF Generates
  <2>2. Stores(i + 1 + j, j)
    BY <2>1 DEF Working, PairsFollow
  <2>3. i + j \in 1 .. Len(plan') /\ i + j + 1 = i + 1 + j
    BY <1>1, <2>2 DEF Stores
  <2>4. plan'[i + j] = plan[i + 1 + j]
    <3>1. plan'[i + j] = plan[i + j + 1]
      BY <1>1, <2>3
    <3>2. QED BY <2>3, <3>1
  <2>5. plan[i + 1 + j] = <<"secrets", Pairs[j]>>
    BY <2>2 DEF Stores
  <2>6. QED BY <2>3, <2>4, <2>5 DEF Stores
<1>5. ASSUME NEW i \in 1 .. 3 PROVE Stores(i, i + 3 - Len(hand))'
  <2>1. Stores(1 + i, i)
    BY <1>1, <1>2 DEF Working, PairsFollow
  <2>2. i \in 1 .. Len(plan') /\ i + 1 = 1 + i /\ i + 3 - Len(hand') = i
    BY <1>1, <2>1 DEF Stores
  <2>3. plan'[i] = plan[1 + i]
    BY <1>1, <2>2
  <2>4. plan[1 + i] = <<"secrets", Pairs[i]>>
    BY <2>1 DEF Stores
  <2>5. QED BY <2>2, <2>3, <2>4 DEF Stores
<1>6. ASSUME NEW i \in 1 .. Len(plan'), NEW k \in KeyPairs,
             plan'[i] = <<"secrets", k>>, ~(i <= 3)
      PROVE  \E j \in 1 .. 3 : j < i /\ Generates(i - j)'
  <2>1. i + 1 \in 1 .. Len(plan) /\ plan[i + 1] = <<"secrets", k>>
    BY <1>1, <1>6
  <2>2. PICK j \in 1 .. 3 : j < i + 1 /\ Generates(i + 1 - j)
    BY <1>3, <2>1 DEF Working, PairsHeld
  <2>3. j < i /\ i - j \in 1 .. Len(plan') /\ i - j + 1 = i + 1 - j
    BY <1>1, <1>6, <2>2
  <2>4. Generates(i - j)'
    BY <1>1, <2>2, <2>3 DEF Generates
  <2>5. QED BY <2>2, <2>3, <2>4
<1>7. HandNext'
  BY <1>5 DEF HandNext
<1>8. PairsFollow'
  BY <1>4 DEF PairsFollow
<1>9. PairsHeld'
  BY <1>6 DEF PairsHeld
<1>10. QED
  BY <1>1, <1>7, <1>8, <1>9 DEF HandFollowsPlan, Working, Proceed

\* The key pair to be stored is the first in hand.
LEMMA StoresIssued ==
  ASSUME Working, Head(plan) \in {"secrets"} \X KeyPairs
  PROVE  /\ hand # <<>> /\ 1 <= Len(hand) /\ Len(hand) <= 3
         /\ Head(plan) = <<"secrets", Pairs[4 - Len(hand)]>>
<1>1. plan[1] = Head(plan) /\ Len(plan) \in Nat \ {0} /\ Len(hand) \in Nat
  BY PlanFacts, HandFacts DEF Working
<1>2. 1 <= Len(hand)
  <2>1. PICK k \in KeyPairs : plan[1] = <<"secrets", k>>
    BY <1>1
  <2>2. 1 <= Len(hand) \/ \E j \in 1 .. 3 : j < 1 /\ Generates(1 - j)
    BY <1>1, <2>1 DEF Working, PairsHeld
  <2>3. QED BY <2>2
<1>3. Len(hand) <= 3 /\ Stores(1, 1 + 3 - Len(hand)) /\ hand # <<>>
  BY <1>1, <1>2, HandFacts DEF Working, HandNext
<1>4. 1 + 3 - Len(hand) = 4 - Len(hand)
  BY <1>1
<1>5. QED BY <1>1, <1>2, <1>3, <1>4 DEF Stores

LEMMA StoresOne ==
  ASSUME Working, Head(plan) \in {"secrets"} \X KeyPairs, plan' = Tail(plan),
         UNCHANGED <<kind, pc>>, hand' = Rest
  PROVE  HandFollowsPlan'
<1>0. /\ Len(hand) \in Nat /\ 1 <= Len(hand) /\ Len(hand) <= 3
      /\ Len(hand') = Len(hand) - 1
  BY StoresIssued, HandFacts DEF Working
<1>1. /\ plan' \in Seq(CASteps) /\ Len(plan') = Len(plan) - 1
      /\ \A i \in 1 .. Len(plan') : plan'[i] = plan[i + 1]
      /\ Len(plan) \in Nat \ {0} /\ Head(plan) = plan[1]
  BY PlanFacts DEF Working
<1>2. ~Generates(1)
  BY <1>1 DEF Generates, KeyPairs
<1>3. ASSUME NEW i \in 1 .. Len(hand')
      PROVE  Stores(i, i + 3 - Len(hand))'
  <2>1. Stores(i + 1, i + 1 + 3 - Len(hand))
    BY <1>0, <1>3 DEF Working, HandNext
  <2>2. i \in 1 .. Len(plan') /\ i + 3 - Len(hand') = i + 1 + 3 - Len(hand)
    BY <1>0, <1>1, <1>3, <2>1 DEF Stores
  <2>3. plan'[i] = plan[i + 1]
    BY <1>1, <2>2
  <2>4. plan[i + 1] = <<"secrets", Pairs[i + 1 + 3 - Len(hand)]>>
    BY <2>1 DEF Stores
  <2>5. QED BY <2>2, <2>3, <2>4 DEF Stores
<1>4. ASSUME NEW i \in 1 .. Len(plan'), Generates(i)', NEW j \in 1 .. 3
      PROVE  Stores(i + j, j)'
  <2>1. i + 1 \in 1 .. Len(plan) /\ Generates(i + 1)
    BY <1>1, <1>4 DEF Generates
  <2>2. Stores(i + 1 + j, j)
    BY <2>1 DEF Working, PairsFollow
  <2>3. i + j \in 1 .. Len(plan') /\ i + j + 1 = i + 1 + j
    BY <1>1, <2>2 DEF Stores
  <2>4. plan'[i + j] = plan[i + 1 + j]
    <3>1. plan'[i + j] = plan[i + j + 1]
      BY <1>1, <2>3
    <3>2. QED BY <2>3, <3>1
  <2>5. plan[i + 1 + j] = <<"secrets", Pairs[j]>>
    BY <2>2 DEF Stores
  <2>6. QED BY <2>3, <2>4, <2>5 DEF Stores
<1>5. ASSUME NEW i \in 1 .. Len(plan'), NEW k \in KeyPairs,
             plan'[i] = <<"secrets", k>>, ~(i <= Len(hand'))
      PROVE  \E j \in 1 .. 3 : j < i /\ Generates(i - j)'
  <2>1. /\ i + 1 \in 1 .. Len(plan) /\ plan[i + 1] = <<"secrets", k>>
        /\ ~(i + 1 <= Len(hand))
    BY <1>0, <1>1, <1>5
  <2>2. PICK j \in 1 .. 3 : j < i + 1 /\ Generates(i + 1 - j)
    BY <2>1 DEF Working, PairsHeld
  <2>3. j # i
    BY <1>2, <2>2
  <2>4. j < i /\ i - j \in 1 .. Len(plan') /\ i - j + 1 = i + 1 - j
    BY <1>1, <2>2, <2>3
  <2>5. Generates(i - j)'
    BY <1>1, <2>2, <2>4 DEF Generates
  <2>6. QED BY <2>2, <2>4, <2>5
<1>6. Len(hand') <= 3
  BY <1>0
<1>7. HandNext'
  BY <1>3, <1>6 DEF HandNext
<1>8. PairsFollow'
  BY <1>4 DEF PairsFollow
<1>9. PairsHeld'
  BY <1>5 DEF PairsHeld
<1>10. QED
  BY <1>1, <1>7, <1>8, <1>9 DEF HandFollowsPlan, Working

-----------------------------------------------------------------------------
(* The plan                                                                 *)

\* How a plan begins: the key pairs are generated and stored in one go, and
\* nothing else is about secrets.
Begun(p) ==
  /\ p \in Seq(CASteps) /\ Len(p) >= 7
  /\ p[2] = <<"secrets", "generate">>
  /\ p[3] = <<"secrets", "tls">> /\ p[4] = <<"secrets", "msp">>
  /\ p[5] = <<"secrets", "tlsca">>
  /\ \A i \in 1 .. Len(p) : i \notin 2 .. 5 => p[i][1] # "secrets"

Adds(q) ==
  /\ q \in Seq(CASteps)
  /\ \A i \in 1 .. Len(q) : q[i][1] # "secrets"

LEMMA BegunAdds ==
  ASSUME NEW p, NEW q, Begun(p), Adds(q)
  PROVE  Begun(p \o q)
<1>1. /\ p \in Seq(CASteps) /\ q \in Seq(CASteps)
      /\ Len(p) \in Nat /\ Len(p) >= 7 /\ Len(q) \in Nat
  BY LenProperties DEF Begun, Adds
<1>2. /\ p \o q \in Seq(CASteps) /\ Len(p \o q) = Len(p) + Len(q)
      /\ \A i \in 1 .. (Len(p) + Len(q)) :
           (p \o q)[i] = IF i <= Len(p) THEN p[i] ELSE q[i - Len(p)]
  BY <1>1, ConcatProperties
<1>3. \A i \in 2 .. 5 : (p \o q)[i] = p[i]
  <2>1. \A i \in 2 .. 5 : i \in 1 .. (Len(p) + Len(q)) /\ i <= Len(p)
    BY <1>1
  <2>2. QED BY <1>2, <2>1
<1>4. ASSUME NEW i \in 1 .. Len(p \o q), i \notin 2 .. 5
      PROVE  (p \o q)[i][1] # "secrets"
  <2>1. CASE i <= Len(p)
    <3>1. i \in 1 .. Len(p) BY <1>1, <1>2, <2>1
    <3>2. QED BY <1>2, <1>4, <2>1, <3>1 DEF Begun
  <2>2. CASE ~(i <= Len(p))
    <3>1. i - Len(p) \in 1 .. Len(q) BY <1>1, <1>2, <2>2
    <3>2. QED BY <1>2, <2>2, <3>1 DEF Adds
  <2>3. QED BY <2>1, <2>2
<1>5. Len(p \o q) >= 7 BY <1>1, <1>2
<1>6. QED BY <1>2, <1>3, <1>4, <1>5 DEF Begun

LEMMA StepsOfCA ==
  /\ <<"config", "config">> \in CASteps /\ <<"secrets", "generate">> \in CASteps
  /\ <<"secrets", "tls">> \in CASteps /\ <<"secrets", "msp">> \in CASteps
  /\ <<"secrets", "tlsca">> \in CASteps /\ <<"pvc", "pvc">> \in CASteps
  /\ <<"service", "service">> \in CASteps /\ <<"ingress", "ingress">> \in CASteps
  /\ <<"deployment", "deployment">> \in CASteps
  /\ <<"idemix", "account">> \in CASteps /\ <<"idemix", "job">> \in CASteps
  /\ <<"delete deployment", "deployment">> \in CASteps
  /\ <<"delete service", "service">> \in CASteps
  /\ <<"delete ingress", "ingress">> \in CASteps
  /\ <<"delete claim", "pvc">> \in CASteps /\ <<"delete config", "config">> \in CASteps
  /\ <<"delete tls", "tls">> \in CASteps /\ <<"delete msp", "msp">> \in CASteps
  /\ <<"delete tlsca", "tlsca">> \in CASteps
BY DEF CASteps, caOwns

LEMMA TuplesAreSeqs ==
  \A S :
    /\ \A a \in S : <<a>> \in Seq(S)
    /\ \A a, b \in S : <<a, b>> \in Seq(S)
    /\ \A a, b, c, d, e, f, g \in S : <<a, b, c, d, e, f, g>> \in Seq(S)
    /\ \A a, b, c, d, e, f, g, h \in S : <<a, b, c, d, e, f, g, h>> \in Seq(S)
OBVIOUS

LEMMA PlanBegun == \A s : Begun(CAPlan(s))
<1> SUFFICES ASSUME NEW s PROVE Begun(CAPlan(s))
  OBVIOUS
<1> DEFINE first == << <<"config", "config">>, <<"secrets", "generate">>,
                       <<"secrets", "tls">>, <<"secrets", "msp">>,
                       <<"secrets", "tlsca">>, <<"pvc", "pvc">>,
                       <<"service", "service">> >>
           ingress == IF s.ingress = "off" THEN <<>>
                      ELSE << <<"ingress", "ingress">> >>
           deploy == << <<"deployment", "deployment">> >>
           idemix == IF s.idemix
                       THEN << <<"idemix", "account">>, <<"idemix", "job">> >>
                       ELSE <<>>
<1>1. Begun(first)
  <2>1. first \in Seq(CASteps)
    BY StepsOfCA, TuplesAreSeqs
  <2>2. QED BY <2>1 DEF Begun
<1>2. Adds(<<>>)
  BY DEF Adds
<1>3. Adds(<< <<"ingress", "ingress">> >>) /\ Adds(deploy)
  <2>1. << <<"ingress", "ingress">> >> \in Seq(CASteps) /\ deploy \in Seq(CASteps)
    BY StepsOfCA, TuplesAreSeqs
  <2>2. QED BY <2>1 DEF Adds
<1>4. Adds(<< <<"idemix", "account">>, <<"idemix", "job">> >>)
  <2>1. << <<"idemix", "account">>, <<"idemix", "job">> >> \in Seq(CASteps)
    BY StepsOfCA, TuplesAreSeqs
  <2>2. QED BY <2>1 DEF Adds
<1>5. Adds(ingress) /\ Adds(idemix)
  BY <1>2, <1>3, <1>4
<1>6. CAPlan(s) = ((first \o ingress) \o deploy) \o idemix
  BY DEF CAPlan
<1> HIDE DEF first, ingress, deploy, idemix
<1>7. QED BY <1>1, <1>3, <1>5, <1>6, BegunAdds

\* A reconcile starts with nothing in hand.
LEMMA BegunFollows ==
  ASSUME Begun(plan)', hand' = <<>>, pc' = "work"
  PROVE  HandFollowsPlan'
<1>1. /\ plan' \in Seq(CASteps) /\ Len(plan') \in Nat /\ Len(plan') >= 7
      /\ plan'[2] = <<"secrets", "generate">>
      /\ plan'[3] = <<"secrets", "tls">> /\ plan'[4] = <<"secrets", "msp">>
      /\ plan'[5] = <<"secrets", "tlsca">>
      /\ \A i \in 1 .. Len(plan') : i \notin 2 .. 5 => plan'[i][1] # "secrets"
  BY LenProperties DEF Begun
<1>2. \A i \in 2 .. 5 : i = 2 \/ i = 3 \/ i = 4 \/ i = 5
  OBVIOUS
<1>3. ASSUME NEW i \in 1 .. Len(plan'), Generates(i)', NEW j \in 1 .. 3
      PROVE  Stores(i + j, j)'
  <2>1. i = 2
    BY <1>1, <1>2, <1>3 DEF Generates
  <2>2. j = 1 \/ j = 2 \/ j = 3
    OBVIOUS
  <2>3. Stores(3, 1)' /\ Stores(4, 2)' /\ Stores(5, 3)'
    BY <1>1 DEF Stores, Pairs
  <2>4. QED BY <2>1, <2>2, <2>3
<1>4. ASSUME NEW i \in 1 .. Len(plan'), NEW k \in KeyPairs,
             plan'[i] = <<"secrets", k>>
      PROVE  \E j \in 1 .. 3 : j < i /\ Generates(i - j)'
  <2>1. i = 3 \/ i = 4 \/ i = 5
    BY <1>1, <1>2, <1>4 DEF KeyPairs
  <2>2. i - 2 \in 1 .. 3 /\ i - 2 < i /\ i - (i - 2) = 2
    BY <2>1
  <2>3. Generates(2)'
    BY <1>1 DEF Generates
  <2>4. QED BY <2>2, <2>3
<1>5. PairsFollow'
  BY <1>3 DEF PairsFollow
<1>6. PairsHeld'
  BY <1>4 DEF PairsHeld
<1>7. QED BY <1>1, <1>5, <1>6 DEF HandFollowsPlan, HandNext

-----------------------------------------------------------------------------
(* The steps                                                                *)

\* A write is done, or fails.
LEMMA WriteMoves ==
  ASSUME NEW o, NEW x, NEW y, NEW accepted,
         \/ Write(o, accepted, x) \/ CreateOr(o, x, y) \/ CreateOrUpdate(o, x)
  PROVE  Proceed \/ StepFails
BY DEF Write, CreateOr, CreateOrUpdate

LEMMA ElsewhereMoves ==
  ASSUME Elsewhere, Proceed \/ StepFails, UNCHANGED <<kind, hand>>
  PROVE  HandFollowsPlan'
<1>1. CASE Proceed
  BY <1>1, ProceedsElsewhere
<1>2. CASE StepFails
  <2>1. hand' = <<>> BY EmptyHanded
  <2>2. QED BY <1>2, <2>1, FailsEmptyHanded DEF Elsewhere
<1>3. QED BY <1>1, <1>2

\* Outside of its work a CA has nothing in hand.
LEMMA RestingHands ==
  ASSUME hand' = <<>>, pc' # "work", plan' \in Seq(CASteps)
  PROVE  HandFollowsPlan'
BY DEF HandFollowsPlan

\* A step of the cleanup fails: what is left of its plan is a plan.
LEMMA FailsTyped ==
  ASSUME plan \in Seq(CASteps), plan # <<>>, kind = "ca", StepFails
  PROVE  plan' \in Seq(CASteps)
<1>0. Len(plan) \in Nat
  BY PlanFacts
<1>1. PICK n \in 1 .. Len(plan) :
        plan' = Append(SubSeq(plan, n + 1, Len(plan)), Verdict)
  BY DEF StepFails
<1>2. \A i \in (n + 1) .. Len(plan) : plan[i] \in CASteps
  BY <1>0, ElementOfSeq
<1>3. SubSeq(plan, n + 1, Len(plan)) \in Seq(CASteps)
  BY <1>0, <1>2, SubSeqProperties
<1>4. QED BY <1>1, <1>3, VerdictAppended

LEMMA StoreKeysHands ==
  ASSUME Working, StoreKeys
  PROVE  HandFollowsPlan'
<1>1. /\ Head(plan) \in {"secrets"} \X KeyPairs
      /\ Proceed \/ StepFails
      /\ hand' = IF plan' = Tail(plan) THEN Rest ELSE <<>>
      /\ kind' = kind
  BY WriteMoves DEF StoreKeys, At, inside, frame
<1>2. pc' = pc
  BY <1>1 DEF Proceed, StepFails, Working
<1>3. CASE plan' = Tail(plan)
  BY <1>1, <1>2, <1>3, StoresOne
<1>4. CASE plan' # Tail(plan)
  BY <1>1, <1>4, FailsEmptyHanded DEF Proceed
<1>5. QED BY <1>3, <1>4

LEMMA GenerateKeysHands ==
  ASSUME Working, GenerateKeys
  PROVE  HandFollowsPlan'
<1>1. /\ Head(plan) = <<"secrets", "generate">> /\ Proceed /\ kind' = kind
      /\ \E a, b, c : hand' = <<a, b, c>>
  BY DEF GenerateKeys, At, inside, frame
<1>2. Len(hand') = 3
  BY <1>1
<1>3. QED BY <1>1, <1>2, GeneratesAll

LEMMA CAHands ==
  ASSUME Base, HandFollowsPlan, kind = "ca", CAStep
  PROVE  HandFollowsPlan'
<1>0. /\ plan \in Seq(CASteps) /\ hand \in Seq(Nat)
      /\ pc # "work" => hand = <<>>
      /\ UNCHANGED frame => kind' = kind
      /\ UNCHANGED inside => kind' = kind
  BY DEF HandFollowsPlan, Base, TypeOK, frame, inside
<1>w. ASSUME pc = "work", plan # <<>> PROVE Working
  BY <1>w, <1>0 DEF Working, HandFollowsPlan
<1>e. ASSUME NEW s, s[1] # "secrets", At({s}) PROVE Elsewhere
  BY <1>e, <1>w DEF At, Elsewhere, Part
<1>r. ASSUME pc # "work", pc' # "work", UNCHANGED <<plan, hand>>
      PROVE  HandFollowsPlan'
  BY <1>0, <1>r, RestingHands
<1>1. CASE CAStarts
  BY <1>1, <1>r DEF CAStarts, BeginWithStatus, Begin, Goto
<1>2. CASE CAPending
  BY <1>2, <1>r DEF CAPending, InitialiseStatus, Goto
<1>3. CASE CAGuarded
  <2>1. /\ pc = "finalizer" /\ hand' = hand
        /\ \/ pc' = "work" /\ plan' = CAPlan(mem.spec)
           \/ pc' = "refused" /\ plan' = plan
    BY <1>3 DEF CAGuarded, EnsureFinalizer, Goto
  <2>2. CASE pc' = "work" /\ plan' = CAPlan(mem.spec)
    <3>1. Begun(plan') BY <2>2, PlanBegun
    <3>2. Begun(plan)' BY <3>1 DEF Begun
    <3>3. QED BY <1>0, <2>1, <2>2, <3>2, BegunFollows
  <2>3. QED BY <1>r, <2>1, <2>2
<1>4. CASE ReconcileConfigMaps
  BY <1>0, <1>e, <1>4, WriteMoves, ElsewhereMoves DEF ReconcileConfigMaps
<1>5. CASE GenerateKeys
  BY <1>w, <1>5, GenerateKeysHands DEF GenerateKeys, At
<1>6. CASE StoreKeys
  BY <1>w, <1>6, StoreKeysHands DEF StoreKeys, At
<1>7. CASE ReconcilePVC
  BY <1>0, <1>e, <1>7, WriteMoves, ElsewhereMoves DEF ReconcilePVC
<1>8. CASE ReconcileService
  BY <1>0, <1>e, <1>8, WriteMoves, ElsewhereMoves DEF ReconcileService
<1>9. CASE ReconcileIngress
  BY <1>0, <1>e, <1>9, WriteMoves, ElsewhereMoves DEF ReconcileIngress
<1>10. CASE ReconcileDeployment
  BY <1>0, <1>e, <1>10, WriteMoves, ElsewhereMoves DEF ReconcileDeployment
<1>11. CASE ReconcileAccount
  BY <1>0, <1>e, <1>11, WriteMoves, ElsewhereMoves DEF ReconcileAccount
<1>12. CASE ReconcileKeysJob
  BY <1>0, <1>e, <1>12, WriteMoves, ElsewhereMoves DEF ReconcileKeysJob
<1>13. CASE CADone
  <2>1. /\ pc = "work" /\ Finished /\ UNCHANGED <<plan, hand>>
        /\ pc' \in {"succeeded", "failed"}
    BY <1>13 DEF CADone, Goto
  <2>2. hand = <<>>
    <3>1. CASE plan = <<>>
      <4>1. Len(plan) = 0 /\ Len(hand) \in Nat
        BY <1>0, <3>1, HandFacts
      <4>2. ASSUME Len(hand) # 0 PROVE FALSE
        <5>1. 1 \in 1 .. Len(hand) BY <4>1, <4>2
        <5>2. Stores(1, 1 + 3 - Len(hand))
          BY <2>1, <5>1 DEF HandFollowsPlan, HandNext
        <5>3. QED BY <4>1, <5>2 DEF Stores
      <4>3. QED BY <1>0, <4>2, HandFacts
    <3>2. CASE plan # <<>>
      <4>1. Elsewhere
        BY <1>w, <2>1, <3>2 DEF Elsewhere, Finished, Part, Verdict
      <4>2. QED BY <4>1, EmptyHanded
    <3>3. QED BY <3>1, <3>2
  <2>3. QED BY <1>0, <2>1, <2>2, RestingHands
<1>14. CASE CARunning
  BY <1>0, <1>14, RestingHands DEF CARunning, Goto
<1>15. CASE CAFailed
  BY <1>15, RestingHands DEF CAFailed, MarkFailed, Goto
<1>16. CASE CADeleting
  <2>1. CACleanup \in Seq(CASteps)
    BY StepsOfCA, TuplesAreSeqs DEF CACleanup
  <2>2. pc = "deleting" /\ pc' = "cleanup" /\ plan' = CACleanup /\ hand' = hand
    BY <1>16 DEF CADeleting, Goto
  <2>3. QED BY <1>0, <2>1, <2>2, RestingHands
<1>17. CASE CADeletes
  <2>1. /\ pc = "cleanup" /\ plan # <<>> /\ hand' = hand
        /\ Proceed \/ StepFails
    BY <1>17, WriteMoves DEF CADeletes, Finished
  <2>2. pc' = pc
    BY <2>1 DEF Proceed, StepFails
  <2>3. plan' \in Seq(CASteps)
    BY <1>0, <2>1, PlanFacts, FailsTyped DEF Proceed
  <2>4. QED BY <1>0, <2>1, <2>2, <2>3, RestingHands
<1>18. CASE CADeleted
  BY <1>18, <1>r DEF CADeleted, Goto
<1>19. CASE CAReleased
  <2>1. /\ pc = "removal" /\ pc' \in {"idle", "failed"}
        /\ UNCHANGED <<plan, hand>>
    BY <1>19 DEF CAReleased, RemoveFinalizer, ReturnError, Goto
  <2>2. QED BY <1>r, <2>1
<1>20. QED
  BY <1>1, <1>2, <1>3, <1>4, <1>5, <1>6, <1>7, <1>8, <1>9, <1>10, <1>11,
     <1>12, <1>13, <1>14, <1>15, <1>16, <1>17, <1>18, <1>19 DEF CAStep

\* Nobody else touches the plan or what is in hand; a crash drops both.
LEMMA HandsStep ==
  ASSUME Base, HandFollowsPlan, [Next]_vars
  PROVE  HandFollowsPlan'
<1>1. kind' = kind
  BY KindStays
<1>2. ASSUME UNCHANGED <<pc, plan, hand>> PROVE HandFollowsPlan'
  BY <1>1, <1>2
  DEF HandFollowsPlan, HandNext, PairsFollow, PairsHeld, Stores, Generates
<1>3. CASE UNCHANGED vars
  BY <1>2, <1>3 DEF vars
<1>4. CASE User
  BY <1>2, <1>4 DEF User, CreateResource, EditSpec, DeleteResource
<1>5. CASE Reconciler
  <2>1. CASE kind = "ca"
    BY <1>5, <2>1, CAHands DEF Reconciler
  <2>2. CASE kind # "ca"
    BY <1>1, <2>2 DEF HandFollowsPlan
  <2>3. QED BY <2>1, <2>2
<1>6. CASE OperatorCrash
  BY <1>6, RestingHands DEF OperatorCrash, Goto
<1>7. CASE Environment /\ ~OperatorCrash
  BY <1>2, <1>7
  DEF Environment, CacheSync, ObjectSync, Touch, Lose, GarbageCollect, Supply
<1>8. CASE Expire
  BY <1>2, <1>8 DEF Expire
<1>9. QED BY <1>3, <1>4, <1>5, <1>6, <1>7, <1>8 DEF Next

\* The inductive invariant holds of every one of the five controllers.
THEOREM Invariance == Spec => []IInv
<1>1. Init => IInv
  BY InitSound DEF Init, IInv, HandFollowsPlan
<1>2. IInv /\ [Next]_vars => IInv'
  BY StepSound, HandsStep DEF IInv, Sound
<1>3. QED BY <1>1, <1>2, PTL DEF Spec

-----------------------------------------------------------------------------
(* What is in the secrets                                                   *)

\* The secrets keep their contents, and the cache comes to show no others.
SecretsKept ==
  \A k \in KeyPairs :
    /\ objects'[k].serial = objects[k].serial
    /\ seen'[k] \in {seen[k], objects[k], objects'[k]}

KeysExist == \A k \in KeyPairs : objects'[k].exists

LEMMA KeyObjects ==
  ASSUME Base, kind = "ca"
  PROVE  KeyPairs \subseteq Object
BY CAAssumption DEF Base, TypeOK, caOwns, KeyPairs

LEMMA PutKeeps ==
  ASSUME Base, kind = "ca", KeysExist, NEW o, NEW x, Put(o, x),
         o \in KeyPairs /\ x.exists => x.serial = objects[o].serial
  PROVE  SecretsKept
<1>1. KeyPairs \subseteq Object
  BY KeyObjects
<1>2. /\ objects \in [Object -> Objects] /\ seen \in [Object -> Objects]
      /\ objects' = [objects EXCEPT ![o] = x]
      /\ seen' = seen \/ seen' = [seen EXCEPT ![o] = x]
  BY DEF Base, TypeOK, Put
<1>3. ASSUME NEW k \in KeyPairs
      PROVE  /\ objects'[k].serial = objects[k].serial
             /\ seen'[k] \in {seen[k], objects[k], objects'[k]}
  <2>1. k \in Object /\ objects'[k].exists
    BY <1>1 DEF KeysExist
  <2>2. CASE k = o
    BY <1>2, <2>1, <2>2
  <2>3. CASE k # o
    BY <1>2, <2>1, <2>3
  <2>4. QED BY <2>2, <2>3
<1>4. QED BY <1>3 DEF SecretsKept

LEMMA WriteKeeps ==
  ASSUME Base, kind = "ca", KeysExist, NEW o, NEW x,
         \/ UNCHANGED outside
         \/ \E accepted \in BOOLEAN : Write(o, accepted, x)
         \/ CreateOr(o, x, x) \/ CreateOrUpdate(o, x),
         o \in KeyPairs /\ x.exists => x.serial = objects[o].serial
  PROVE  SecretsKept
<1>1. UNCHANGED outside \/ Put(o, x)
  BY DEF Write, CreateOr, CreateOrUpdate, outside
<1>2. CASE UNCHANGED outside
  BY <1>2 DEF outside, SecretsKept
<1>3. QED BY <1>1, <1>2, PutKeeps

\* What is in hand stays the contents of the secrets it is for.
LEMMA InHandKept ==
  ASSUME Base, HandFollowsPlan, kind = "ca", InHand, SecretsKept,
         hand' \in {hand, <<>>, Rest}
  PROVE  InHand'
<1> DEFINE n == Len(hand)
<1>0. hand \in Seq(Nat) /\ Len(hand) \in Nat
  BY HandFacts DEF Base, TypeOK
<1>1. n \in Nat /\ n <= 3 /\ DOMAIN hand = 1 .. n /\ Len(Pairs) = 3
  BY <1>0, HandFacts DEF HandFollowsPlan, HandNext, Pairs
<1>2. \A i \in 1 .. n : hand[i] = objects[Pairs[i + 3 - n]].serial
  BY <1>1 DEF InHand
<1>3. /\ InHand' <=> \A i \in DOMAIN hand' :
             hand'[i] = objects'[Pairs[i + 3 - Len(hand')]].serial
      /\ hand' = hand => DOMAIN hand' = 1 .. n /\ Len(hand') = n
  BY <1>1 DEF InHand
<1> HIDE DEF n
<1>4. ASSUME NEW i \in 1 .. n
      PROVE  hand[i] = objects'[Pairs[i + 3 - n]].serial
  <2>1. i + 3 - n \in 1 .. 3
    BY <1>1
  <2>2. i + 3 - n = 1 \/ i + 3 - n = 2 \/ i + 3 - n = 3
    BY <2>1
  <2>3. Pairs[i + 3 - n] \in KeyPairs
    BY <2>2 DEF Pairs, KeyPairs
  <2>4. QED BY <1>2, <2>3 DEF SecretsKept
<1>5. CASE hand' = hand
  BY <1>3, <1>4, <1>5
<1>6. CASE hand' = <<>>
  BY <1>6 DEF InHand
<1>7. CASE hand' = Rest /\ hand # <<>>
  <2>1. /\ DOMAIN hand' = 1 .. (n - 1) /\ Len(hand') = n - 1
        /\ \A i \in 1 .. (n - 1) : hand'[i] = hand[i + 1]
    BY <1>0, <1>7, HandFacts DEF n
  <2>2. ASSUME NEW i \in 1 .. (n - 1)
        PROVE  hand'[i] = objects'[Pairs[i + 3 - (n - 1)]].serial
    <3>1. i + 1 \in 1 .. n /\ i + 3 - (n - 1) = i + 1 + 3 - n
      BY <1>1
    <3>2. QED BY <1>4, <2>1, <3>1
  <2>3. QED BY <1>3, <2>1, <2>2
<1>8. CASE hand' = Rest /\ hand = <<>>
  BY <1>6, <1>8 DEF Rest
<1>9. QED BY <1>5, <1>6, <1>7, <1>8

\* The first in hand is what the secret that comes next contains.
LEMMA IssuedIsThere ==
  ASSUME Working, InHand, Head(plan) \in {"secrets"} \X KeyPairs
  PROVE  Subject \in KeyPairs /\ Issued = objects[Subject].serial
<1> DEFINE n == Len(hand)
<1>1. /\ hand # <<>> /\ 1 <= n /\ n \in Nat /\ DOMAIN hand = 1 .. n
      /\ Head(plan) = <<"secrets", Pairs[4 - n]>> /\ Issued = hand[1]
      /\ Len(Pairs) = 3
  BY StoresIssued, HandFacts DEF Working, Pairs
<1>2. \A i \in 1 .. n : hand[i] = objects[Pairs[i + 3 - n]].serial
  BY <1>1 DEF InHand
<1> HIDE DEF n
<1>3. 1 \in 1 .. n /\ 1 + 3 - n = 4 - n
  BY <1>1
<1>4. hand[1] = objects[Pairs[4 - n]].serial
  BY <1>2, <1>3
<1>5. QED BY <1>1, <1>4 DEF Subject

LEMMA StoreKeysKeeps ==
  ASSUME Base, HandFollowsPlan, kind = "ca", InHand, KeysExist, StoreKeys
  PROVE  SecretsKept
<1> DEFINE pair == [Owned(Unset) EXCEPT !.serial = Issued]
<1>1. Working /\ Head(plan) \in {"secrets"} \X KeyPairs
  BY DEF StoreKeys, At, HandFollowsPlan, Working, Base, TypeOK
<1>2. Subject \in KeyPairs /\ Issued = objects[Subject].serial
  BY <1>1, IssuedIsThere
<1>3. pair.serial = Issued
  BY DEF Owned, NoObject
<1>4. CreateOrUpdate(Subject, pair)
  BY DEF StoreKeys
<1> HIDE DEF pair
<1>5. QED BY <1>2, <1>3, <1>4, WriteKeeps

\* The three pairs are read, as the cache shows them.
LEMMA GenerateKeysReads ==
  ASSUME Settled, SecretsKept, GenerateKeys
  PROVE  InHand'
<1>1. /\ hand' = <<seen["tls"].serial, seen["msp"].serial, seen["tlsca"].serial>>
      /\ \A k \in KeyPairs : seen[k].serial = objects[k].serial
  BY DEF Settled, GenerateKeys
<1>2. \A k \in KeyPairs : seen[k].serial = objects'[k].serial
  BY <1>1 DEF SecretsKept
<1>3. hand' = <<objects'["tls"].serial, objects'["msp"].serial,
                objects'["tlsca"].serial>>
  BY <1>1, <1>2 DEF KeyPairs
<1>4. \A i \in 1 .. 3 : hand'[i] = objects'[Pairs[i]].serial
  <2>1. \A i \in 1 .. 3 : i = 1 \/ i = 2 \/ i = 3
    OBVIOUS
  <2>2. QED BY <1>3, <2>1 DEF Pairs
<1>5. DOMAIN hand' = 1 .. 3 /\ Len(hand') = 3 /\ Len(Pairs) = 3
  BY <1>3 DEF Pairs
<1>6. \A i \in 1 .. 3 : i + 3 - 3 = i
  OBVIOUS
<1>7. QED BY <1>4, <1>5, <1>6 DEF InHand

\* A step of the CA's controller, other than those about the secrets.
LEMMA OtherCASteps ==
  ASSUME Base, kind = "ca", KeysExist, CAStep, ~GenerateKeys, ~StoreKeys
  PROVE  SecretsKept /\ hand' \in {hand, <<>>}
<1> USE DEF outside, At, KeyPairs
<1>e. \A o \in Object : objects[o].exists \in BOOLEAN
  BY DEF Base, TypeOK, Objects
<1>o. {"account", "job"} \subseteq Object
  BY CAAssumption DEF Base, TypeOK, caOwns
<1>1. CASE ReconcileConfigMaps \/ ReconcilePVC
  <2>1. /\ hand' = hand
        /\ \E o \in Object \ KeyPairs, x \in {Owned(mem.spec.config), Owned(Unset)} :
             CreateOrUpdate(o, x)
    BY <1>1, CAAssumption DEF ReconcileConfigMaps, ReconcilePVC, Base, TypeOK, caOwns
  <2>2. QED BY <2>1, WriteKeeps
<1>2. CASE ReconcileService \/ ReconcileIngress \/ ReconcileDeployment
  <2>1. hand' = hand
    BY <1>2 DEF ReconcileService, ReconcileIngress, ReconcileDeployment
  <2>2. \/ Write("ingress", TRUE, NoObject)
        \/ \E o, x : o \notin KeyPairs /\ CreateOr(o, x, x)
    BY <1>2 DEF ReconcileService, ReconcileIngress, ReconcileDeployment
  <2>3. CASE Write("ingress", TRUE, NoObject)
    <3>1. \E accepted \in BOOLEAN : Write("ingress", accepted, NoObject)
      BY <2>3
    <3>2. QED BY <2>1, <3>1, WriteKeeps
  <2>4. CASE \E o, x : o \notin KeyPairs /\ CreateOr(o, x, x)
    <3>1. PICK o, x : o \notin KeyPairs /\ CreateOr(o, x, x)
      BY <2>4
    <3>2. QED BY <2>1, <3>1, WriteKeeps
  <2>5. QED BY <2>2, <2>3, <2>4
<1>3. CASE ReconcileAccount \/ ReconcileKeysJob
  <2>1. /\ hand' = hand
        /\ \/ UNCHANGED outside
           \/ \E o \in {"account", "job"} :
                Write(o, ~objects[o].exists, Owned(Unset))
    BY <1>3 DEF ReconcileAccount, ReconcileKeysJob
  <2>2. CASE UNCHANGED outside
    BY <2>1, <2>2, WriteKeeps
  <2>3. ASSUME NEW o \in {"account", "job"},
               Write(o, ~objects[o].exists, Owned(Unset))
        PROVE  SecretsKept
    <3>1. (~objects[o].exists) \in BOOLEAN /\ o \notin KeyPairs
      BY <1>e, <1>o
    <3>2. \E accepted \in BOOLEAN : Write(o, accepted, Owned(Unset))
      BY <2>3, <3>1
    <3>3. QED BY <3>1, <3>2, WriteKeeps
  <2>4. QED BY <2>1, <2>2, <2>3
<1>4. CASE CADeletes
  BY <1>4, WriteKeeps, NoObjectType DEF CADeletes
<1>5. CASE CAStarts \/ CAPending \/ CAGuarded
  BY <1>5, WriteKeeps
  DEF CAStarts, BeginWithStatus, Begin, CAPending, InitialiseStatus, CAGuarded,
      EnsureFinalizer
<1>6. CASE CADone \/ CARunning \/ CAFailed \/ CADeleting \/ CADeleted
  BY <1>6, WriteKeeps
  DEF CADone, CARunning, CAFailed, MarkFailed, CADeleting, CADeleted
<1>7. CASE CAReleased
  <2>1. UNCHANGED outside /\ hand' \in {hand, <<>>}
    BY <1>7 DEF CAReleased, RemoveFinalizer, ReturnError
  <2>2. QED BY <2>1, WriteKeeps
<1>8. QED BY <1>1, <1>2, <1>3, <1>4, <1>5, <1>6, <1>7 DEF CAStep

\* What others do to the objects.
LEMMA OutsideKeeps ==
  ASSUME Base, kind = "ca", KeysExist, User \/ Environment
  PROVE  SecretsKept /\ hand' \in {hand, <<>>}
<1> USE DEF outside
<1>1. CASE UNCHANGED outside /\ hand' = hand
  BY <1>1 DEF SecretsKept
<1>2. CASE User
  BY <1>1, <1>2 DEF User, CreateResource, EditSpec, DeleteResource
<1>3. CASE CacheSync \/ \E i \in Input : Supply(i)
  BY <1>1, <1>3 DEF CacheSync, Supply
<1>4. CASE OperatorCrash
  BY <1>4 DEF OperatorCrash, SecretsKept
<1>5. ASSUME NEW o \in Object, ObjectSync(o) \/ Touch(o)
      PROVE  SecretsKept /\ hand' = hand
  <2>1. /\ objects' = objects /\ hand' = hand
        /\ seen' = seen \/ seen' = [seen EXCEPT ![o] = objects[o]]
    BY <1>5 DEF ObjectSync, Touch
  <2>2. seen \in [Object -> Objects]
    BY DEF Base, TypeOK
  <2>3. \A k \in KeyPairs : seen'[k] \in {seen[k], objects[k]}
    BY <2>1, <2>2, KeyObjects
  <2>4. QED BY <2>1, <2>3 DEF SecretsKept
<1>6. ASSUME NEW o \in Object, Lose(o) \/ GarbageCollect(o)
      PROVE  SecretsKept /\ hand' = hand
  <2>1. Put(o, NoObject) /\ hand' = hand
    BY <1>6 DEF Lose, GarbageCollect, Remove
  <2>2. ~NoObject.exists BY NoObjectType
  <2>3. QED BY <2>1, <2>2, PutKeeps
<1>7. QED BY <1>2, <1>3, <1>4, <1>5, <1>6 DEF Environment

LEMMA SettledStays ==
  ASSUME Base, HandFollowsPlan, [Next]_vars, Settled, Live', KeysExist
  PROVE  /\ Settled'
         /\ \A k \in KeyPairs : objects'[k].serial = objects[k].serial
<1>0. kind = "ca" /\ kind' = "ca" /\ InHand
  BY KindStays DEF Settled
<1>1. SecretsKept /\ InHand'
  <2>1. CASE UNCHANGED vars
    BY <1>0, <2>1 DEF vars, SecretsKept, InHand
  <2>2. CASE User \/ Environment
    BY <1>0, <2>2, OutsideKeeps, InHandKept
  <2>3. CASE CAStep /\ ~GenerateKeys /\ ~StoreKeys
    BY <1>0, <2>3, OtherCASteps, InHandKept
  <2>4. CASE StoreKeys
    <3>1. hand' \in {Rest, <<>>} BY <2>4 DEF StoreKeys
    <3>2. QED BY <1>0, <2>4, <3>1, StoreKeysKeeps, InHandKept
  <2>5. CASE GenerateKeys
    <3>1. SecretsKept
      BY <2>5 DEF GenerateKeys, outside, SecretsKept
    <3>2. QED BY <2>5, <3>1, GenerateKeysReads
  <2>6. ~Expire
    BY <1>0 DEF Expire
  <2>7. QED BY <1>0, <2>1, <2>2, <2>3, <2>4, <2>5, <2>6 DEF Next, Reconciler
<1>2. ASSUME NEW k \in KeyPairs
      PROVE  /\ objects'[k].exists /\ seen'[k].exists
             /\ seen'[k].serial = objects'[k].serial
             /\ objects'[k].serial = objects[k].serial
  BY <1>1 DEF KeysExist, SecretsKept, Settled
<1>3. QED BY <1>0, <1>1, <1>2 DEF Settled

\* What a CA has signed stays valid: once the cache shows its three key
\* pairs, no reconcile replaces one, whatever fails, lags or crashes.
THEOREM KeyPairsOfCARemain == Spec => KeysStay
<1>1. IInv /\ [Next]_vars
        => [Settled /\ Live' /\ (\A k \in KeyPairs : objects'[k].exists)
              => /\ Settled'
                 /\ \A k \in KeyPairs :
                      objects'[k].serial = objects[k].serial]_vars
  BY SettledStays DEF IInv, KeysExist
<1>2. QED BY <1>1, Invariance, PTL DEF Spec, KeysStay

=============================================================================
