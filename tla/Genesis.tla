------------------------------- MODULE Genesis -------------------------------
(***************************************************************************)
(* The Genesis controller: it reads the certificates of organisations and  *)
(* nodes out of secrets, one by one, builds a genesis block of them and    *)
(* stores it in a secret.                                                  *)
(***************************************************************************)
EXTENDS Frame

Seqs == INSTANCE SequencesExt

\* valid: validateGenesisSpec accepts it. orderers, applications: the secrets
\* with the CA certificates of the organisations. parties: for each party
\* those with the certificates of its CAs and nodes. complete: what they say
\* of their nodes, of consensus and of batching is valid, and no two
\* organisations of orderers have the same MSP.
GenesisSpec ==
  [valid : BOOLEAN, orderers : Seq(Input), applications : Seq(Input),
   parties : Seq(Seq(Input)), complete : BOOLEAN, config : Settings]

ASSUME GenesisAssumption ==
  "genesis" \in Kinds =>
    "block" \in Object /\ Specs["genesis"] \subseteq GenesisSpec

\* processOrganizations, processApplicationOrganizations, and
\* createOrdererOrganizations, which fetches the orderers' again.
OrganizationReads(s) == s.orderers \o s.applications \o s.orderers

PartyReads(s) == Seqs!FlattenSeq(s.parties)

\* The secrets in the order in which they are read.
Reads(s) == OrganizationReads(s) \o PartyReads(s)

GenesisPlan(s) ==
  << <<"check", "spec">> >>
    \o [i \in DOMAIN Reads(s) |-> <<"read", Reads(s)[i]>>]
    \o << <<"generate", "block">>, <<"store", "block">> >>

GenesisStarts  == BeginWithDeletion
GenesisPending == InitialiseStatus
GenesisGuarded == EnsureFinalizer(GenesisPlan(mem.spec))

ValidateGenesis ==
  /\ At({<<"check", "spec">>})
  /\ IF mem.spec.valid THEN Proceed ELSE StepFails
  /\ UNCHANGED <<inside, outside, mem, queue, hand, troubles>>

\* fetchAndValidateX509Certificate, fetchCertificateFromSecret.
FetchCertificate ==
  /\ At({"read"} \X Input)
  /\ \/ /\ inputs[Subject] # 0
        /\ Proceed /\ hand' = Append(hand, inputs[Subject])
     \/ /\ inputs[Subject] = 0
        /\ StepFails /\ UNCHANGED hand
  /\ UNCHANGED <<inside, outside, mem, queue, troubles>>

\* There must be a party and an organisation of orderers; parties, consensus
\* and batching are validated.
ValidConfig(s) == s.parties # <<>> /\ s.orderers # <<>> /\ s.complete

\* GenerateSharedConfig, createGenesisBlock.
GenerateBlock ==
  /\ At({<<"generate", "block">>})
  /\ IF ValidConfig(mem.spec) THEN Proceed ELSE StepFails
  /\ UNCHANGED <<inside, outside, mem, queue, hand, troubles>>

\* What the certificates that were fetched make of the spec. n stands for the
\* nonce and the time in its header: it is another block each time.
Block(n) ==
  [Owned(mem.spec.config) EXCEPT
     !.serial = n,
     !.made = {m \in Input \X {hand[i] : i \in DOMAIN hand} :
                 \E i \in DOMAIN hand : m = <<Reads(mem.spec)[i], hand[i]>>}]

\* Mutant: a block that is there is kept.
KeepGenesisBlock ==
  /\ At({<<"store", "block">>})
  /\ \/ /\ seen["block"].exists
        /\ Proceed /\ UNCHANGED <<outside, queue, troubles>>
     \/ /\ ~seen["block"].exists
        /\ \E n \in Serials :
             NewSerial(n) /\ CreateOr("block", Block(n), Block(n))
  /\ UNCHANGED <<inside, mem, hand>>

\* An existing secret is taken over, whoever it belongs to.
StoreGenesisBlock ==
  /\ At({<<"store", "block">>})
  /\ \E n \in Serials : NewSerial(n) /\ CreateOr("block", Block(n), Block(n))
  /\ UNCHANGED <<inside, mem, hand>>

GenesisDone ==
  /\ pc = "work" /\ plan = <<>>
  /\ Goto("succeeded")
  /\ UNCHANGED <<inside, outside, mem, queue, plan, hand, troubles>>

\* A success is not repeated: only the event of its own status may do that.
GenesisRunning ==
  /\ pc = "succeeded"
  /\ UpdateStatus(State("RUNNING"), TRUE)
  /\ hand' = <<>> /\ Goto("idle")
  /\ UNCHANGED <<frame, outside, queue, plan>>

GenesisFailed == MarkFailed

\* The block is left to the garbage collector.
GenesisDeleting ==
  /\ pc = "deleting"
  /\ UpdateStatus(State("PENDING"), TRUE)
  /\ Goto("removal")
  /\ UNCHANGED <<frame, outside, queue, plan, hand>>

GenesisReleased == RemoveFinalizer("failed")

GenesisStep ==
  \/ GenesisStarts \/ GenesisPending \/ GenesisGuarded
  \/ ValidateGenesis \/ FetchCertificate \/ GenerateBlock
  \/ StoreGenesisBlock
  \/ GenesisDone \/ GenesisRunning \/ GenesisFailed
  \/ GenesisDeleting \/ GenesisReleased
=============================================================================
