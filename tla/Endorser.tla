------------------------------ MODULE Endorser ------------------------------
(***************************************************************************)
(* The Endorser controller: it enrols the endorser with a CA, keeps the    *)
(* certificates in secrets, and in deploy mode writes the configuration,   *)
(* the service and the deployment, which mounts what the status names.     *)
(***************************************************************************)
EXTENDS Frame

Certificates == {"sign", "tls"}

\* mode: "" stands for "configure". enrolment: the sections it has.
\* resolver: whether a resolver's certificate is to be mounted.
EndorserSpec ==
  [mode : {"", "configure", "deploy"}, enrolment : SUBSET Certificates,
   resolver : BOOLEAN, config : Settings]

ASSUME EndorserAssumption ==
  "endorser" \in Kinds =>
    /\ endorserOwns \subseteq Object
    /\ {"ca", "resolver"} \subseteq Input
    /\ Specs["endorser"] \subseteq EndorserSpec

\* reconcileCertificates
Enrolments(s) ==
  LET chosen == SelectSeq(<<"sign", "tls">>, LAMBDA c : c \in s.enrolment)
  IN [i \in DOMAIN chosen |-> <<"enrol", chosen[i]>>]
       \o [i \in DOMAIN chosen |-> <<"store", chosen[i]>>]

\* reconcileConfigureMode, reconcileDeployMode
EndorserPlan(s) ==
  Enrolments(s)
    \o IF s.mode = "deploy"
         THEN << <<"write", "config">>, <<"write", "service">>,
                 <<"roll out", "deployment">> >>
         ELSE <<>>

\* A deleted endorser's status is left as it is.
EndorserStarts  == BeginWithDeletion
EndorserPending == InitialiseStatus
EndorserGuarded == EnsureFinalizer(EndorserPlan(mem.spec))

\* A secret that is there is not made again, nor looked at.
EnrolCertificate ==
  /\ At({"enrol"} \X Certificates)
  /\ \/ /\ seen[Subject].exists
        /\ plan' = SelectSeq(Tail(plan), LAMBDA s : s # <<"store", Subject>>)
        /\ UNCHANGED <<pc, hand, troubles>>
     \/ ~seen[Subject].exists /\ Enrol("ca")
  /\ UNCHANGED <<inside, outside, mem, queue>>

\* What was made before keeps its owner.
Apply(o, wanted) ==
  CreateOr(o, wanted, [wanted EXCEPT !.owner = objects[o].owner])

\* The name of the secret goes into the reconciler's copy of the status, and
\* from there into the API server with the next write of the status.
StoreCertificate ==
  /\ At({"store"} \X Certificates)
  /\ Apply(Subject, [Owned(Unset) EXCEPT !.serial = Issued])
  /\ mem' = IF pc' = "failed" THEN mem
            ELSE [mem EXCEPT !.status.notes = @ \cup {Subject}]
  /\ hand' = Rest
  /\ UNCHANGED inside

\* reconcileCoreConfigSecret
WriteConfig ==
  /\ At({<<"write", "config">>})
  /\ Apply("config", Owned(mem.spec.config))
  /\ UNCHANGED <<inside, mem, hand>>

WriteService ==
  /\ At({<<"write", "service">>})
  /\ Apply("service", Owned(Unset))
  /\ UNCHANGED <<inside, mem, hand>>

Named == Certificates \cap mem.status.notes

\* Mutant: the hash of the configuration is left out.
MountsWithoutHash ==
  {<<c, seen[c].serial>> : c \in Named}

\* What the template mounts, with the hash of what the cache shows of it.
Mounts ==
  {<<"config", seen["config"].content>>}
    \cup {<<c, seen[c].serial>> : c \in Named}

\* A resolver's secret must be there.
RollOut ==
  /\ At({<<"roll out", "deployment">>})
  /\ \/ /\ mem.spec.resolver => inputs["resolver"] # 0
        /\ Apply("deployment", [Owned(Unset) EXCEPT !.made = Mounts])
     \/ /\ mem.spec.resolver /\ inputs["resolver"] = 0
        /\ StepFails /\ UNCHANGED <<outside, queue, troubles>>
  /\ UNCHANGED <<inside, mem, hand>>

\* It looks again after a minute.
EndorserRunning ==
  /\ pc = "work" /\ plan = <<>>
  /\ UpdateStatus(State("RUNNING"), FALSE)
  /\ queue' = TRUE
  /\ Goto("idle")
  /\ UNCHANGED <<frame, outside, plan, hand>>

EndorserFailed == MarkFailed

\* Everything is left to the garbage collector.
EndorserDeleting ==
  /\ pc = "deleting"
  /\ Goto("removal")
  /\ UNCHANGED <<frame, copies, outside, queue, plan, hand, troubles>>

EndorserReleased == RemoveFinalizer("idle")

EndorserStep ==
  \/ EndorserStarts \/ EndorserPending \/ EndorserGuarded
  \/ EnrolCertificate \/ StoreCertificate \/ WriteConfig \/ WriteService
  \/ RollOut
  \/ EndorserRunning \/ EndorserFailed
  \/ EndorserDeleting \/ EndorserReleased
=============================================================================
