------------------------------ MODULE Identity -------------------------------
(***************************************************************************)
(* The Identity controller: it enrols a user with a CA, for an X.509       *)
(* certificate or an Idemix credential, and keeps what it gets in a        *)
(* secret.  Failures are told in the status and not retried.               *)
(***************************************************************************)
EXTENDS Frame

\* valid: there is an enrolment. idemix: whether it has an Idemix section,
\* and if so, whether it says Enabled.
IdentitySpec == [valid : BOOLEAN, idemix : {"none", "enabled", "disabled"}]

ASSUME IdentityAssumption ==
  "identity" \in Kinds =>
    /\ {"secret", "idemix"} \subseteq Object
    /\ "ca" \in Input
    /\ Specs["identity"] \subseteq IdentitySpec

IdentityPlan(s) ==
  << <<"check", "output">>, <<"enrol", "ca">>,
     <<"store", IF s.idemix = "none" THEN "secret" ELSE "idemix">> >>

\* Mutant: only the X.509 secret is looked for.
OutputOfX509(s) == "secret"

\* outputSecretsExist looks for the credential only if Idemix is enabled.
Output(s) == IF s.idemix = "enabled" THEN "idemix" ELSE "secret"

IdentityStarts  == Begin(IF cache.deleting THEN "removal" ELSE "finalizer")
IdentityGuarded == EnsureFinalizer(IdentityPlan(mem.spec))

IdentityRefused ==
  /\ pc = "refused"
  /\ ReturnError
  /\ UNCHANGED <<frame, copies, outside, troubles>>

\* validateSpec, outputSecretsExist, validateExistingSecrets.
CheckOutput ==
  /\ At({<<"check", "output">>})
  /\ \/ /\ ~mem.spec.valid
        /\ StepFails
     \/ /\ mem.spec.valid /\ seen[Output(mem.spec)].exists
        /\ Goto("succeeded") /\ UNCHANGED plan
     \/ /\ mem.spec.valid /\ ~seen[Output(mem.spec)].exists
        /\ Proceed
  /\ UNCHANGED <<inside, outside, mem, queue, hand, troubles>>

\* A pair of certificates, for signing and for TLS.
EnrolX509 ==
  /\ At({<<"enrol", "ca">>}) /\ mem.spec.idemix = "none"
  /\ Enrol("ca")
  /\ UNCHANGED <<inside, outside, mem, queue>>

\* A credential, also where Idemix is disabled.
EnrolIdemix ==
  /\ At({<<"enrol", "ca">>}) /\ mem.spec.idemix # "none"
  /\ Enrol("ca")
  /\ UNCHANGED <<inside, outside, mem, queue>>

Credentials == [Owned(Unset) EXCEPT !.serial = Issued]

\* Create, then Update over whatever is there, owner included.
StoreCredentials ==
  /\ At({"store"} \X {"secret", "idemix"})
  /\ Write(Subject, TRUE, Credentials)
  /\ UNCHANGED <<inside, mem, hand>>

IdentityDone ==
  /\ pc = "work" /\ plan = <<>>
  /\ Goto("succeeded")
  /\ UNCHANGED <<inside, outside, mem, queue, plan, hand, troubles>>

\* An enrolment is followed by its times, for X.509 also that of expiry.
Outcome ==
  IF pc = "succeeded"
    THEN [state |-> "READY",
          notes |-> cache.status.notes \cup
                      IF hand = <<>> THEN {}
                      ELSE IF mem.spec.idemix = "none" THEN {"time", "expiry"}
                      ELSE {"time"}]
    ELSE [cache.status EXCEPT !.state = IF mem.spec.valid THEN "FAILED"
                                                          ELSE "INVALID"]

\* The status says so already: writing it again is no change, and no event.
\* A new time is a change, and the message of a failure may be.
Told == res.status = Outcome /\ hand = <<>>

\* The status is written on the cached copy of the moment. An error of that
\* write is returned, and is the only one that is.
IdentityReports ==
  /\ pc \in {"succeeded", "failed"}
  /\ LET reported == [res EXCEPT !.status = Outcome]
         kept == res.exists /\ "cache" \in fresh
     IN \/ /\ kept
           /\ \/ Told /\ UNCHANGED <<res, fresh>>
              \/ (~Told \/ Outcome.state = "FAILED") /\ Written(reported)
           /\ plan' = <<>> /\ hand' = <<>> /\ Goto("idle")
           /\ UNCHANGED <<queue, troubles>>
        \/ /\ \/ ~kept /\ UNCHANGED <<res, fresh, troubles>>
              \/ kept /\ Trouble("status") /\ UNCHANGED <<res, fresh>>
              \/ kept /\ Trouble("status") /\ Written(reported)
           /\ ReturnError
  /\ UNCHANGED <<frame, outside, mem>>

\* The secrets are left to the garbage collector.
IdentityReleased == RemoveFinalizer("idle")

IdentityStep ==
  \/ IdentityStarts \/ IdentityGuarded \/ IdentityRefused
  \/ CheckOutput \/ EnrolX509 \/ EnrolIdemix \/ StoreCredentials
  \/ IdentityDone \/ IdentityReports \/ IdentityReleased
=============================================================================
