---------------------------- MODULE CAEnrollment -----------------------------
(***************************************************************************)
(* The CAEnrollment controller: it enrols a user with a CA, keeps key and  *)
(* certificate in a secret, and enrols again before the certificate        *)
(* expires.                                                                *)
(***************************************************************************)
EXTENDS Frame

CONSTANT Due   \* the content of a secret whose certificate expires soon

ASSUME CAEnrollmentAssumption ==
  "caenrollment" \in Kinds => "secret" \in Object /\ "ca" \in Input

CAEnrollmentPlan ==
  << <<"check", "secret">>, <<"enrol", "ca">>, <<"store", "secret">> >>

CAEnrollmentStarts  == BeginWithStatus
CAEnrollmentPending == InitialiseStatus
CAEnrollmentGuarded == EnsureFinalizer(CAEnrollmentPlan)

needsRenewal(secret) == secret.content = Due

\* Mutant: a secret that is there is enough.
CheckSecretExists ==
  /\ At({<<"check", "secret">>})
  /\ \/ seen["secret"].exists /\ Goto("succeeded") /\ UNCHANGED plan
     \/ ~seen["secret"].exists /\ Proceed
  /\ UNCHANGED <<inside, outside, mem, queue, hand, troubles>>

CheckSecret ==
  /\ At({<<"check", "secret">>})
  /\ LET enrolled == seen["secret"].exists /\ ~needsRenewal(seen["secret"])
     IN \/ enrolled /\ Goto("succeeded") /\ UNCHANGED plan
        \/ ~enrolled /\ Proceed
  /\ UNCHANGED <<inside, outside, mem, queue, hand, troubles>>

EnrolUser ==
  /\ At({<<"enrol", "ca">>})
  /\ Enrol("ca")
  /\ UNCHANGED <<inside, outside, mem, queue>>

\* An existing secret keeps its owner.
StoreEnrolment ==
  /\ At({<<"store", "secret">>})
  /\ LET issued == [Owned(Unset) EXCEPT !.serial = Issued]
     IN CreateOr("secret", issued,
                 [issued EXCEPT !.owner = objects["secret"].owner])
  /\ UNCHANGED <<inside, mem, hand>>

CAEnrollmentDone ==
  /\ pc = "work" /\ plan = <<>>
  /\ Goto("succeeded")
  /\ UNCHANGED <<inside, outside, mem, queue, plan, hand, troubles>>

\* It looks again after a day. A repeated status is no change.
CAEnrollmentReady ==
  /\ pc = "succeeded"
  /\ UpdateStatus([state |-> "READY",
                   notes |-> mem.status.notes \cup
                               IF hand = <<>> THEN {} ELSE {"time", "expiry"}],
                  hand # <<>>)
  /\ queue' = TRUE
  /\ plan' = <<>> /\ hand' = <<>>
  /\ Goto("idle")
  /\ UNCHANGED <<frame, outside>>

CAEnrollmentFailed == MarkFailed

\* The secret is deleted by its name.
CAEnrollmentDeleting ==
  /\ pc = "deleting"
  /\ \/ /\ Goto("removal") /\ UNCHANGED <<plan, hand, troubles>>
        /\ \/ objects["secret"].exists /\ Remove("secret")
           \/ ~objects["secret"].exists /\ UNCHANGED <<outside, queue>>
     \/ /\ Trouble("write") /\ ReturnError
        /\ \/ UNCHANGED outside
           \/ /\ objects["secret"].exists
              /\ objects' = [objects EXCEPT !["secret"] = NoObject]
              /\ IF "secret" \in Lagging[kind]
                   THEN seenFresh' = seenFresh \ {"secret"} /\ UNCHANGED seen
                   ELSE seen' = [seen EXCEPT !["secret"] = NoObject]
                        /\ UNCHANGED seenFresh
  /\ UNCHANGED <<frame, copies>>

CAEnrollmentReleased == RemoveFinalizer("idle")

CAEnrollmentStep ==
  \/ CAEnrollmentStarts \/ CAEnrollmentPending \/ CAEnrollmentGuarded
  \/ CheckSecret \/ EnrolUser \/ StoreEnrolment
  \/ CAEnrollmentDone \/ CAEnrollmentReady \/ CAEnrollmentFailed
  \/ CAEnrollmentDeleting \/ CAEnrollmentReleased

\* The certificate comes to its last thirty days.
Expire ==
  /\ kind = "caenrollment"
  /\ objects["secret"].exists /\ ~needsRenewal(objects["secret"])
  /\ Trouble("expire")
  /\ objects' = [objects EXCEPT !["secret"].content = Due]
  /\ seen' = IF seen["secret"].exists
               THEN [seen EXCEPT !["secret"].content = Due] ELSE seen
  /\ UNCHANGED <<frame, copies, seenFresh, queue, pc, plan, hand>>
=============================================================================
