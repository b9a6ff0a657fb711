---------------------------- MODULE PublishReview ----------------------------
(***************************************************************************)
(* The publish workflow beside the document store: one durable instance    *)
(* per document (its id is the document's), whose steps change the same    *)
(* rows and objects as the requests of Documents.                          *)
(*                                                                         *)
(* Of Cloudflare Workflows it uses this much: an instance id is used once; *)
(* a step that throws runs again from its beginning, MaxAttempts times at  *)
(* most, and then the instance fails; an event sent to an instance waits   *)
(* for it; waiting for one gives up after its timeout.                     *)
(***************************************************************************)
EXTENDS Documents, Sequences

CONSTANT MaxDecisions  \* how many decisions reviewers may send

ASSUME ReviewAssumption == MaxDecisions \in Nat

Verdict == {"approve", "reject"}

VARIABLES
  stage,     \* where the instance of each document is
  attempts,  \* runs of its current step so far
  mailbox,   \* decisions sent to it and not read yet
  decision,  \* the decision it is applying
  object,    \* the key, and then the bytes, its updateMetadata is working on
  sent       \* how many decisions have been sent

reviewVars == <<stage, attempts, mailbox, decision, object, sent>>
allVars    == <<vars, reviewVars>>

Marking  == {"mark", "marking", "unmarked"}
Applying == {"apply", "unapplied", "reread", "metaget", "metaput", "jobrow", "message",
             "audit"}
Over     == {"complete", "errored"}

ReviewInit ==
  /\ Init
  /\ stage = [d \in Doc |-> "none"] /\ attempts = [d \in Doc |-> 0]
  /\ mailbox = [d \in Doc |-> <<>>] /\ decision = [d \in Doc |-> "none"]
  /\ object = [d \in Doc |-> <<>>] /\ sent = 0

Enter(d, l) == stage' = [stage EXCEPT ![d] = l]
Done(d, l)  == Enter(d, l) /\ attempts' = [attempts EXCEPT ![d] = 0]

\* The step throws: it is run again from its first line, or given up.
FirstLine(d) == IF stage[d] \in Marking THEN "mark" ELSE "apply"
MutStepThrows(d) == /\ Enter(d, FirstLine(d)) /\ UNCHANGED attempts
MutStepThrowsLate(d) ==
  IF attempts[d] < MaxAttempts
  THEN /\ Enter(d, FirstLine(d))
       /\ attempts' = [attempts EXCEPT ![d] = @ + 1]
  ELSE /\ Enter(d, "errored") /\ UNCHANGED attempts
StepThrows(d) ==
  IF attempts[d] + 1 < MaxAttempts
  THEN /\ Enter(d, FirstLine(d))
       /\ attempts' = [attempts EXCEPT ![d] = @ + 1]
  ELSE /\ Enter(d, "errored") /\ UNCHANGED attempts

-----------------------------------------------------------------------------
\* submitForReview.  Creating an instance under a used id fails, so a document
\* has one review in its life.
Submit(d) ==
  /\ Exists(d) /\ row[d].status \in {"draft", "pending_review"}
  /\ stage[d] = "none" /\ Enter(d, "mark")
  /\ UNCHANGED <<vars, attempts, mailbox, decision, object, sent>>

\* handleReviewDecision looks at the row only for access, not for its status.
SendDecision(d, verdict) ==
  /\ sent < MaxDecisions /\ Exists(d) /\ stage[d] \notin {"none"} \cup Over
  /\ sent' = sent + 1
  /\ mailbox' = [mailbox EXCEPT ![d] = Append(@, verdict)]
  /\ UNCHANGED <<vars, stage, attempts, decision, object>>

\* Step "mark pending review".
MarkRead(d) ==
  /\ stage[d] = "mark"
  /\ \/ ~Exists(d) /\ StepThrows(d)
     \/ /\ Exists(d)
        /\ IF row[d].status = "pending_review" THEN Done(d, "wait")
           ELSE Enter(d, "marking") /\ UNCHANGED attempts
  /\ UNCHANGED <<vars, mailbox, decision, object, sent>>

\* setStatus as a step calls it: from any status, but not in the trash.  If its
\* UPDATE changed nothing, it reads the row, and throws if that is in the trash.
MarkSet(d) ==
  /\ stage[d] = "marking"
  /\ \/ ~Settable(d) /\ Enter(d, "unmarked") /\ UNCHANGED <<row, attempts>>
     \/ /\ Settable(d) /\ row' = [row EXCEPT ![d].status = "pending_review"]
        /\ Done(d, "wait")
  /\ UNCHANGED <<versions, jobs, queue, bucket, issued, requestVars, purgeVars, faults,
                 lapsed, mailbox, decision, object, sent>>

MarkUnset(d) ==
  /\ stage[d] = "unmarked"
  /\ \/ InTrash(d) /\ StepThrows(d)
     \/ ~InTrash(d) /\ Done(d, "wait")
  /\ UNCHANGED <<vars, mailbox, decision, object, sent>>

\* waitForEvent: the oldest decision, or none for seven days.
Receive(d) ==
  /\ stage[d] = "wait" /\ mailbox[d] # <<>>
  /\ decision' = [decision EXCEPT ![d] = Head(mailbox[d])]
  /\ mailbox'  = [mailbox EXCEPT ![d] = Tail(@)]
  /\ Enter(d, "apply")
  /\ UNCHANGED <<vars, attempts, object, sent>>

Timeout(d) ==
  /\ stage[d] = "wait" /\ mailbox[d] = <<>> /\ Enter(d, "errored")
  /\ UNCHANGED <<vars, attempts, mailbox, decision, object, sent>>

-----------------------------------------------------------------------------
\* Step "apply review decision".
DecidedStatus(d) == IF decision[d] = "approve" THEN "active" ELSE "draft"

AfterStatus(d)   == IF decision[d] = "approve" THEN "reread" ELSE "audit"

ApplySet(d) ==
  /\ stage[d] = "apply"
  /\ \/ ~Settable(d) /\ Enter(d, "unapplied") /\ UNCHANGED row
     \/ /\ Settable(d) /\ row' = [row EXCEPT ![d].status = DecidedStatus(d)]
        /\ Enter(d, AfterStatus(d))
  /\ UNCHANGED <<versions, jobs, queue, bucket, issued, requestVars, purgeVars, faults,
                 lapsed, attempts, mailbox, decision, object, sent>>

ApplyUnset(d) ==
  /\ stage[d] = "unapplied"
  /\ \/ InTrash(d) /\ StepThrows(d)
     \/ ~InTrash(d) /\ Enter(d, AfterStatus(d)) /\ UNCHANGED attempts
  /\ UNCHANGED <<vars, mailbox, decision, object, sent>>

ApplyReread(d) ==
  /\ stage[d] = "reread"
  /\ \/ ~Exists(d) /\ Enter(d, "audit") /\ UNCHANGED object
     \/ /\ Exists(d) /\ Enter(d, "metaget")
        /\ object' = [object EXCEPT ![d] = <<row[d].key>>]
  /\ UNCHANGED <<vars, attempts, mailbox, decision, sent>>

ApplyMetadataGet(d) ==
  /\ stage[d] = "metaget"
  /\ LET k == object[d][1] IN
     \/ /\ k \notin DOMAIN bucket /\ Enter(d, "jobrow")
        /\ object' = [object EXCEPT ![d] = <<>>]
     \/ /\ k \in DOMAIN bucket /\ Enter(d, "metaput")
        /\ object' = [object EXCEPT ![d] = <<k, bucket[k].content>>]
  /\ UNCHANGED <<vars, attempts, mailbox, decision, sent>>

ApplyMetadataPut(d) ==
  /\ stage[d] = "metaput" /\ Enter(d, "jobrow")
  /\ object' = [object EXCEPT ![d] = <<>>]
  /\ bucket' = Stored(object[d][1], [content |-> object[d][2], status |-> "active"])
  /\ UNCHANGED <<tables, queue, issued, requestVars, purgeVars, faults, lapsed,
                 attempts, mailbox, decision, sent>>

\* A run of the step makes a job of its own, whatever the runs before it made.
JobOf(d) == <<d, attempts[d]>>

ApplyJob(d) ==
  /\ stage[d] = "jobrow"
  /\ \/ ~Exists(d) /\ StepThrows(d) /\ UNCHANGED jobs
     \/ /\ Exists(d) /\ jobs' = [jobs EXCEPT ![JobOf(d)] = "queued"]
        /\ Enter(d, "message") /\ UNCHANGED attempts
  /\ UNCHANGED <<row, versions, queue, bucket, issued, requestVars, purgeVars, faults,
                 lapsed, mailbox, decision, object, sent>>

ApplySend(d) ==
  /\ stage[d] = "message" /\ Enter(d, "audit") /\ queue' = queue \cup {JobOf(d)}
  /\ UNCHANGED <<tables, bucket, issued, requestVars, purgeVars, faults, lapsed,
                 attempts, mailbox, decision, object, sent>>

ApplyAudit(d) ==
  /\ stage[d] = "audit" /\ Done(d, "complete")
  /\ UNCHANGED <<vars, mailbox, decision, object, sent>>

\* A call of a step fails, or its isolate goes away, with part of it done.
StepFails(d) ==
  /\ stage[d] \in Marking \cup Applying /\ faults < MaxFaults
  /\ faults' = faults + 1 /\ StepThrows(d)
  /\ UNCHANGED <<tables, queue, bucket, issued, requestVars, purgeVars, lapsed,
                 mailbox, decision, object, sent>>

-----------------------------------------------------------------------------
InstanceStep(d) ==
  \/ MarkRead(d) \/ MarkSet(d) \/ MarkUnset(d) \/ Receive(d) \/ Timeout(d)
  \/ ApplySet(d) \/ ApplyUnset(d) \/ ApplyReread(d) \/ ApplyMetadataGet(d) \/ ApplyMetadataPut(d)
  \/ ApplyJob(d) \/ ApplySend(d) \/ ApplyAudit(d)

ReviewNext ==
  \/ Next /\ UNCHANGED reviewVars
  \/ \E d \in Doc : Submit(d) \/ InstanceStep(d) \/ StepFails(d)
  \/ \E d \in Doc, verdict \in Verdict : SendDecision(d, verdict)

ReviewSpec == ReviewInit /\ [][ReviewNext]_allVars

\* The platform runs the instances; a wait of seven days comes to an end.
FairReviewSpec == ReviewSpec /\ \A d \in Doc : WF_allVars(InstanceStep(d))

-----------------------------------------------------------------------------
(* Properties.                                                              *)

\* Every instance is at a known stage with the data that stage needs.
ReviewTypeOK ==
  /\ TypeOK
  /\ stage \in [Doc -> {"none", "wait"} \cup Marking \cup Applying \cup Over]
  /\ attempts \in [Doc -> 0..MaxAttempts - 1]
  /\ decision \in [Doc -> Verdict \cup {"none"}]
  /\ sent \in 0..MaxDecisions
  /\ \A d \in Doc : /\ stage[d] \in Applying => decision[d] \in Verdict
                    /\ object[d] # <<>> => object[d][1] \in Key

\* Every submitted review comes to an end, approved, rejected, timed out or
\* given up, whatever happens to its document meanwhile.
ReviewEnds == \A d \in Doc : stage[d] # "none" ~> stage[d] \in Over
=============================================================================
