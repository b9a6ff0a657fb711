------------------------------ MODULE Ingestion ------------------------------
(***************************************************************************)
(* The consumer of INGESTION_QUEUE and of its dead-letter queue, beside    *)
(* the requests that send to it and the purge that removes the rows it     *)
(* writes to.                                                              *)
(*                                                                         *)
(* Of Cloudflare Queues it uses this much: a message that is sent is       *)
(* delivered until a delivery acknowledges it, now and then more than once *)
(* at a time; after MaxRetries more failures than one it moves to the      *)
(* dead-letter queue, and after DeadRetries more there it is dropped.      *)
(***************************************************************************)
EXTENDS Documents

CONSTANTS Worker,        \* deliveries under way at once
          MaxRetries,    \* max_retries of the queue (5 in wrangler.jsonc),
          DeadRetries,   \* and of its dead-letter queue (1)
          MaxDuplicates  \* how many deliveries may be of a message still out

ASSUME IngestionAssumption ==
  MaxRetries \in Nat /\ DeadRetries \in Nat /\ MaxDuplicates \in Nat

VARIABLES
  place,       \* where the message of each job is
  tries,       \* its failed deliveries there
  worker,      \* what each delivery is doing
  duplicates,
  dead         \* history: jobs whose message has ever been dead-lettered

deliveryVars  == <<place, tries, worker, duplicates, dead>>
ingestionVars == <<vars, deliveryVars>>

Step  == {"idle", "processing", "document", "completed", "missing", "dead", "ack"}
Idle  == [at |-> "idle"]
Place == {"queue", "dlq", "acked", "dropped"}

IngestionInit ==
  /\ Init
  /\ place = [j \in Req |-> "queue"] /\ tries = [j \in Req |-> 0]
  /\ worker = [w \in Worker |-> Idle] /\ duplicates = 0 /\ dead = {}

-----------------------------------------------------------------------------
Out(j) == \E w \in Worker : worker[w] # Idle /\ worker[w].job = j

At(w, l) == worker' = [worker EXCEPT ![w].at = l]

\* handleQueueBatch branches on the queue the batch is from.
Deliver(w, j) ==
  /\ worker[w] = Idle /\ j \in queue /\ place[j] \in {"queue", "dlq"}
  /\ \/ ~Out(j) /\ UNCHANGED duplicates
     \/ Out(j) /\ duplicates < MaxDuplicates /\ duplicates' = duplicates + 1
  /\ worker' = [worker EXCEPT ![w] =
                  [at |-> IF place[j] = "dlq" THEN "dead" ELSE "processing", job |-> j]]
  /\ UNCHANGED <<vars, place, tries, dead>>

\* markProcessing, markCompleted and markFailed name the id and nothing else: a
\* row that is gone is not missed, and any status is replaced.
Marked(j, s) == [jobs EXCEPT ![j] = IF @ = "none" THEN "none" ELSE s]

Mark(w, at, s, l) ==
  /\ worker[w].at = at
  /\ jobs' = Marked(worker[w].job, s) /\ At(w, l)
  /\ UNCHANGED <<row, versions, queue, bucket, issued, requestVars, purgeVars, faults, lapsed,
                 place, tries, duplicates, dead>>

\* processIngestionJob.  Whether the document is still active decides nothing:
\* either way the job is completed.
MarkProcessing(w) == Mark(w, "processing", "processing", "document")

ReadDocument(w) ==
  /\ worker[w].at = "document"
  /\ At(w, IF Exists(req[worker[w].job].doc) THEN "completed" ELSE "missing")
  /\ UNCHANGED <<vars, place, tries, duplicates, dead>>

MarkCompleted(w) == Mark(w, "completed", "completed", "ack")
MarkMissing(w)   == Mark(w, "missing", "failed", "ack")     \* DOCUMENT_NOT_FOUND

\* processDeadLetterJob: MAX_RETRIES_EXCEEDED.
MarkDead(w) == Mark(w, "dead", "failed", "ack")

Ack(w) ==
  /\ worker[w].at = "ack"
  /\ place' = [place EXCEPT ![worker[w].job] = "acked"]
  /\ worker' = [worker EXCEPT ![w] = Idle]
  /\ UNCHANGED <<vars, tries, duplicates, dead>>

\* Where a message goes after one more failure; one acknowledged meanwhile, by
\* another delivery of it, stays so.
MutAfterFailure(j) == "acked"
MutAfterFailureForever(j) == place[j]
AfterFailure(j) ==
  CASE place[j] = "queue" /\ tries[j] >= MaxRetries -> "dlq"
    [] place[j] = "dlq" /\ tries[j] >= DeadRetries  -> "dropped"
    [] OTHER -> place[j]

\* A call of the consumer throws and it asks for a retry, or its isolate is gone
\* and the acknowledgement never comes.
Throw(w) ==
  /\ worker[w] # Idle /\ faults < MaxFaults /\ faults' = faults + 1
  /\ LET j == worker[w].job IN
     /\ place' = [place EXCEPT ![j] = AfterFailure(j)]
     /\ tries' = [tries EXCEPT ![j] = IF AfterFailure(j) = place[j] THEN @ + 1 ELSE 0]
     /\ dead' = IF AfterFailure(j) = "dlq" THEN dead \cup {j} ELSE dead
  /\ worker' = [worker EXCEPT ![w] = Idle]
  /\ UNCHANGED <<tables, queue, bucket, issued, requestVars, purgeVars, lapsed, duplicates>>

-----------------------------------------------------------------------------
ConsumerStep(w) ==
  \/ \E j \in Req : Deliver(w, j)
  \/ MarkProcessing(w) \/ ReadDocument(w) \/ MarkCompleted(w) \/ MarkMissing(w)
  \/ MarkDead(w) \/ Ack(w)

IngestionNext ==
  \/ Next /\ UNCHANGED deliveryVars
  \/ \E w \in Worker : ConsumerStep(w) \/ Throw(w)

IngestionSpec == IngestionInit /\ [][IngestionNext]_ingestionVars

\* A message that waits is delivered, and a delivery goes on or fails.
FairIngestionSpec == /\ IngestionSpec
                     /\ \A w \in Worker : WF_ingestionVars(ConsumerStep(w))

-----------------------------------------------------------------------------
(* Properties.                                                              *)

\* Deliveries, messages and counters are what they can be, and a delivery is of
\* a message that was sent.
IngestionTypeOK ==
  /\ TypeOK
  /\ place \in [Req -> Place] /\ duplicates \in 0..MaxDuplicates /\ dead \subseteq Req
  /\ \A j \in Req : tries[j] \in 0..IF place[j] = "queue" THEN MaxRetries
                                    ELSE IF place[j] = "dlq" THEN DeadRetries ELSE MaxFaults
  /\ \A w \in Worker : worker[w] = Idle \/
       worker[w] \in [at : Step \ {"idle"}, job : queue]

\* A job row always has its document, so what makes a job failed is a message
\* that ran out of retries, whatever the purge did between the steps of a
\* delivery (documents.repository.ts, purgeDocument deletes jobs and row in one
\* batch; service.ts, DOCUMENT_NOT_FOUND).
OnlyDeadLettersFail ==
  \A j \in Req : /\ jobs[j] = "failed" => j \in dead
                 /\ jobs[j] # "none" => Exists(req[j].doc)

\* A job whose message was sent is settled, or gone with its document, as long as
\* failures are too few to have the dead letter itself dropped.  It need not stay
\* so: a second delivery marks it as processing again.
JobsSettle ==
  \A j \in Req :
    j \in queue /\ jobs[j] = "queued" ~> jobs[j] \in {"completed", "failed", "none"}
=============================================================================
