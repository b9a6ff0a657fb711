-------------------------- MODULE BackgroundProofs --------------------------
(***************************************************************************)
(* What goes on beside the requests: the consumer of the queue and the     *)
(* publish workflow, for any number of requests, deliveries at once,       *)
(* retries, duplicates and reviews.  The theorems are about IngestionSpec  *)
(* and ReviewSpec apart; both stand on the lemmas of DocumentsProofs,      *)
(* since a step of the store is one of Documents in either.                *)
(***************************************************************************)
EXTENDS Ingestion, PublishReview, DocumentsProofs

-----------------------------------------------------------------------------
(* The consumer, which writes nothing of the store but jobs.                *)

\* The request whose message was sent has nothing more to write (so that a row
\* that is gone is never made again).
Sent == Answered \cup {"answer"}

\* A job has its document, and only a dead letter has failed.
JobsInv ==
  /\ \A j \in Req : jobs[j] # "none" => pc[j] # "idle" /\ Exists(req[j].doc)
  /\ queue \subseteq {j \in Req : pc[j] \in Sent}
  /\ \A j \in Req : jobs[j] = "failed" => j \in dead

Delivery == [at : Step \ {"idle"}, job : queue]

\* What a delivery knows of its job by the step it has come to.
DeliveriesKnow ==
  /\ worker \in [Worker -> {Idle} \cup Delivery]
  /\ \A w \in Worker : worker[w] # Idle =>
       /\ worker[w].at = "missing" => jobs[worker[w].job] = "none"
       /\ worker[w].at = "dead" => worker[w].job \in dead

\* Each failure of a message is one of the faults there have been.
Counted ==
  /\ place \in [Req -> Place] /\ tries \in [Req -> Nat]
  /\ duplicates \in 0..MaxDuplicates /\ dead \subseteq Req
  /\ \A j \in Req : /\ tries[j] <= faults
                    /\ place[j] = "queue" => tries[j] <= MaxRetries
                    /\ place[j] = "dlq" => tries[j] <= DeadRetries /\ j \in dead

IngestionInv == TypeOK /\ IdsAreFresh /\ JobsInv /\ DeliveriesKnow /\ Counted

-----------------------------------------------------------------------------
(* What a step of the store does to jobs and messages.                      *)

\* Jobs are made by requests and deleted with their document, and a message is
\* sent by the request that made its job.
LEMMA JobWriters ==
  ASSUME [Next]_vars
  PROVE  /\ UNCHANGED jobs \/ PurgeRow \/ \E r \in Req : JobCreate(r)
         /\ UNCHANGED queue \/ \E r \in Req : JobSend(r)
<1> USE DEF tables
<1>1. ASSUME NEW r \in Req, NEW d \in Doc, Starts(r, d) \/ Restore(r, d)
      PROVE  UNCHANGED <<jobs, queue>>
  BY <1>1 DEF Starts, CreateStart, EditStart, RollbackStart, TransitionStart, TrashStart,
              ReindexStart, Restore
<1>2. ASSUME NEW r \in Req, RequestStep(r) \/ Crash(r)
      PROVE  /\ UNCHANGED jobs \/ JobCreate(r)
             /\ UNCHANGED queue \/ JobSend(r)
  BY <1>2 DEF RequestStep, Put, CreateInsert, EditCheck, Commit, SetStatus, ExplainUnset,
              MetadataGet, MetadataPut, TrashCommit, JobCreate, JobSend, ReadUpdated, Crash
<1>3. CASE Unattended
  BY <1>3 DEF Unattended, RetentionElapses, PurgeStep, PurgeFind, PurgeCollect, PurgeDelete,
              PurgeRow, PurgeRefused, PurgeFail, PurgeCrash, vars
<1> QED BY <1>1, <1>2, <1>3, Steps

\* Faults are only counted up.
LEMMA FaultsGrow ==
  ASSUME TypeOK, [Next]_vars
  PROVE  faults \in Nat /\ faults' \in Nat /\ faults <= faults'
<1>1. faults \in Nat
  BY ConstantsAssumption DEF TypeOK
<1>2. faults' = faults \/ faults' = faults + 1
  <2>1. ASSUME NEW r \in Req, NEW d \in Doc, Starts(r, d) \/ Restore(r, d)
        PROVE  UNCHANGED faults
    BY <2>1 DEF Starts, CreateStart, EditStart, RollbackStart, TransitionStart, TrashStart,
                ReindexStart, Restore
  <2>2. ASSUME NEW r \in Req, RequestStep(r) PROVE UNCHANGED faults
    BY <2>2 DEF RequestStep, Put, CreateInsert, EditCheck, Commit, SetStatus, ExplainUnset,
                MetadataGet, MetadataPut, TrashCommit, JobCreate, JobSend, ReadUpdated
  <2>3. ASSUME NEW r \in Req, Crash(r) PROVE faults' = faults + 1
    BY <2>3 DEF Crash
  <2>4. CASE Unattended
    BY <2>4 DEF Unattended, RetentionElapses, PurgeStep, PurgeFind, PurgeCollect,
                PurgeDelete, PurgeRow, PurgeRefused, PurgeFail, PurgeCrash, vars
  <2> QED BY <2>1, <2>2, <2>3, <2>4, Steps
<1> QED BY <1>1, <1>2

\* What a request has sent stays sent.
LEMMA SentStays ==
  ASSUME TypeOK, [Next]_vars, NEW r \in Req, pc[r] \in Sent
  PROVE  pc'[r] \in Sent
<1>1. ASSUME NEW t \in Req, NEW d \in Doc, Starts(t, d) \/ Restore(t, d)
      PROVE  pc'[r] \in Sent
  BY <1>1, StartEffect DEF Started, Answered, Sent
<1>2. ASSUME NEW t \in Req, RequestStep(t) \/ Crash(t), t # r
      PROVE  pc'[r] \in Sent
  BY <1>2, StepEffect DEF MovedOn
<1>4. ASSUME RequestStep(r) \/ Crash(r)
      PROVE  pc'[r] \in Sent
  <2>1. pc[r] \in Working /\ pc[r] \notin Working \ {"answer"} /\ (ReadUpdated(r) \/ Crash(r))
    BY <1>4 DEF RequestStep, Put, CreateInsert, EditCheck, Commit, SetStatus, ExplainUnset,
                MetadataGet, MetadataPut, TrashCommit, JobCreate, JobSend, ReadUpdated, Crash,
                InFlight, Working, Sent, Answered
  <2> QED BY <2>1 DEF ReadUpdated, Crash, Goto, TypeOK, Sent, Answered
<1>3. CASE Unattended
  BY <1>3, UnattendedEffect
<1> QED BY <1>1, <1>2, <1>3, <1>4, Steps

\* A document disappears only when its row is purged.
LEMMA Deaths ==
  ASSUME TypeOK, TypeOK', [Next]_vars, NEW d \in Doc, Exists(d), ~Exists(d)'
  PROVE  PurgeRow /\ purging = d
<1>1. /\ row \in [Doc -> Row \cup {NoRow}] /\ row[d] \in Row
      /\ row'[d] \notin Row
  BY ConstantsAssumption DEF TypeOK, Exists
<1>2. ASSUME NEW e \in Doc, NEW w \in Row, row' = [row EXCEPT ![e] = w] PROVE FALSE
  BY <1>1, <1>2
<1>3. ASSUME NEW r \in Req, CreateInsert(r) PROVE FALSE
  <2>1. req[r] \in Request
    BY <1>3 DEF CreateInsert, TypeOK
  <2>2. PICK e \in Doc : e = req[r].doc
    BY <2>1 DEF Request
  <2> DEFINE w == FirstRow(e, "draft", req[r].key, req[r].content)
  <2>3. w \in Row
    BY <2>1, FirstRowType DEF Request, Status
  <2>4. row' = row \/ row' = [row EXCEPT ![e] = w]
    BY <1>3, <2>2 DEF CreateInsert
  <2> HIDE DEF w
  <2> QED BY <1>1, <1>2, <2>3, <2>4
<1>4. ASSUME NEW r \in Req, Commit(r) PROVE FALSE
  <2>1. req[r] \in Request
    BY <1>4 DEF Commit, TypeOK
  <2>2. PICK e \in Doc : e = req[r].doc
    BY <2>1 DEF Request
  <2> DEFINE w == [row[e] EXCEPT !.version = req[r].base + 1, !.key = req[r].key,
                                 !.content = req[r].content]
  <2>3. row' = row \/ (Exists(e) /\ row' = [row EXCEPT ![e] = w])
    BY <1>1, <1>4, <2>2 DEF Commit, CanInsertVersion
  <2>4. /\ req[r].base + 1 \in Nat \ {0} /\ req[r].key \in Key /\ req[r].content \in Content
        /\ Exists(e) => row[e] \in Row
    BY <1>1, <2>1 DEF Exists, Request
  <2>5. Exists(e) => w \in Row
    BY <2>4 DEF Row
  <2> HIDE DEF w
  <2> QED BY <1>1, <1>2, <2>3, <2>5
<1>5. ASSUME NEW r \in Req, SetStatus(r) PROVE FALSE
  <2>1. req[r] \in Request
    BY <1>5 DEF SetStatus, TypeOK
  <2>2. PICK e \in Doc : e = req[r].doc
    BY <2>1 DEF Request
  <2> DEFINE w == [row[e] EXCEPT !.status = req[r].status]
  <2>3. row' = row \/ (Exists(e) /\ row' = [row EXCEPT ![e] = w])
    BY <1>1, <1>5, <2>2 DEF SetStatus, Settable, Kept
  <2>4. Exists(e) => w \in Row
    BY <1>1, <2>1 DEF Exists, Row, Request
  <2> HIDE DEF w
  <2> QED BY <1>1, <1>2, <2>3, <2>4
<1>6. ASSUME NEW r \in Req, TrashCommit(r) PROVE FALSE
  <2>1. req[r] \in Request
    BY <1>6 DEF TrashCommit, TypeOK
  <2>2. PICK e \in Doc : e = req[r].doc
    BY <2>1 DEF Request
  <2> DEFINE w == [row[e] EXCEPT !.before = row[e].status, !.status = "archived",
                                 !.trashed = "recent"]
  <2>3. row' = row \/ (Exists(e) /\ row' = [row EXCEPT ![e] = w])
    BY <1>1, <1>6, <2>2 DEF TrashCommit, Kept
  <2>4. Exists(e) => w \in Row
    BY <1>1 DEF Exists, Row, Status
  <2> HIDE DEF w
  <2> QED BY <1>1, <1>2, <2>3, <2>4
<1>7. ASSUME NEW r \in Req, NEW e \in Doc, Restore(r, e) PROVE FALSE
  <2> DEFINE s == RestoredStatus(row[e])
             w == [row[e] EXCEPT !.status = s, !.before = "none", !.trashed = "no"]
  <2>1. Exists(e) /\ row[e] \in Row
    BY <1>1, <1>7 DEF Restore, InTrash, Exists
  <2>2. s \in Status
    BY <2>1 DEF RestoredStatus, Row
  <2> HIDE DEF s
  <2>3. w \in Row
    BY <2>1, <2>2 DEF Row
  <2>4. row' = [row EXCEPT ![e] = w]
    BY <1>1, <1>7 DEF Restore, s
  <2> HIDE DEF w
  <2> QED BY <1>2, <2>3, <2>4
<1>8. ASSUME NEW e \in Doc, RetentionElapses(e) PROVE FALSE
  <2> DEFINE w == [row[e] EXCEPT !.trashed = "expired"]
  <2>1. w \in Row /\ row' = [row EXCEPT ![e] = w]
    BY <1>1, <1>8 DEF RetentionElapses, Exists, Row
  <2> HIDE DEF w
  <2> QED BY <1>2, <2>1
<1>9. PurgeRow => purging = d
  BY <1>1 DEF PurgeRow
<1> QED BY <1>1, <1>3, <1>4, <1>5, <1>6, <1>7, <1>8, <1>9, Writers

\* A job stays, goes with its document or is made for a request not yet answered.
LEMMA JobFate ==
  ASSUME TypeOK, [Next]_vars, NEW j \in Req
  PROVE  \/ jobs'[j] = jobs[j]
         \/ jobs'[j] = "none"
         \/ pc[j] = "job" /\ Exists(req[j].doc) /\ jobs'[j] = "queued" /\ UNCHANGED row
<1>1. j \in Job /\ jobs \in [Job -> {"none", "queued", "processing", "completed", "failed"}]
  BY DEF TypeOK, Job
<1>2. CASE PurgeRow
  BY <1>1, <1>2 DEF PurgeRow
<1>3. ASSUME NEW r \in Req, JobCreate(r)
      PROVE  jobs'[j] = jobs[j] \/ (r = j /\ jobs'[j] = "queued" /\ Exists(req[j].doc))
  BY <1>1, <1>3 DEF JobCreate
<1>4. ASSUME JobCreate(j) PROVE pc[j] = "job" /\ UNCHANGED row
  BY <1>4 DEF JobCreate
<1> QED BY <1>1, <1>2, <1>3, <1>4, JobWriters

\* A message is added by the last step of its request that writes.
LEMMA QueueGrows ==
  ASSUME TypeOK, [Next]_vars
  PROVE  /\ queue \subseteq queue'
         /\ \A j \in (queue' \ queue) : j \in Req /\ pc'[j] \in Sent
<1>1. ASSUME NEW r \in Req, JobSend(r)
      PROVE  queue' = queue \cup {r} /\ pc'[r] \in Sent
  BY <1>1 DEF JobSend, Goto, TypeOK, Answered, Sent
<1> QED BY <1>1, JobWriters

\* The requests and the purge keep what the consumer relies on.
LEMMA StoreKeeps ==
  ASSUME IngestionInv, [Next]_vars, UNCHANGED deliveryVars
  PROVE  IngestionInv'
<1> USE DEF IngestionInv, deliveryVars
<1>1. TypeOK' /\ IdsAreFresh'
  BY TypeNext, IdsNext
<1>2. \A j \in queue : j \in Req /\ pc[j] \in Sent
  BY DEF JobsInv
<1>3. JobsInv'
  <2>1. ASSUME NEW j \in Req, jobs'[j] # "none"
        PROVE  pc'[j] # "idle" /\ Exists(req[j].doc)'
    <3>1. /\ pc[j] # "idle" /\ Exists(req[j].doc)
          /\ jobs'[j] = jobs[j] \/ UNCHANGED row
      BY <2>1, JobFate DEF JobsInv
    <3>2. pc'[j] # "idle" /\ req'[j].doc = req[j].doc
      BY <3>1, RequestsKeepTheirDocument
    <3>3. PICK d \in Doc : d = req[j].doc
      BY <3>1 DEF TypeOK, Request
    <3>4. ASSUME ~Exists(d)' PROVE FALSE
      <4>1. PurgeRow /\ purging = d
        BY <1>1, <3>1, <3>3, <3>4, Deaths
      <4>2. j \in JobsOf(purging) /\ j \in Job
        BY <3>1, <3>3, <4>1 DEF JobsOf, Job, TypeOK
      <4> QED BY <2>1, <4>1, <4>2 DEF PurgeRow
    <3> QED BY <3>2, <3>3, <3>4
  <2>2. queue' \subseteq {j \in Req : pc'[j] \in Sent}
    BY <1>2, QueueGrows, SentStays
  <2>3. ASSUME NEW j \in Req, jobs'[j] = "failed" PROVE j \in dead
    BY <2>3, JobFate DEF JobsInv
  <2> QED BY <2>1, <2>2, <2>3 DEF JobsInv
<1>4. DeliveriesKnow'
  <2>1. \A w \in Worker : worker[w] # Idle => worker[w].job \in queue
    BY DEF DeliveriesKnow, Delivery
  <2>2. worker' \in [Worker -> {Idle} \cup Delivery']
    <3>1. Delivery \subseteq Delivery'
      BY QueueGrows DEF Delivery
    <3> QED BY <3>1 DEF DeliveriesKnow
  <2>3. \A j \in queue : jobs[j] = "none" => jobs'[j] = "none"
    BY <1>2, JobFate DEF Sent, Answered
  <2> QED BY <2>1, <2>2, <2>3 DEF DeliveriesKnow
<1>5. Counted'
  BY FaultsGrow DEF Counted
<1> QED BY <1>1, <1>3, <1>4, <1>5

-----------------------------------------------------------------------------
(* What a step of the consumer does.                                        *)

\* The store's own invariants read nothing that the consumer writes but jobs.
LEMMA StoreUntouched ==
  ASSUME TypeOK, IdsAreFresh, UNCHANGED <<row, versions, queue, bucket, issued, pc, req,
         eligible, purging, doomed, lapsed>>,
         jobs' \in [Job -> {"none", "queued", "processing", "completed", "failed"}],
         faults' \in 0..MaxFaults
  PROVE  TypeOK' /\ IdsAreFresh'
BY DEF TypeOK, IdsAreFresh, Drafting, Exists

\* A delivery is of a message that was sent.
LEMMA DeliveryIsOfSent ==
  ASSUME IngestionInv, NEW w \in Worker, worker[w] # Idle
  PROVE  /\ worker[w] \in Delivery /\ worker[w].job \in queue /\ worker[w].job \in Req
         /\ worker[w].at # "idle"
BY DEF IngestionInv, DeliveriesKnow, Delivery, JobsInv

\* A delivery that goes on to its step l knows what it must know there.
LEMMA DeliveryMoves ==
  ASSUME IngestionInv, NEW w \in Worker, worker[w] # Idle, UNCHANGED queue,
         NEW l \in Step \ {"idle"}, At(w, l), dead' = dead,
         \A j \in Req : jobs[j] = "none" => jobs'[j] = "none",
         l = "missing" => jobs'[worker[w].job] = "none",
         l = "dead" => worker[w].job \in dead
  PROVE  DeliveriesKnow'
<1>1. worker[w] \in Delivery
  BY DeliveryIsOfSent
<1>2. worker \in [Worker -> {Idle} \cup Delivery]
  BY DEF IngestionInv, DeliveriesKnow
<1> DEFINE v == [worker[w] EXCEPT !.at = l]
<1>3. v \in Delivery /\ v.at = l /\ v.job = worker[w].job
  BY <1>1 DEF Delivery
<1>4. worker' = [worker EXCEPT ![w] = v]
  BY <1>2 DEF At
<1> HIDE DEF v
<1>5. worker' \in [Worker -> {Idle} \cup Delivery] /\ Delivery' = Delivery
  BY <1>2, <1>3, <1>4 DEF Delivery
<1>6. worker'[w] = v /\ \A u \in Worker \ {w} : worker'[u] = worker[u]
  BY <1>2, <1>4
<1>7. \A u \in Worker : worker[u] # Idle => worker[u].job \in Req
  BY DeliveryIsOfSent
<1> QED BY <1>3, <1>5, <1>6, <1>7 DEF IngestionInv, DeliveriesKnow

\* The statement of a mark fails a job only by a dead letter, and makes none.
LEMMA MarkKeeps ==
  ASSUME IngestionInv, NEW w \in Worker, NEW at \in Step \ {"idle"},
         NEW s \in {"processing", "completed", "failed"}, NEW l \in {"document", "ack"},
         Mark(w, at, s, l),
         s = "failed" => worker[w].job \in dead \/ jobs[worker[w].job] = "none"
  PROVE  IngestionInv'
<1>1. worker[w] # Idle
  BY DEF Mark, Idle, Step
<1> DEFINE j == worker[w].job
<1>2. j \in Req /\ j \in Job
  BY <1>1, DeliveryIsOfSent DEF Job
<1>3. jobs \in [Job -> {"none", "queued", "processing", "completed", "failed"}]
  BY DEF IngestionInv, TypeOK
<1>4. /\ jobs' \in [Job -> {"none", "queued", "processing", "completed", "failed"}]
      /\ jobs'[j] = IF jobs[j] = "none" THEN "none" ELSE s
      /\ \A t \in Job \ {j} : jobs'[t] = jobs[t]
  BY <1>2, <1>3 DEF Mark, Marked
<1>5. /\ UNCHANGED <<row, versions, queue, bucket, issued, pc, req, eligible, purging, doomed,
                     faults, lapsed, place, tries, duplicates, dead>>
      /\ At(w, l)
  BY DEF Mark, requestVars, purgeVars
<1> HIDE DEF j
<1>6. TypeOK' /\ IdsAreFresh'
  BY <1>4, <1>5, StoreUntouched DEF IngestionInv, TypeOK
<1>7. JobsInv'
  BY <1>2, <1>4, <1>5 DEF IngestionInv, JobsInv, Job, Exists, j
<1>8. DeliveriesKnow'
  BY <1>1, <1>2, <1>4, <1>5, DeliveryMoves DEF Step, Job
<1>9. Counted'
  BY <1>5 DEF IngestionInv, Counted
<1> QED BY <1>6, <1>7, <1>8, <1>9 DEF IngestionInv

\* Nothing a step of one delivery does lets a job fail that is no dead letter.
LEMMA ConsumerKeeps ==
  ASSUME IngestionInv, NEW w \in Worker, ConsumerStep(w)
  PROVE  IngestionInv'
<1>1. ASSUME UNCHANGED vars PROVE TypeOK' /\ IdsAreFresh'
  BY <1>1, StoreUntouched DEF IngestionInv, TypeOK, vars, tables, requestVars, purgeVars
<1>2. ASSUME UNCHANGED vars, dead' = dead PROVE JobsInv'
  BY <1>2 DEF IngestionInv, JobsInv, Exists, vars, tables, requestVars
<1>3. ASSUME UNCHANGED vars, UNCHANGED <<tries, dead>>, duplicates' \in 0..MaxDuplicates,
             UNCHANGED place \/ \E j \in Req : place' = [place EXCEPT ![j] = "acked"]
      PROVE  Counted'
  BY <1>3 DEF IngestionInv, Counted, vars, Place
<1>4. ASSUME NEW j \in Req, Deliver(w, j) PROVE IngestionInv'
  <2> DEFINE v == [at |-> IF place[j] = "dlq" THEN "dead" ELSE "processing", job |-> j]
  <2>1. /\ worker \in [Worker -> {Idle} \cup Delivery] /\ worker' = [worker EXCEPT ![w] = v]
        /\ Delivery' = Delivery
    BY <1>4 DEF Deliver, IngestionInv, DeliveriesKnow, vars, Delivery
  <2>2. v \in Delivery /\ v.at # "missing" /\ (v.at = "dead" => v.job \in dead)
    BY <1>4 DEF Deliver, Delivery, Step, IngestionInv, Counted
  <2> HIDE DEF v
  <2>3. worker'[w] = v /\ \A u \in Worker \ {w} : worker'[u] = worker[u]
    BY <2>1
  <2>4. DeliveriesKnow'
    BY <1>4, <2>1, <2>2, <2>3 DEF Deliver, IngestionInv, DeliveriesKnow, vars, tables
  <2>5. duplicates' \in 0..MaxDuplicates
    BY <1>4, IngestionAssumption DEF Deliver, IngestionInv, Counted
  <2> QED BY <1>1, <1>2, <1>3, <1>4, <2>4, <2>5 DEF Deliver, IngestionInv
<1>5. ASSUME ReadDocument(w) PROVE IngestionInv'
  <2> DEFINE j == worker[w].job
             l == IF Exists(req[j].doc) THEN "completed" ELSE "missing"
  <2>1. worker[w] # Idle
    BY <1>5 DEF ReadDocument, Idle
  <2>2. j \in Req /\ l \in Step \ {"idle"} /\ l # "dead"
    BY <2>1, DeliveryIsOfSent DEF Step
  <2>3. l = "missing" => jobs[j] = "none"
    BY <2>2 DEF IngestionInv, JobsInv
  <2>4. UNCHANGED vars /\ At(w, l) /\ UNCHANGED <<place, tries, duplicates, dead>>
    BY <1>5 DEF ReadDocument
  <2>5. UNCHANGED <<queue, jobs>>
    BY <2>4 DEF vars, tables
  <2> HIDE DEF l
  <2>6. DeliveriesKnow'
    BY <2>1, <2>2, <2>3, <2>4, <2>5, DeliveryMoves
  <2>7. Counted'
    BY <1>3, <2>4 DEF IngestionInv, Counted
  <2> QED BY <1>1, <1>2, <2>4, <2>6, <2>7 DEF IngestionInv
<1>6. ASSUME MarkProcessing(w) PROVE IngestionInv'
  BY <1>6, MarkKeeps DEF MarkProcessing, Step
<1>7. ASSUME MarkCompleted(w) PROVE IngestionInv'
  BY <1>7, MarkKeeps DEF MarkCompleted, Step
<1>8. ASSUME MarkMissing(w) PROVE IngestionInv'
  <2>1. jobs[worker[w].job] = "none"
    BY <1>8 DEF MarkMissing, Mark, IngestionInv, DeliveriesKnow, Idle
  <2> QED BY <1>8, <2>1, MarkKeeps DEF MarkMissing, Step
<1>9. ASSUME MarkDead(w) PROVE IngestionInv'
  <2>1. worker[w].job \in dead
    BY <1>9 DEF MarkDead, Mark, IngestionInv, DeliveriesKnow, Idle
  <2> QED BY <1>9, <2>1, MarkKeeps DEF MarkDead, Step
<1>10. ASSUME Ack(w) PROVE IngestionInv'
  <2>1. worker[w] # Idle
    BY <1>10 DEF Ack, Idle
  <2>2. worker[w].job \in Req
    BY <2>1, DeliveryIsOfSent
  <2>3. DeliveriesKnow'
    BY <1>10 DEF Ack, IngestionInv, DeliveriesKnow, Delivery, vars, tables
  <2>4. Counted'
    BY <1>3, <1>10, <2>2 DEF Ack, IngestionInv, Counted
  <2> QED BY <1>1, <1>2, <1>10, <2>3, <2>4 DEF Ack, IngestionInv
<1> QED BY <1>4, <1>5, <1>6, <1>7, <1>8, <1>9, <1>10 DEF ConsumerStep

\* A failure counts one more try, or moves the message on.
LEMMA ThrowKeeps ==
  ASSUME IngestionInv, NEW w \in Worker, Throw(w)
  PROVE  IngestionInv'
<1> DEFINE j == worker[w].job
<1>1. j \in Req /\ worker[w] # Idle
  BY DeliveryIsOfSent DEF Throw
<1>2. /\ UNCHANGED <<row, versions, jobs, queue, bucket, issued, pc, req, eligible, purging,
                     doomed, lapsed, duplicates>>
      /\ faults \in Nat /\ faults < MaxFaults /\ faults' = faults + 1
      /\ worker' = [worker EXCEPT ![w] = Idle]
      /\ place' = [place EXCEPT ![j] = AfterFailure(j)]
      /\ tries' = [tries EXCEPT ![j] = IF AfterFailure(j) = place[j] THEN @ + 1 ELSE 0]
      /\ dead' = IF AfterFailure(j) = "dlq" THEN dead \cup {j} ELSE dead
  BY DEF Throw, tables, requestVars, purgeVars, IngestionInv, TypeOK
<1> HIDE DEF j
<1>3. TypeOK' /\ IdsAreFresh'
  BY <1>2, StoreUntouched, ConstantsAssumption DEF IngestionInv, TypeOK
<1>4. JobsInv'
  BY <1>1, <1>2 DEF IngestionInv, JobsInv, Exists
<1>5. DeliveriesKnow'
  BY <1>1, <1>2 DEF IngestionInv, DeliveriesKnow, Delivery
<1>6. Counted'
  <2>1. place \in [Req -> Place] /\ tries \in [Req -> Nat] /\ tries[j] \in Nat
    BY <1>1 DEF IngestionInv, Counted
  <2>2. AfterFailure(j) \in Place
    BY <1>1, <2>1 DEF AfterFailure, Place
  <2>3. /\ place' \in [Req -> Place] /\ tries' \in [Req -> Nat] /\ dead' \subseteq Req
        /\ place'[j] = AfterFailure(j)
        /\ tries'[j] = IF AfterFailure(j) = place[j] THEN tries[j] + 1 ELSE 0
        /\ \A t \in Req \ {j} : place'[t] = place[t] /\ tries'[t] = tries[t]
    BY <1>1, <1>2, <2>1, <2>2 DEF IngestionInv, Counted
  <2>4. /\ tries'[j] <= faults'
        /\ AfterFailure(j) = "queue" => tries'[j] <= MaxRetries
        /\ AfterFailure(j) = "dlq" => tries'[j] <= DeadRetries /\ j \in dead'
    BY <1>1, <1>2, <2>1, <2>3, IngestionAssumption DEF IngestionInv, Counted, AfterFailure, Place
  <2> QED BY <1>2, <2>3, <2>4 DEF IngestionInv, Counted
<1> QED BY <1>3, <1>4, <1>5, <1>6 DEF IngestionInv

-----------------------------------------------------------------------------
\* Nothing is sent, delivered or failed before the behaviour starts.
LEMMA IngestionStarts == IngestionInit => IngestionInv
<1> SUFFICES ASSUME IngestionInit PROVE IngestionInv
  OBVIOUS
<1>1. TypeOK
  BY TypeInit DEF IngestionInit
<1>2. IdsAreFresh
  BY HistoryInit DEF IngestionInit, HistoryInv
<1>3. /\ jobs = [j \in Job |-> "none"] /\ queue = {} /\ faults = 0
      /\ place = [j \in Req |-> "queue"] /\ tries = [j \in Req |-> 0]
      /\ worker = [w \in Worker |-> Idle] /\ duplicates = 0 /\ dead = {}
  BY DEF IngestionInit, Init
<1>4. JobsInv
  BY <1>3 DEF JobsInv, Job
<1>5. DeliveriesKnow
  BY <1>3 DEF DeliveriesKnow
<1>6. Counted
  BY <1>3, IngestionAssumption DEF Counted, Place
<1> QED BY <1>1, <1>2, <1>4, <1>5, <1>6 DEF IngestionInv

\* Every step of a request, the purge or a delivery keeps it.
LEMMA IngestionKeeps == IngestionInv /\ [IngestionNext]_ingestionVars => IngestionInv'
<1> SUFFICES ASSUME IngestionInv, [IngestionNext]_ingestionVars PROVE IngestionInv'
  OBVIOUS
<1>1. CASE [Next]_vars /\ UNCHANGED deliveryVars
  BY <1>1, StoreKeeps
<1>2. CASE \E w \in Worker : ConsumerStep(w) \/ Throw(w)
  BY <1>2, ConsumerKeeps, ThrowKeeps
<1> QED BY <1>1, <1>2 DEF IngestionNext, ingestionVars

\* In every state of the consumer, the invariant holds.
LEMMA IngestionAlways == IngestionSpec => []IngestionInv
BY IngestionStarts, IngestionKeeps, PTL DEF IngestionSpec

\* Messages, deliveries and their counters are always what they can be: a message
\* waits in a queue only while it has tries left there, and a delivery is of a
\* message that was sent.
THEOREM IngestionTypeCorrect == IngestionSpec => []IngestionTypeOK
<1>1. IngestionInv => IngestionTypeOK
  <2> SUFFICES ASSUME IngestionInv PROVE IngestionTypeOK
    OBVIOUS
  <2>1. TypeOK /\ faults \in Nat /\ faults <= MaxFaults
    BY ConstantsAssumption DEF IngestionInv, TypeOK
  <2>2. /\ place \in [Req -> Place] /\ duplicates \in 0..MaxDuplicates /\ dead \subseteq Req
    BY DEF IngestionInv, Counted
  <2>3. ASSUME NEW j \in Req
        PROVE  tries[j] \in 0..IF place[j] = "queue" THEN MaxRetries
                               ELSE IF place[j] = "dlq" THEN DeadRetries ELSE MaxFaults
    <3>1. tries[j] \in Nat /\ tries[j] <= MaxFaults
      BY <2>1, ConstantsAssumption DEF IngestionInv, Counted
    <3> QED BY <3>1, IngestionAssumption, ConstantsAssumption DEF IngestionInv, Counted
  <2>4. \A w \in Worker : worker[w] = Idle \/ worker[w] \in [at : Step \ {"idle"}, job : queue]
    BY DEF IngestionInv, DeliveriesKnow, Delivery
  <2> QED BY <2>1, <2>2, <2>3, <2>4 DEF IngestionTypeOK
<1> QED BY <1>1, IngestionAlways, PTL

\* However deliveries, duplicates, failures and the purge interleave, a job is
\* failed only after its message ran out of retries, and no job outlives its
\* document.
THEOREM DeadLettersAlone == IngestionSpec => []OnlyDeadLettersFail
<1>1. IngestionInv => OnlyDeadLettersFail
  BY DEF IngestionInv, JobsInv, OnlyDeadLettersFail
<1> QED BY <1>1, IngestionAlways, PTL

-----------------------------------------------------------------------------
(* The publish workflow.  Its steps write rows, objects and jobs between     *)
(* those of requests and of the purge; what the store guarantees, and that   *)
(* it implements DocumentLife, outlives them.                                *)

\* All that a step of the workflow does to the store: it sets the status of a
\* document that is not in the trash, adds or replaces an object, adds a job and
\* its message, and may fail.
Reviews(d) ==
  /\ \/ row' = row
     \/ Kept(d) /\ \E s \in Status : row' = [row EXCEPT ![d].status = s]
  /\ DOMAIN bucket \subseteq DOMAIN bucket' /\ DOMAIN bucket' \subseteq Key
  /\ bucket' \in [DOMAIN bucket' -> Object]
  /\ jobs' \in [Job -> {"none", "queued", "processing", "completed", "failed"}]
  /\ queue' \subseteq Job /\ faults' \in 0..MaxFaults
  /\ UNCHANGED <<versions, issued, pc, req, eligible, purging, doomed, lapsed>>

\* A status that is set leaves a row otherwise as it was.
LEMMA StatusIsSet ==
  ASSUME TypeOK, NEW d \in Doc, Kept(d), NEW s \in Status,
         row' = [row EXCEPT ![d].status = s]
  PROVE  \E w \in Row : /\ row' = [row EXCEPT ![d] = w] /\ w.status = s
                        /\ w.version = row[d].version /\ w.key = row[d].key
                        /\ w.content = row[d].content /\ w.trashed = "no"
                        /\ w.before = row[d].before
<1> DEFINE w == [row[d] EXCEPT !.status = s]
<1>1. row[d] \in Row
  BY DEF TypeOK, Kept, Exists
<1>2. row' = [row EXCEPT ![d] = w]
  BY DEF TypeOK
<1>3. /\ w \in Row /\ w.status = s /\ w.version = row[d].version /\ w.key = row[d].key
      /\ w.content = row[d].content /\ w.trashed = "no" /\ w.before = row[d].before
  BY <1>1 DEF Row, Kept
<1> HIDE DEF w
<1> QED BY <1>2, <1>3

\* What the workflow writes breaks nothing the store guarantees.
LEMMA ReviewsKeepStore ==
  ASSUME StoreInv, NEW d \in Doc, Reviews(d)
  PROVE  StoreInv'
<1> USE DEF StoreInv, Reviews
<1>1. \A e \in Doc : Exists(e)' <=> Exists(e)
  <2>1. ASSUME NEW s \in Status, Kept(d), row' = [row EXCEPT ![d].status = s], NEW e \in Doc
        PROVE  Exists(e)' <=> Exists(e)
    <3>1. PICK w \in Row : row' = [row EXCEPT ![d] = w]
      BY <2>1, StatusIsSet
    <3>2. row'[e] = IF e = d THEN w ELSE row[e]
      BY <3>1 DEF TypeOK
    <3> QED BY <2>1, <3>2, ConstantsAssumption DEF Exists, Kept
  <2> QED BY <2>1 DEF Exists
<1>2. \A e \in Doc : Exists(e) =>
        /\ row'[e] \in Row /\ row'[e].version = row[e].version /\ row'[e].key = row[e].key
        /\ row'[e].content = row[e].content /\ row'[e].trashed = row[e].trashed
        /\ row'[e].before = row[e].before
        /\ row[e].trashed # "no" => row'[e].status = row[e].status
  <2>1. ASSUME NEW s \in Status, Kept(d), row' = [row EXCEPT ![d].status = s],
               NEW e \in Doc, Exists(e)
        PROVE  /\ row'[e] \in Row /\ row'[e].version = row[e].version
               /\ row'[e].key = row[e].key /\ row'[e].content = row[e].content
               /\ row'[e].trashed = row[e].trashed /\ row'[e].before = row[e].before
               /\ row[e].trashed # "no" => row'[e].status = row[e].status
    <3>1. PICK w \in Row : /\ row' = [row EXCEPT ![d] = w]
                           /\ w.version = row[d].version /\ w.key = row[d].key
                           /\ w.content = row[d].content /\ w.trashed = "no"
                           /\ w.before = row[d].before
      BY <2>1, StatusIsSet
    <3>2. row'[e] = IF e = d THEN w ELSE row[e]
      BY <3>1 DEF TypeOK
    <3>3. row[e] \in Row
      BY <2>1 DEF Exists, TypeOK
    <3> QED BY <2>1, <3>1, <3>2, <3>3 DEF Kept
  <2>2. \A e \in Doc : Exists(e) => row[e] \in Row
    BY DEF Exists, TypeOK
  <2> QED BY <2>1, <2>2
<1>3. \A r \in Req : pc[r] # "idle" => req[r].doc \in Doc
  BY DEF TypeOK, Request
<1>4. TypeOK'
  <2>1. row' \in [Doc -> Row \cup {NoRow}]
    <3>1. ASSUME NEW s \in Status, Kept(d), row' = [row EXCEPT ![d].status = s]
          PROVE  row' \in [Doc -> Row \cup {NoRow}]
      <4>1. PICK w \in Row : row' = [row EXCEPT ![d] = w]
        BY <3>1, StatusIsSet
      <4> QED BY <4>1 DEF TypeOK
    <3> QED BY <3>1 DEF TypeOK
  <2> QED BY <2>1 DEF TypeOK
<1>5. TrashIsHidden'
  BY <1>1, <1>2 DEF TrashIsHidden, InTrash
<1>6. KeptInv'
  <2>1. KeptUntilLapsed'
    BY DEF KeptInv, KeptUntilLapsed
  <2>2. KeysNameTheirDocument'
    BY <1>1, <1>2 DEF KeptInv, KeysNameTheirDocument
  <2>3. PurgeIsForLapsed'
    BY <1>1, <1>2 DEF KeptInv, PurgeIsForLapsed
  <2>4. UploadedBeforeCommit'
    BY DEF KeptInv, UploadedBeforeCommit
  <2> QED BY <2>1, <2>2, <2>3, <2>4 DEF KeptInv
<1>7. HistoryInv'
  <2>1. HistoryMatchesRow'
    BY <1>1, <1>2 DEF HistoryInv, HistoryMatchesRow, VersionOf
  <2>2. IdsAreFresh'
    BY <1>1, <1>3 DEF HistoryInv, IdsAreFresh, Drafting
  <2>3. ReadsAreNotAhead'
    BY <1>1, <1>2, <1>3 DEF HistoryInv, ReadsAreNotAhead
  <2> QED BY <2>1, <2>2, <2>3 DEF HistoryInv
<1>8. ContentIsAtHome'
  BY DEF AnswersInv, ContentIsAtHome, AtHome
<1>9. EditsInv'
  BY <1>1, <1>3 DEF AnswersInv, EditsInv, Editing, Uncommitted, Recorded, Dismissed, Unspread
<1>10. LifeInv'
  BY <1>1, <1>3 DEF LifeInv, Drafting
<1> QED BY <1>4, <1>5, <1>6, <1>7, <1>8, <1>9, <1>10 DEF AnswersInv

\* Of a document's life a review changes the status, or nothing.
LEMMA ReviewsMap ==
  ASSUME StoreInv, StoreInv', NEW d \in Doc, Reviews(d)
  PROVE  [Life!Next]_(Life!vars)
<1>1. CASE row' = row
  BY <1>1, LifeStutters DEF HistoryInv, StoreInv, Reviews
<1>2. ASSUME NEW s \in Status, Kept(d), row' = [row EXCEPT ![d].status = s]
      PROVE  Life!Next
  <2>1. TypeOK
    BY DEF StoreInv
  <2>2. PICK w \in Row : /\ row' = [row EXCEPT ![d] = w]
                         /\ w.version = row[d].version /\ w.trashed = "no"
    BY <1>2, <2>1, StatusIsSet
  <2>3. Restated(d, w) /\ UNCHANGED lapsed
    BY <1>2, <2>2 DEF Restated, Kept, Reviews
  <2>4. Reached /\ (TypeOK /\ HistoryMatchesRow)'
    BY DEF Reached, KeptInv, StoreInv, HistoryInv
  <2> QED BY <2>3, <2>4, RestatedMaps
<1> QED BY <1>1, <1>2 DEF Reviews

KnownStage == {"none", "wait"} \cup Marking \cup Applying \cup Over

\* An instance has what its step needs: a decision, a key to look for, and then
\* the bytes it found there.
InstanceOK(d) ==
  /\ stage[d] \in Applying => decision[d] \in Verdict
  /\ object[d] # <<>> => object[d][1] \in Key
  /\ stage[d] \in {"metaget", "metaput"} => object[d] # <<>>
  /\ stage[d] = "metaput" => object[d][2] \in Content

InstancesKnow ==
  /\ stage \in [Doc -> KnownStage]
  /\ attempts \in [Doc -> 0..MaxAttempts - 1]
  /\ mailbox \in [Doc -> Seq(Verdict)] /\ decision \in [Doc -> Verdict \cup {"none"}]
  /\ DOMAIN object = Doc /\ sent \in 0..MaxDecisions
  /\ \A d \in Doc : InstanceOK(d)

ReviewInv == StoreInv /\ InstancesKnow

\* Instance d is at l now, and no other has moved.
NowAt(d, l) == /\ stage' \in [Doc -> KnownStage] /\ stage'[d] = l
               /\ \A e \in Doc \ {d} : stage'[e] = stage[e]

\* An instance that goes on to a step, or has one run again, is at a known stage
\* and within its attempts.
LEMMA StageType ==
  ASSUME InstancesKnow, NEW d \in Doc
  PROVE  /\ \A l \in KnownStage : Enter(d, l) => NowAt(d, l)
         /\ \A l : Done(d, l) => Enter(d, l) /\ attempts' \in [Doc -> 0..MaxAttempts - 1]
         /\ StepThrows(d) => /\ attempts' \in [Doc -> 0..MaxAttempts - 1]
                             /\ Enter(d, FirstLine(d)) \/ Enter(d, "errored")
         /\ FirstLine(d) \in {"mark", "apply"}
<1>1. attempts \in [Doc -> 0..MaxAttempts - 1]
  BY DEF InstancesKnow
<1>2. StepThrows(d) => attempts' \in [Doc -> 0..MaxAttempts - 1]
  BY <1>1, ConstantsAssumption DEF StepThrows
<1>3. \A l : Done(d, l) => attempts' \in [Doc -> 0..MaxAttempts - 1]
  BY <1>1, ConstantsAssumption DEF Done
<1> QED BY <1>2, <1>3 DEF InstancesKnow, Enter, Done, StepThrows, FirstLine, NowAt

\* The workflow of d goes on, and holds what it must.
LEMMA InstanceMoves ==
  ASSUME InstancesKnow, NEW d \in Doc,
         NEW l \in KnownStage, Enter(d, l),
         attempts' \in [Doc -> 0..MaxAttempts - 1],
         UNCHANGED <<mailbox, decision, object, sent>>,
         l \in Applying => stage[d] \in Applying,
         l = "metaget" => stage[d] = "metaget",
         l # "metaput"
  PROVE  InstancesKnow'
<1>1. NowAt(d, l)
  BY StageType
<1> QED BY <1>1 DEF InstancesKnow, InstanceOK, NowAt

\* A step that throws is run again with nothing of what it did undone.
LEMMA ThrowMoves ==
  ASSUME InstancesKnow, NEW d \in Doc, stage[d] \in Marking \cup Applying, StepThrows(d),
         UNCHANGED <<mailbox, decision, object, sent>>
  PROVE  InstancesKnow'
<1>1. /\ attempts' \in [Doc -> 0..MaxAttempts - 1]
      /\ Enter(d, FirstLine(d)) \/ Enter(d, "errored")
  BY StageType
<1>2. FirstLine(d) = "mark" \/ (FirstLine(d) = "apply" /\ stage[d] \in Applying)
  BY DEF FirstLine
<1> QED BY <1>1, <1>2, InstanceMoves DEF Marking, Applying, Over, KnownStage

\* The steps that leave the store alone.
LEMMA InstanceKeeps ==
  ASSUME ReviewInv, NEW d \in Doc,
         \/ Submit(d) \/ (\E verdict \in Verdict : SendDecision(d, verdict))
         \/ MarkRead(d) \/ MarkUnset(d) \/ Receive(d) \/ Timeout(d)
         \/ ApplyUnset(d) \/ ApplyReread(d) \/ ApplyMetadataGet(d) \/ ApplyAudit(d)
  PROVE  UNCHANGED vars /\ InstancesKnow'
<1> USE DEF ReviewInv
<1>1. ASSUME Submit(d) PROVE UNCHANGED vars /\ InstancesKnow'
  BY <1>1, InstanceMoves DEF Submit, InstancesKnow, Marking, Applying, Over, KnownStage
<1>2. ASSUME NEW verdict \in Verdict, SendDecision(d, verdict)
      PROVE  UNCHANGED vars /\ InstancesKnow'
  <2>1. mailbox' \in [Doc -> Seq(Verdict)]
    BY <1>2 DEF SendDecision, InstancesKnow
  <2>2. sent' \in 0..MaxDecisions
    BY <1>2, ReviewAssumption DEF SendDecision, InstancesKnow
  <2> QED BY <1>2, <2>1, <2>2 DEF SendDecision, InstancesKnow, InstanceOK
<1>3. ASSUME MarkRead(d) PROVE UNCHANGED vars /\ InstancesKnow'
  <2>1. ASSUME StepThrows(d) PROVE InstancesKnow'
    BY <1>3, <2>1, ThrowMoves DEF MarkRead, Marking
  <2>2. ASSUME Done(d, "wait") PROVE InstancesKnow'
    BY <1>3, <2>2, StageType, InstanceMoves DEF MarkRead, Applying, KnownStage
  <2>3. ASSUME Enter(d, "marking"), UNCHANGED attempts PROVE InstancesKnow'
    BY <1>3, <2>3, InstanceMoves DEF MarkRead, Marking, Applying, InstancesKnow, KnownStage
  <2> QED BY <1>3, <2>1, <2>2, <2>3 DEF MarkRead
<1>4. ASSUME Receive(d) PROVE UNCHANGED vars /\ InstancesKnow'
  <2>1. mailbox[d] \in Seq(Verdict) /\ mailbox[d] # <<>>
    BY <1>4 DEF Receive, InstancesKnow
  <2>2. Head(mailbox[d]) \in Verdict /\ Tail(mailbox[d]) \in Seq(Verdict)
    BY <2>1
  <2>3. NowAt(d, "apply")
    BY <1>4, StageType DEF Receive, Applying, KnownStage
  <2> QED BY <1>4, <2>2, <2>3 DEF Receive, InstancesKnow, InstanceOK, NowAt
<1>5. ASSUME Timeout(d) PROVE UNCHANGED vars /\ InstancesKnow'
  BY <1>5, InstanceMoves DEF Timeout, InstancesKnow, Applying, Over, KnownStage
<1>6. ASSUME ApplyReread(d) PROVE UNCHANGED vars /\ InstancesKnow'
  <2>1. ASSUME Enter(d, "audit"), UNCHANGED object PROVE InstancesKnow'
    BY <1>6, <2>1, InstanceMoves DEF ApplyReread, InstancesKnow, Applying, KnownStage
  <2>2. ASSUME Exists(d), Enter(d, "metaget"), object' = [object EXCEPT ![d] = <<row[d].key>>]
        PROVE  InstancesKnow'
    <3>1. row[d].key \in Key
      BY <2>2 DEF Exists, StoreInv, TypeOK, Row
    <3>2. NowAt(d, "metaget")
      BY <2>2, StageType DEF Applying, KnownStage
    <3>3. object'[d] # <<>> /\ object'[d][1] \in Key
      BY <2>2, <3>1 DEF InstancesKnow
    <3> QED BY <1>6, <2>2, <3>2, <3>3 DEF ApplyReread, InstancesKnow, InstanceOK, Applying, NowAt
  <2> QED BY <1>6, <2>1, <2>2 DEF ApplyReread
<1>7. ASSUME ApplyMetadataGet(d) PROVE UNCHANGED vars /\ InstancesKnow'
  <2> DEFINE k == object[d][1]
  <2>1. k \in Key /\ decision[d] \in Verdict
    BY <1>7 DEF ApplyMetadataGet, InstancesKnow, InstanceOK, Applying
  <2>2. ASSUME Enter(d, "jobrow"), object' = [object EXCEPT ![d] = <<>>] PROVE InstancesKnow'
    <3>1. NowAt(d, "jobrow")
      BY <2>2, StageType DEF Applying, KnownStage
    <3> QED BY <1>7, <2>1, <2>2, <3>1 DEF ApplyMetadataGet, InstancesKnow, InstanceOK, NowAt
  <2>3. ASSUME k \in DOMAIN bucket, Enter(d, "metaput"),
               object' = [object EXCEPT ![d] = <<k, bucket[k].content>>]
        PROVE  InstancesKnow'
    <3>1. bucket[k].content \in Content
      BY <2>3 DEF StoreInv, TypeOK, Object
    <3>2. NowAt(d, "metaput")
      BY <2>3, StageType DEF Applying, KnownStage
    <3>3. object'[d] # <<>> /\ object'[d][1] \in Key /\ object'[d][2] \in Content
      BY <2>1, <2>3, <3>1 DEF InstancesKnow
    <3> QED BY <1>7, <2>1, <2>3, <3>2, <3>3 DEF ApplyMetadataGet, InstancesKnow, InstanceOK, NowAt
  <2> QED BY <1>7, <2>2, <2>3 DEF ApplyMetadataGet
<1>8. ASSUME ApplyAudit(d) PROVE UNCHANGED vars /\ InstancesKnow'
  BY <1>8, StageType, InstanceMoves DEF ApplyAudit, Applying, Over, KnownStage
<1>9. ASSUME MarkUnset(d) PROVE UNCHANGED vars /\ InstancesKnow'
  <2>1. ASSUME StepThrows(d) PROVE InstancesKnow'
    BY <1>9, <2>1, ThrowMoves DEF MarkUnset, Marking
  <2>2. ASSUME Done(d, "wait") PROVE InstancesKnow'
    BY <1>9, <2>2, StageType, InstanceMoves DEF MarkUnset, Applying, KnownStage
  <2> QED BY <1>9, <2>1, <2>2 DEF MarkUnset
<1>10. ASSUME ApplyUnset(d) PROVE UNCHANGED vars /\ InstancesKnow'
  <2>1. ASSUME StepThrows(d) PROVE InstancesKnow'
    BY <1>10, <2>1, ThrowMoves DEF ApplyUnset, Applying
  <2>2. ASSUME NEW l \in {"reread", "audit"}, Enter(d, l), UNCHANGED attempts
        PROVE  InstancesKnow'
    BY <1>10, <2>2, InstanceMoves DEF ApplyUnset, InstancesKnow, Applying, KnownStage
  <2> QED BY <1>10, <2>1, <2>2 DEF ApplyUnset, AfterStatus
<1> QED BY <1>1, <1>2, <1>3, <1>4, <1>5, <1>6, <1>7, <1>8, <1>9, <1>10

\* A step that does not write to the store is allowed to do so.
LEMMA NothingWritten ==
  ASSUME TypeOK, NEW d \in Doc, UNCHANGED vars
  PROVE  Reviews(d)
BY DEF Reviews, TypeOK, vars, tables, requestVars, purgeVars

\* A status set as a step of the workflow sets it is within what it may do.
LEMMA StatusWritten ==
  ASSUME TypeOK, NEW d \in Doc, NEW s \in Status,
         (Settable(d) /\ row' = [row EXCEPT ![d].status = s]) \/ UNCHANGED row,
         UNCHANGED <<versions, jobs, queue, bucket, issued, requestVars, purgeVars, faults,
                     lapsed>>
  PROVE  Reviews(d)
<1>1. row' = row \/ (Kept(d) /\ row' = [row EXCEPT ![d].status = s])
  BY DEF Settable
<1> QED BY <1>1 DEF Reviews, TypeOK, requestVars, purgeVars

\* The steps that write do no more than that, and go on with what they need.
LEMMA WritesKeep ==
  ASSUME ReviewInv, NEW d \in Doc,
         \/ MarkSet(d) \/ ApplySet(d) \/ ApplyMetadataPut(d) \/ ApplyJob(d) \/ ApplySend(d)
         \/ StepFails(d)
  PROVE  Reviews(d) /\ InstancesKnow'
<1> USE DEF ReviewInv
<1>1. TypeOK
  BY DEF StoreInv
<1>2. attempts \in [Doc -> 0..MaxAttempts - 1] /\ InstanceOK(d)
  BY DEF InstancesKnow
<1>3. ASSUME MarkSet(d) PROVE Reviews(d) /\ InstancesKnow'
  <2>1. Reviews(d)
    BY <1>1, <1>3, StatusWritten DEF MarkSet, Status
  <2>2. ASSUME Enter(d, "unmarked"), UNCHANGED attempts PROVE InstancesKnow'
    BY <1>2, <1>3, <2>2, InstanceMoves DEF MarkSet, Marking, Applying, KnownStage
  <2>3. ASSUME Done(d, "wait") PROVE InstancesKnow'
    BY <1>3, <2>3, StageType, InstanceMoves DEF MarkSet, Applying, KnownStage
  <2> QED BY <1>3, <2>1, <2>2, <2>3 DEF MarkSet
<1>4. ASSUME ApplySet(d) PROVE Reviews(d) /\ InstancesKnow'
  <2>1. Reviews(d)
    BY <1>1, <1>4, StatusWritten DEF ApplySet, DecidedStatus, Status
  <2>3. ASSUME NEW l \in {"unapplied", "reread", "audit"}, Enter(d, l), UNCHANGED attempts
        PROVE  InstancesKnow'
    BY <1>2, <1>4, <2>3, InstanceMoves DEF ApplySet, Applying, KnownStage
  <2> QED BY <1>4, <2>1, <2>3 DEF ApplySet, AfterStatus
<1>5. ASSUME ApplyMetadataPut(d) PROVE Reviews(d) /\ InstancesKnow'
  <2> DEFINE k == object[d][1]
             o == [content |-> object[d][2], status |-> "active"]
  <2>1. k \in Key /\ o \in Object /\ decision[d] \in Verdict
    BY <1>2, <1>5 DEF ApplyMetadataPut, InstanceOK, Applying, Object, Status
  <2>2. bucket' = Stored(k, o)
    BY <1>5 DEF ApplyMetadataPut
  <2> HIDE DEF o
  <2>3. Reviews(d)
    <3>1. /\ DOMAIN bucket' \subseteq Key /\ bucket' \in [DOMAIN bucket' -> Object]
          /\ DOMAIN bucket \subseteq DOMAIN bucket'
      BY <1>1, <2>1, <2>2, BucketType DEF Stored
    <3> QED BY <1>1, <1>5, <3>1
           DEF ApplyMetadataPut, Reviews, TypeOK, tables, requestVars, purgeVars
  <2>4. InstancesKnow'
    <3>1. NowAt(d, "jobrow")
      BY <1>5, StageType DEF ApplyMetadataPut, Applying, KnownStage
    <3> QED BY <1>5, <2>1, <3>1 DEF ApplyMetadataPut, InstancesKnow, InstanceOK, NowAt
  <2> QED BY <2>3, <2>4
<1>6. ASSUME ApplyJob(d) PROVE Reviews(d) /\ InstancesKnow'
  <2>1. Reviews(d)
    <3>1. JobOf(d) \in Job
      BY <1>2 DEF JobOf, Job, WorkflowJob
    <3> QED BY <1>1, <1>6, <3>1 DEF ApplyJob, Reviews, TypeOK, requestVars, purgeVars
  <2>2. ASSUME StepThrows(d) PROVE InstancesKnow'
    BY <1>6, <2>2, ThrowMoves DEF ApplyJob, Applying
  <2>3. ASSUME Enter(d, "message"), UNCHANGED attempts PROVE InstancesKnow'
    BY <1>2, <1>6, <2>3, InstanceMoves DEF ApplyJob, Applying, KnownStage
  <2> QED BY <1>6, <2>1, <2>2, <2>3 DEF ApplyJob
<1>7. ASSUME ApplySend(d) PROVE Reviews(d) /\ InstancesKnow'
  <2>1. Reviews(d)
    <3>1. JobOf(d) \in Job
      BY <1>2 DEF JobOf, Job, WorkflowJob
    <3> QED BY <1>1, <1>7, <3>1 DEF ApplySend, Reviews, TypeOK, tables, requestVars, purgeVars
  <2>2. InstancesKnow'
    BY <1>2, <1>7, InstanceMoves DEF ApplySend, Applying, KnownStage
  <2> QED BY <2>1, <2>2
<1>8. ASSUME StepFails(d) PROVE Reviews(d) /\ InstancesKnow'
  <2>1. faults' \in 0..MaxFaults
    BY <1>1, <1>8, ConstantsAssumption DEF StepFails, TypeOK
  <2>2. Reviews(d)
    BY <1>1, <1>8, <2>1 DEF StepFails, Reviews, TypeOK, tables, requestVars, purgeVars
  <2> QED BY <1>8, <2>2, ThrowMoves DEF StepFails
<1> QED BY <1>3, <1>4, <1>5, <1>6, <1>7, <1>8

\* Every step of the store or of the workflow keeps it, and is one of DocumentLife.
LEMMA ReviewKeeps ==
  ASSUME ReviewInv, [ReviewNext]_allVars
  PROVE  ReviewInv' /\ [Life!Next]_(Life!vars)
<1> USE DEF ReviewInv
<1>1. ASSUME [Next]_vars, UNCHANGED reviewVars PROVE ReviewInv' /\ [Life!Next]_(Life!vars)
  <2>1. InstancesKnow'
    BY <1>1 DEF reviewVars, InstancesKnow, InstanceOK
  <2> QED BY <1>1, <2>1, StoreInvNext, StoreMaps
<1>2. ASSUME NEW d \in Doc, Reviews(d), InstancesKnow'
      PROVE  ReviewInv' /\ [Life!Next]_(Life!vars)
  BY <1>2, ReviewsKeepStore, ReviewsMap
<1>3. ASSUME NEW d \in Doc,
             \/ Submit(d) \/ InstanceStep(d) \/ StepFails(d)
             \/ \E verdict \in Verdict : SendDecision(d, verdict)
      PROVE  Reviews(d) /\ InstancesKnow'
  <2>1. TypeOK
    BY DEF StoreInv
  <2> QED BY <1>3, <2>1, InstanceKeeps, WritesKeep, NothingWritten DEF InstanceStep
<1> QED BY <1>1, <1>2, <1>3 DEF ReviewNext, allVars

\* It holds from the start, with no review submitted.
LEMMA ReviewStarts == ReviewInit => ReviewInv
<1> SUFFICES ASSUME ReviewInit PROVE ReviewInv
  OBVIOUS
<1>1. StoreInv
  BY StoreInvInit DEF ReviewInit
<1>2. InstancesKnow
  BY ReviewAssumption, ConstantsAssumption
     DEF ReviewInit, InstancesKnow, InstanceOK, Applying, KnownStage
<1> QED BY <1>1, <1>2 DEF ReviewInv

\* It holds in every state of the store with its reviews.
LEMMA ReviewAlways == ReviewSpec => []ReviewInv
BY ReviewStarts, ReviewKeeps, PTL DEF ReviewSpec

\* Every instance is always at a known stage, with the decision, the key and the
\* bytes which that stage goes on with, however often its steps are run again.
THEOREM ReviewTypeCorrect == ReviewSpec => []ReviewTypeOK
<1>1. ReviewInv => ReviewTypeOK
  BY DEF ReviewInv, StoreInv, InstancesKnow, InstanceOK, ReviewTypeOK, KnownStage
<1> QED BY <1>1, ReviewAlways, PTL

\* What the store promises by itself it promises beside the workflow, which sets
\* a status days after anybody looked: the trash hides, histories match, bytes
\* are kept until the window has closed, and editors are told the truth.
THEOREM ReviewKeepsPromises ==
  ReviewSpec => [](TrashIsHidden /\ HistoryMatchesRow /\ KeptUntilLapsed /\ AnswersAreTrue)
<1>1. ReviewInv => TrashIsHidden /\ HistoryMatchesRow /\ KeptUntilLapsed /\ AnswersAreTrue
  BY AnswersFollow DEF ReviewInv, StoreInv, HistoryInv, KeptInv
<1> QED BY <1>1, ReviewAlways, PTL

\* ... and the life of a document under review is one DocumentLife allows: the
\* workflow changes the status of a document that is not in the trash, and no more.
THEOREM ReviewImplementsLife == ReviewSpec => ImplementsLife
<1>1. ReviewInit => Life!Init
  BY LifeInit DEF ReviewInit
<1>2. ReviewInv /\ [ReviewNext]_allVars => [Life!Next]_(Life!vars)
  BY ReviewKeeps
<1> QED BY <1>1, <1>2, ReviewAlways, PTL DEF ReviewSpec, ImplementsLife, Life!Spec

=============================================================================
