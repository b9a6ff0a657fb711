------------------------------ MODULE Documents ------------------------------
(***************************************************************************)
(* The document store: the D1 tables `documents`, `document_versions` and  *)
(* `ingestion_jobs`, the R2 bucket that holds the bytes, the requests that *)
(* change them, and the hourly purge of the trash.                         *)
(*                                                                         *)
(* A handler runs in an isolate of its own and gives way at every await,   *)
(* so each D1 statement, each D1 batch (atomic) and each R2 call is one    *)
(* step, and a request keeps between its steps only what it has read.      *)
(*                                                                         *)
(* Content is named by who wrote it: the request that uploaded it, or the  *)
(* document's own id for the bytes it starts with.  The content hash is    *)
(* the content, and a title travels with it.  Classification and domain    *)
(* never change on these paths and are left out, as are the validity       *)
(* dates, the change notes and the audit rows.                             *)
(***************************************************************************)
EXTENDS Naturals, FiniteSets

CONSTANTS
  Doc,          \* document ids
  SlugOf,       \* the slug each id is created with
  Ext,          \* R2 key extensions, one per accepted content type
  Req,          \* requests; each is used once, so |Req| bounds a behaviour
  Operations,   \* the operations each request of an instance chooses from
  Existing,     \* documents stored before the behaviour starts
  InitStatus,   \* the statuses those documents may be in
  MaxFaults,    \* how many requests and purge steps may be cut short
  Ahead,        \* how far beyond a document's version an editor may expect it
  PURGE_BATCH,  \* how many documents one purge run takes
  PolicyText,   \* documents that are all the text some policy has
  MaxAttempts,  \* runs of a workflow's step before the platform gives it up
  NoRow, NoRequest, NoDoc

Status == {"draft", "pending_review", "active", "deprecated", "archived"}

LEGAL_TRANSITIONS ==
  [draft          |-> {"pending_review", "archived"},
   pending_review |-> {"draft", "active", "archived"},
   active         |-> {"deprecated", "archived"},
   deprecated     |-> {"active", "archived"},
   archived       |-> {}]

Operation == {"create", "edit", "rollback", "transition", "trash", "restore",
              "reindex"}

Content == Req \cup Doc

\* A job is named by the request that created it, or by the document whose
\* publish workflow did and the run of the step that did.
WorkflowJob == Doc \X (0..MaxAttempts - 1)
Job         == Req \cup WorkflowJob

Key     == [doc : Doc, version : Nat, ext : Ext]
Object  == [content : Content, status : Status]

\* A row of `documents`.  `trashed` stands for trashed_at: not set, within the
\* retention window, or older than it.
Row == [status : Status, version : Nat \ {0}, key : Key, content : Content,
        trashed : {"no", "recent", "expired"}, before : Status \cup {"none"}]

VersionRow == [version : Nat, key : Key, content : Content]

\* What a request holds between two of its steps.  `status` is the status it
\* read or is about to write.
Request == [op : Operation, doc : Doc, base : Nat, expected : Nat,
            key : Key, content : Content, status : Status]

Working  == {"put", "insert", "check", "commit", "set", "unset", "get", "rewrite",
             "trash", "job", "send", "answer"}
Answered == {"ok", "stale", "refused", "failed", "crashed"}

ASSUME ConstantsAssumption ==
  /\ Existing \subseteq Doc /\ InitStatus \subseteq Status
  /\ Operations \in [Req -> SUBSET Operation]
  /\ MaxFaults \in Nat /\ Ahead \in Nat
  /\ PURGE_BATCH \in Nat \ {0} /\ MaxAttempts \in Nat \ {0}
  /\ PolicyText \subseteq Doc
  /\ Req \cap Doc = {} /\ Req \cap WorkflowJob = {}
  /\ NoRow \notin Row /\ NoRequest \notin Request /\ NoDoc \notin Doc

VARIABLES
  row,       \* table documents
  versions,  \* table document_versions, the rows of each document
  jobs,      \* table ingestion_jobs: the status of each job
  queue,     \* messages sent to INGESTION_QUEUE, named by their job
  bucket,    \* the R2 bucket, by key
  issued,    \* ids already handed out by generateId
  pc, req,   \* where each request is, and what it holds
  eligible,  \* the documents the current purge run still has to purge
  purging,   \* the one it is working on
  doomed,    \* the keys it has still to delete
  faults,
  lapsed     \* history variable: documents whose window has ever closed

requestVars == <<pc, req>>
purgeVars   == <<eligible, purging, doomed>>
tables      == <<row, versions, jobs>>
vars == <<tables, queue, bucket, issued, requestVars, purgeVars, faults, lapsed>>

-----------------------------------------------------------------------------
Exists(d)    == row[d] # NoRow
InTrash(d)   == Exists(d) /\ row[d].trashed # "no"
Kept(d)      == Exists(d) /\ row[d].trashed = "no"
SlugTaken(d) == \E e \in Doc : Exists(e) /\ SlugOf[e] = SlugOf[d]

ObjectKey(d, n, x)   == [doc |-> d, version |-> n, ext |-> x]
MutFirstRow(d, s, k, c) == [status |-> s, version |-> 0, key |-> k, content |-> c,
                            trashed |-> "no", before |-> "none"]
FirstRow(d, s, k, c) == [status |-> s, version |-> 1, key |-> k, content |-> c,
                         trashed |-> "no", before |-> "none"]
VersionOf(w) == [version |-> w.version, key |-> w.key, content |-> w.content]

Stored(k, o) == [j \in DOMAIN bucket \cup {k} |-> IF j = k THEN o ELSE bucket[j]]
Without(k)   == [j \in DOMAIN bucket \ {k} |-> bucket[j]]

InFlight(r) == pc[r] \in Working

Goto(r, l)     == pc' = [pc EXCEPT ![r] = l]
Begin(r, q, l) == /\ pc[r] = "idle" /\ q.op \in Operations[r]
                  /\ req' = [req EXCEPT ![r] = q]
                  /\ Goto(r, l)

\* A request that has read document d and changed nothing yet.
Reading(op, d) == [op |-> op, doc |-> d, base |-> row[d].version,
                   expected |-> row[d].version, key |-> row[d].key,
                   content |-> row[d].content, status |-> row[d].status]

Init ==
  \E s \in [Existing -> InitStatus], x \in [Existing -> Ext] :
    LET first(d) == FirstRow(d, s[d], ObjectKey(d, 1, x[d]), d) IN
    /\ row = [d \in Doc |-> IF d \in Existing THEN first(d) ELSE NoRow]
    /\ versions = [d \in Doc |->
                     IF d \in Existing THEN {VersionOf(first(d))} ELSE {}]
    /\ bucket = [k \in {first(d).key : d \in Existing} |->
                   [content |-> k.doc, status |-> s[k.doc]]]
    /\ issued = Existing
    /\ jobs = [j \in Job |-> "none"] /\ queue = {}
    /\ pc = [r \in Req |-> "idle"] /\ req = [r \in Req |-> NoRequest]
    /\ eligible = {} /\ purging = NoDoc /\ doomed = {} /\ lapsed = {}
    /\ faults = 0

-----------------------------------------------------------------------------
(* createDraft: the slug is looked up, the bytes are stored, then both rows *)
(* are inserted in one batch, which the UNIQUE slug may still refuse.       *)

CreateStart(r, d, x) ==
  /\ d \notin issued /\ ~SlugTaken(d)
  /\ Begin(r, [op |-> "create", doc |-> d, base |-> 0, expected |-> 0,
               key |-> ObjectKey(d, 1, x), content |-> r, status |-> "draft"], "put")
  /\ issued' = issued \cup {d}
  /\ UNCHANGED <<tables, queue, bucket, purgeVars, faults, lapsed>>

\* The upload, shared with an edit: it replaces whatever the key held.
Put(r) ==
  /\ pc[r] = "put"
  /\ bucket' = Stored(req[r].key, [content |-> req[r].content, status |-> req[r].status])
  /\ Goto(r, IF req[r].op = "create" THEN "insert" ELSE "check")
  /\ UNCHANGED <<tables, queue, issued, req, purgeVars, faults, lapsed>>

CreateInsert(r) ==
  /\ pc[r] = "insert"
  /\ LET d == req[r].doc
         w == FirstRow(d, "draft", req[r].key, req[r].content)
     IN \/ /\ SlugTaken(d)
           /\ Goto(r, "failed")
           /\ UNCHANGED <<row, versions>>
        \/ /\ ~SlugTaken(d)
           /\ row' = [row EXCEPT ![d] = w]
           /\ versions' = [versions EXCEPT ![d] = {VersionOf(w)}]
           /\ Goto(r, "ok")
  /\ UNCHANGED <<jobs, queue, bucket, issued, req, purgeVars, faults, lapsed>>

-----------------------------------------------------------------------------
(* createNewVersion: the bytes go to the key of the next version BEFORE the *)
(* repository reads the row again and compares expected_version with it.    *)

\* The version expected is any the caller names.
EditStart(r, d, x, e) ==
  /\ Exists(d)
  /\ Begin(r, [Reading("edit", d) EXCEPT
                 !.key = ObjectKey(d, row[d].version + 1, x),
                 !.content = r, !.expected = e], "put")
  /\ UNCHANGED <<tables, queue, bucket, issued, purgeVars, faults, lapsed>>

MutExpectationHolds(r) == TRUE
ExpectationHolds(r)    == row[req[r].doc].version = req[r].expected

EditCheck(r) ==
  /\ pc[r] = "check"
  /\ LET d == req[r].doc IN
     \/ /\ ~Exists(d) /\ Goto(r, "failed") /\ UNCHANGED req
     \/ /\ Exists(d) /\ ~ExpectationHolds(r)
        /\ Goto(r, "stale") /\ UNCHANGED req
     \/ /\ Exists(d) /\ ExpectationHolds(r)
        /\ req' = [req EXCEPT ![r].base = row[d].version, ![r].status = row[d].status]
        /\ Goto(r, "commit")
  /\ UNCHANGED <<tables, queue, bucket, issued, purgeVars, faults, lapsed>>

\* rollbackToVersion reads the row, compares an expected_version the caller may
\* give, and reads the target version; a refusal there changes nothing.
RollbackStart(r, d, v) ==
  /\ Exists(d) /\ v \in versions[d]
  /\ Begin(r, [Reading("rollback", d) EXCEPT !.key = v.key, !.content = v.content], "commit")
  /\ UNCHANGED <<tables, queue, bucket, issued, purgeVars, faults, lapsed>>

\* The batch of an edit and of a rollback.  The UPDATE names only the id; what
\* can refuse the batch is UNIQUE (document_id, version) and, once the document
\* is gone, the foreign key of document_versions.
MutCanInsertVersion(d, n) == Exists(d)
CanInsertVersion(d, n) == Exists(d) /\ \A v \in versions[d] : v.version # n

Commit(r) ==
  /\ pc[r] = "commit"
  /\ LET d == req[r].doc
         n == req[r].base + 1
     IN \/ /\ ~CanInsertVersion(d, n)
           /\ Goto(r, "failed")
           /\ UNCHANGED <<row, versions>>
        \/ /\ CanInsertVersion(d, n)
           /\ row' = [row EXCEPT ![d].version = n, ![d].key = req[r].key,
                                 ![d].content = req[r].content]
           /\ versions' = [versions EXCEPT ![d] = @ \cup
                {[version |-> n, key |-> req[r].key, content |-> req[r].content]}]
           /\ Goto(r, CASE req[r].op = "rollback" -> "get"
                        [] req[r].op # "rollback" /\ req[r].status = "active" -> "job"
                        [] OTHER -> "ok")
  /\ UNCHANGED <<jobs, queue, bucket, issued, req, purgeVars, faults, lapsed>>

-----------------------------------------------------------------------------
(* transitionStatus: legality is checked on the row read first; the UPDATE  *)
(* repeats only the check that the document is not in the trash.            *)

TransitionStart(r, d, next) ==
  /\ Kept(d)
  /\ next \in LEGAL_TRANSITIONS[row[d].status]
  /\ Begin(r, [Reading("transition", d) EXCEPT !.status = next], "set")
  /\ UNCHANGED <<tables, queue, bucket, issued, purgeVars, faults, lapsed>>

\* Repository setStatus: an UPDATE guarded by trashed_at IS NULL.
MutSettable(d) == Exists(d)
Settable(d)    == Kept(d)

SetStatus(r) ==
  /\ pc[r] = "set"
  /\ LET d == req[r].doc IN
     \/ /\ ~Settable(d)
        /\ Goto(r, "unset") /\ UNCHANGED row
     \/ /\ Settable(d)
        /\ row' = [row EXCEPT ![d].status = req[r].status]
        /\ Goto(r, "get")
  /\ UNCHANGED <<versions, jobs, queue, bucket, issued, req, purgeVars, faults, lapsed>>

\* The UPDATE changed nothing: setStatus reads the row and throws if it is in the
\* trash.  Of one that is gone, or has been restored meanwhile, it says nothing.
ExplainUnset(r) ==
  /\ pc[r] = "unset"
  /\ Goto(r, IF InTrash(req[r].doc) THEN "failed" ELSE "get")
  /\ UNCHANGED <<tables, queue, bucket, issued, req, purgeVars, faults, lapsed>>

\* updateMetadata, used by a transition and a rollback, reads the whole object
\* and writes it back with new metadata; a missing object is left missing.
AfterMetadata(q) == IF q.op = "transition" \/ q.status = "active" THEN "job" ELSE "ok"

MetadataGet(r) ==
  /\ pc[r] = "get"
  /\ \/ /\ req[r].key \notin DOMAIN bucket
        /\ Goto(r, AfterMetadata(req[r])) /\ UNCHANGED req
     \/ /\ req[r].key \in DOMAIN bucket
        /\ req' = [req EXCEPT ![r].content = bucket[req[r].key].content]
        /\ Goto(r, "rewrite")
  /\ UNCHANGED <<tables, queue, bucket, issued, purgeVars, faults, lapsed>>

MetadataPut(r) ==
  /\ pc[r] = "rewrite"
  /\ bucket' = Stored(req[r].key, [content |-> req[r].content, status |-> req[r].status])
  /\ Goto(r, AfterMetadata(req[r]))
  /\ UNCHANGED <<tables, queue, issued, req, purgeVars, faults, lapsed>>

-----------------------------------------------------------------------------
(* The trash.                                                               *)

TrashStart(r, d) ==
  /\ Kept(d)
  /\ Begin(r, Reading("trash", d), "trash")
  /\ UNCHANGED <<tables, queue, bucket, issued, purgeVars, faults, lapsed>>

TrashCommit(r) ==
  /\ pc[r] = "trash"
  /\ LET d == req[r].doc IN
     \/ /\ ~Kept(d)
        /\ Goto(r, "refused") /\ UNCHANGED row
     \/ /\ Kept(d)
        /\ row' = [row EXCEPT ![d].before = row[d].status, ![d].status = "archived",
                              ![d].trashed = "recent"]
        /\ Goto(r, IF req[r].status = "active" THEN "job" ELSE "ok")
  /\ UNCHANGED <<versions, jobs, queue, bucket, issued, req, purgeVars, faults, lapsed>>

\* restoreFromTrash repeats its only check in the UPDATE, so the read before it
\* adds nothing and is the same step.
MutRestoredStatus(w) == "draft"
RestoredStatus(w) == IF w.before = "none" THEN w.status ELSE w.before

Restore(r, d) ==
  /\ InTrash(d)
  /\ LET s == RestoredStatus(row[d]) IN
     /\ Begin(r, [Reading("restore", d) EXCEPT !.status = s],
              IF s = "active" THEN "job" ELSE "ok")
     /\ row' = [row EXCEPT ![d].status = s, ![d].before = "none", ![d].trashed = "no"]
  /\ UNCHANGED <<versions, jobs, queue, bucket, issued, purgeVars, faults, lapsed>>

-----------------------------------------------------------------------------
(* The ingestion job that ends most requests: a row, then a message.        *)

JobCreate(r) ==
  /\ pc[r] = "job"
  /\ \/ /\ ~Exists(req[r].doc)             \* foreign key to documents
        /\ Goto(r, "failed") /\ UNCHANGED jobs
     \/ /\ Exists(req[r].doc)
        /\ jobs' = [jobs EXCEPT ![r] = "queued"]
        /\ Goto(r, "send")
  /\ UNCHANGED <<row, versions, queue, bucket, issued, req, purgeVars, faults, lapsed>>

JobSend(r) ==
  /\ pc[r] = "send"
  /\ queue' = queue \cup {r}
  /\ Goto(r, IF req[r].op = "transition" THEN "answer" ELSE "ok")
  /\ UNCHANGED <<tables, bucket, issued, req, purgeVars, faults, lapsed>>

\* transitionStatus reads the row once more and fails if it has disappeared.
ReadUpdated(r) ==
  /\ pc[r] = "answer"
  /\ Goto(r, IF Exists(req[r].doc) THEN "ok" ELSE "failed")
  /\ UNCHANGED <<tables, queue, bucket, issued, req, purgeVars, faults, lapsed>>

\* handleReindexDocument, and each turn of handleReindexAll's loop.
ReindexStart(r, d) ==
  /\ Exists(d) /\ Begin(r, Reading("reindex", d), "job")
  /\ UNCHANGED <<tables, queue, bucket, issued, purgeVars, faults, lapsed>>

\* Any await may be a request's last: a call that throws, an isolate evicted.
Crash(r) ==
  /\ InFlight(r) /\ faults < MaxFaults
  /\ Goto(r, "crashed") /\ faults' = faults + 1
  /\ UNCHANGED <<tables, queue, bucket, issued, req, purgeVars, lapsed>>

-----------------------------------------------------------------------------
(* Retention and the purge.                                                 *)

\* A purge run lasts minutes and the window is 72 hours: a document the current
\* run has found expired cannot be trashed and expire once more during it.
RetentionElapses(d) ==
  /\ Exists(d) /\ row[d].trashed = "recent" /\ d \notin eligible
  /\ row' = [row EXCEPT ![d].trashed = "expired"]
  /\ lapsed' = lapsed \cup {d}
  /\ UNCHANGED <<versions, jobs, queue, bucket, issued, requestVars, purgeVars, faults>>

MutPurgeable == {d \in Doc : InTrash(d)}
MutPurgeableFlipped == {d \in Doc : InTrash(d) /\ row[d].trashed = "recent"}
Purgeable    == {d \in Doc : Exists(d) /\ row[d].trashed = "expired"}

\* Those the query may return: as many as it may, in whatever order their windows
\* closed.
Batches ==
  {b \in SUBSET Purgeable : /\ Cardinality(b) <= PURGE_BATCH
                            /\ b = Purgeable \/ Cardinality(b) = PURGE_BATCH}

PurgeFind ==
  /\ eligible = {} /\ Purgeable # {}
  /\ eligible' \in Batches
  /\ UNCHANGED <<tables, queue, bucket, issued, requestVars, purging, doomed, faults, lapsed>>

AllR2Keys(d) == {v.key : v \in versions[d]}
                  \cup (IF Exists(d) THEN {row[d].key} ELSE {})

PurgeCollect(d) ==
  /\ purging = NoDoc /\ d \in eligible
  /\ purging' = d /\ doomed' = AllR2Keys(d)
  /\ UNCHANGED <<tables, queue, bucket, issued, requestVars, eligible, faults, lapsed>>

PurgeDelete(k) ==
  /\ k \in doomed
  /\ bucket' = Without(k) /\ doomed' = doomed \ {k}
  /\ UNCHANGED <<tables, queue, issued, requestVars, eligible, purging, faults, lapsed>>

NextDocument ==
  /\ eligible' = eligible \ {purging} /\ purging' = NoDoc /\ doomed' = {}

MutJobsOf(d) == {}
JobsOf(d) == {r \in Req : req[r] # NoRequest /\ req[r].doc = d}
               \cup ({d} \X (0..MaxAttempts - 1))

\* purgeDocument, one batch.  Policies let go of the document; the jobs go, the
\* row goes, and its versions cascade.  Nothing asks whether the document is still
\* in the trash.
PurgeRow ==
  /\ purging # NoDoc /\ doomed = {} /\ purging \notin PolicyText
  /\ row' = [row EXCEPT ![purging] = NoRow]
  /\ versions' = [versions EXCEPT ![purging] = {}]
  /\ jobs' = [j \in Job |-> IF j \in JobsOf(purging) THEN "none" ELSE jobs[j]]
  /\ NextDocument
  /\ UNCHANGED <<queue, bucket, issued, requestVars, faults, lapsed>>

\* A policy is written by operators alone.  One with no body that lets go of its
\* document would have neither, which its CHECK does not allow: the batch is
\* refused, whenever it is tried, and the catch of the loop goes on.
PurgeRefused ==
  /\ purging # NoDoc /\ doomed = {} /\ purging \in PolicyText
  /\ NextDocument
  /\ UNCHANGED <<tables, queue, bucket, issued, requestVars, faults, lapsed>>

\* The catch of the loop leaves the document for the next run.
PurgeFail ==
  /\ purging # NoDoc /\ faults < MaxFaults /\ faults' = faults + 1
  /\ NextDocument
  /\ UNCHANGED <<tables, queue, bucket, issued, requestVars, lapsed>>

PurgeCrash ==
  /\ eligible # {} /\ faults < MaxFaults /\ faults' = faults + 1
  /\ eligible' = {} /\ purging' = NoDoc /\ doomed' = {}
  /\ UNCHANGED <<tables, queue, bucket, issued, requestVars, lapsed>>

-----------------------------------------------------------------------------
\* What an editor may expect; a version further ahead is as stale as a past one.
Expectable(d) == IF Exists(d) THEN 1..row[d].version + Ahead ELSE {}

RequestStart(r) ==
  \E d \in Doc :
    \/ \E x \in Ext : CreateStart(r, d, x)
    \/ \E x \in Ext, e \in Expectable(d) : EditStart(r, d, x, e)
    \/ \E v \in versions[d] : RollbackStart(r, d, v)
    \/ \E s \in Status : TransitionStart(r, d, s)
    \/ TrashStart(r, d)
    \/ Restore(r, d)
    \/ ReindexStart(r, d)

RequestStep(r) ==
  \/ Put(r) \/ CreateInsert(r) \/ EditCheck(r) \/ Commit(r)
  \/ SetStatus(r) \/ ExplainUnset(r) \/ MetadataGet(r) \/ MetadataPut(r) \/ TrashCommit(r)
  \/ JobCreate(r) \/ JobSend(r) \/ ReadUpdated(r)

PurgeStep == \/ PurgeFind
             \/ \E d \in eligible : PurgeCollect(d)
             \/ \E k \in doomed : PurgeDelete(k)
             \/ PurgeRow \/ PurgeRefused

Next == \/ \E r \in Req : RequestStart(r) \/ RequestStep(r) \/ Crash(r)
        \/ \E d \in Doc : RetentionElapses(d)
        \/ PurgeStep \/ PurgeFail \/ PurgeCrash

Spec == Init /\ [][Next]_vars

\* A handler that has started runs on, the cron fires every hour, time passes.
FairSpec == /\ Spec /\ WF_vars(PurgeStep)
            /\ \A r \in Req : WF_vars(RequestStep(r))
            /\ \A d \in Doc : WF_vars(RetentionElapses(d))

-----------------------------------------------------------------------------
(* Properties.                                                              *)

\* Every table, object and request holds values of its kind.
TypeOK ==
  /\ row \in [Doc -> Row \cup {NoRow}]
  /\ versions \in [Doc -> SUBSET VersionRow]
  /\ jobs \in [Job -> {"none", "queued", "processing", "completed", "failed"}]
  /\ queue \subseteq Job
  /\ DOMAIN bucket \subseteq Key
  /\ bucket \in [DOMAIN bucket -> Object]
  /\ issued \subseteq Doc /\ lapsed \subseteq Doc
  /\ pc \in [Req -> {"idle"} \cup Working \cup Answered]
  /\ req \in [Req -> Request \cup {NoRequest}]
  /\ \A r \in Req : req[r] = NoRequest <=> pc[r] = "idle"
  /\ eligible \subseteq Doc /\ doomed \subseteq Key
  /\ purging = NoDoc \/ purging \in eligible
  /\ faults \in 0..MaxFaults

\* However edits and rollbacks race, the version rows of a document are numbered
\* 1 to its current version, once each, and the current one is what the document
\* row says (documents.repository.ts, the batches of createNewVersion and
\* rollbackToVersion, whose UPDATE has no guard of its own).
HistoryMatchesRow ==
  \A d \in Doc :
    /\ Exists(d) => /\ {v.version : v \in versions[d]} = 1..row[d].version
                    /\ VersionOf(row[d]) \in versions[d]
    /\ \A v, w \in versions[d] : v.version = w.version => v = w
    /\ ~Exists(d) => versions[d] = {}

\* What a caller of createNewVersion is told is true: an edit answered ok is the
\* version right after the one it edited, and bytes that were refused are in
\* nobody's history.
AnswersAreTrue ==
  \A r \in Req : pc[r] # "idle" /\ req[r].op = "edit" =>
    /\ pc[r] \in {"job", "send", "ok"} /\ Exists(req[r].doc) =>
         \E v \in versions[req[r].doc] :
            v.version = req[r].expected + 1 /\ v.content = r
    /\ pc[r] \in {"stale", "refused", "failed"} =>
         \A d \in Doc : \A v \in versions[d] : v.content # r

\* Until its retention window has closed once, a document keeps the bytes of
\* every version, the ones a rollback could return to included: upload before
\* commit, and a purge that takes nothing early (purge-trash.ts).
KeptUntilLapsed ==
  \A d \in Doc \ lapsed : \A v \in versions[d] : v.key \in DOMAIN bucket

\* A document in the trash is archived, so no read path returns it, and has a
\* status to come back to, whatever was in flight when it was trashed (setStatus
\* repeats the trash check that transitionStatus made on an older read).
TrashIsHidden ==
  \A d \in Doc : Exists(d) =>
    /\ InTrash(d) => row[d].status = "archived"
    /\ InTrash(d) <=> row[d].before # "none"

\* What is put in the trash leaves it: restored, or purged by some later run,
\* though runs fail and stop half way (purge-trash.ts, "the next run retries it").
\* Not so a document that is all the text of some policy: its purge is refused at
\* every run, and PURGE_BATCH of these leave the runs no room for any other.
TrashIsEmptied ==
  Cardinality(PolicyText) < PURGE_BATCH =>
    \A d \in Doc \ PolicyText : InTrash(d) ~> ~InTrash(d)

\* The store implements DocumentLife: histories that only grow, a trash that
\* gives back exactly the status it was given, removal only after the window.
ContentAt(d, n) == (CHOOSE v \in versions[d] : v.version = n).content

LifeOf(d) == CASE Kept(d)    -> "kept"
               [] InTrash(d) -> "trash"
               [] OTHER      -> IF d \in lapsed THEN "gone" ELSE "unborn"

StatusOf(d) == IF ~Exists(d) THEN "draft"
               ELSE IF InTrash(d) THEN row[d].before ELSE row[d].status

HistoryOf(d) == IF ~Exists(d) THEN <<>>
                ELSE [n \in 1..row[d].version |-> ContentAt(d, n)]

Life == INSTANCE DocumentLife WITH
  life    <- [d \in Doc |-> LifeOf(d)],
  status  <- [d \in Doc |-> StatusOf(d)],
  history <- [d \in Doc |-> HistoryOf(d)]

ImplementsLife == Life!Spec

-----------------------------------------------------------------------------
(* What the repository says of itself and the code does not do.             *)

\* "One immutable object per version" (README): a stored version's bytes are the
\* ones recorded for it.
VersionBytesImmutable ==
  \A d \in Doc : \A v \in versions[d] :
    v.key \in DOMAIN bucket => bucket[v.key].content = v.content

\* The purge "removes documents whose trash retention window has closed"
\* (purge-trash.ts): a document is in the trash when its row is removed.
PurgeTakesOnlyTrash ==
  [][\A d \in Doc : Exists(d) /\ ~Exists(d)' => InTrash(d)]_vars

=============================================================================
