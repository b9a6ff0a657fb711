# Athenaeum in TLA+

TLA+ specifications of the state Athenaeum keeps, of everything that changes it
and of how it is read: documents and their bytes, the trash and its purge, the
publish workflow, the ingestion queue, facts, the proposals agents make about
facts, search and listings, the principals that may call, the cache of verified
tokens, and the pipeline with its quotas and its audit trail. TLC checks them on
small instances; for every instance, TLAPS proves each safety property that a passing run
checks, and that the store implements its abstract specification. Paths are relative to
the repository's root.

## The system

Athenaeum is a Cloudflare Worker. It has no memory of its own that matters
between two requests (one exception: a cache of verified tokens); its state is in
a D1 database, an R2 bucket, a queue and a workflow engine. Every REST, RPC or
MCP call runs the same pipeline: authenticate, authorize, handle, audit. A
handler runs on one thread and gives way at every `await`, and any number of
handlers run at once, so the unit of interleaving is **one D1 statement, one D1
batch (a transaction), one R2 call or one queue send**. Beside the handlers run
an hourly cron (the purge of the trash), the consumer of the ingestion queue, and
one durable workflow instance per document under review.

| component | state | operations | who else touches it |
|---|---|---|---|
| document store (`src/knowledge/documents.ts`, `documents.repository.ts`, `storage/r2.ts`) | `documents`, `document_versions`, R2 objects | createDraft, createNewVersion, rollbackToVersion, transitionStatus, updateMetadata, moveToTrash, restoreFromTrash | purge, workflow, ingestion |
| trash purge (`src/maintenance/purge-trash.ts`) | none: a list read at the start of a run | purgeExpiredTrash | deletes documents, objects, jobs, facts; takes a document from the policies that cite it |
| publish workflow (`src/workflow/publish-workflow.ts`) | its own durable stage | submit, decide, time out | writes the row, the object's metadata and a job |
| ingestion (`ingestion/service.ts`, `queue/consumer.ts`, `ingestion.repository.ts`) | `ingestion_jobs`, queue, dead-letter queue | create, send, process, retry, dead-letter | made by almost every change of a document |
| facts (`facts.ts`, `facts.repository.ts`) | `facts`, `fact_versions` | create, update, deprecate, rollback, trash, restore, purge | proposals |
| fact proposals (`fact-proposals.ts`, `fact-proposals.repository.ts`) | `fact_proposals` | propose, approve, reject | writes facts |
| search (`search.ts`, `search/ai-search.ts`, `fact-search.ts`) | an external index of the bucket | search with a check of every chunk against its live row | reads documents |
| principals (`agents.repository.ts`, `roles.repository.ts`) | `agents`, roles, quotas | register, change status, give and take roles, delete or entomb | authentication, references in audit, feedback, proposals |
| authentication and pipeline (`src/auth/*`) | a cache of at most 500 verified tokens, one minute each | verify, resolve, authorize | every call |
| quotas and rate limits (`src/security/*`) | daily counters | increment, compare | pipeline |
| audit | append-only rows | insert, query | every call |
| catalog, policies, operations, feedback | tables the program mostly only reads (nothing calls what would write `policies`) | reads; one insert | the purge, of `policies.document_id` |
| transports | none | routing, parsing, serialisation | |

What is hard, and what makes each component right:

* **Documents.** The row is read, bytes are uploaded, and the row is written in
  separate steps, and the UPDATEs name nothing but the id. A version history must
  still be gapless and agree with the row; an editor must be told the truth
  about who won; the bytes of every version must be there; a document in the
  trash must be invisible.
* **Purge.** It works from a list that grows old while it deletes objects one at
  a time and may stop anywhere. It must take no bytes early and must finish, though
  D1 refuses to remove a document that is all the text of some policy.
* **Workflow.** Steps are retried from their first line, decisions come days
  later, the document moves meanwhile. Every review must end, and what it writes
  must keep the promises of the store.
* **Facts and proposals.** Five ways to write one row, each a read and a later
  write by key. Histories must match, a stale writer must be refused, and nothing
  an agent proposed may be in a fact unless somebody approved it.
* **Ingestion, search.** At-least-once delivery, retries, a dead-letter queue: every
  job must be settled. An index that lags, over a bucket whose objects can be written
  again: what is served must be the text of the live row's current version, and its
  bytes must be there.
* **Listings.** Six ways to read one table, each filtering by status, trash, tier,
  namespace and validity in its own order; pages cut by OFFSET while rows come and
  go. They must agree, and a walk must be complete.
* **Principals, tokens, quotas.** A revoked principal stays out, within the
  minute the cache allows; a principal other rows refer to is entombed rather
  than deleted; a quota's limit is exact however many calls race for its last unit.
* **Pipeline, audit.** Three transports with an order of their own; a handler that
  fails after its change; a trail that must never fail a request. What was done must
  be in the trail under the name of who did it.

`PROJECT.json` lists these components, with the status of each, and every hazard
with its line.

## Modules

    DocumentLife          what the document store promises
         ^ refined by
    Documents             tables, bucket, requests, purge
      ^  ^  ^  ^
      |  |  |  PublishReview     + the workflow instance of each document
      |  |  Ingestion            + the consumer of the queue and the dead-letter queue
      |  Search                  + the index and readers (over Access)
      DocumentsProofs     (TLAPS)
        ^  ^
        |  BackgroundProofs      (TLAPS, over Ingestion and PublishReview)
        SearchProofs             (TLAPS, over Search)

    Facts                 fact tables, writers, purge
      ^
    FactProposals         + proposals and reviewers
      ^
      FactProposalsProofs (TLAPS, of both)

    Permissions           keys and wildcards, as operators
      ^          ^
      |          Access   tiers, the read rule, scopes, as operators
      |            ^
      |            Listings   the reads of facts, by pages or whole
      |              ^
      |              ListingsProofs   (TLAPS)
    Principals            agents, their roles, and who acts with what
      ^
      PrincipalsProofs    (TLAPS)
    TokenCache            verification of Account tokens
      ^
      TokenCacheProofs    (TLAPS)

    Routes                what each handler, method and tool passes through
      ^
    Gateway               the pipeline, quotas and the audit trail
      ^
      GatewayProofs       (TLAPS)

    MCDocuments, MCPublishReview, MCIngestion, MCSearch, MCFactProposals,
    MCListings, MCPrincipals, MCTokenCache, MCGateway     instances for TLC

**`Documents`.** `row` is the table `documents`: per document a status, the
current version, its R2 key and content, and whether it is in the trash (`recent`:
within its 72 hours; `expired`: older). `versions` and `jobs` are
`document_versions` and `ingestion_jobs`; `bucket` is R2, a function from keys to
a content and the status in the object's metadata. A request `r` has a program
counter `pc[r]`, the name of the next call it will make, and `req[r]`, what it has
read so far. Each operation is a `...Start` action, up to its last read before the
first change, followed by one action per call that changes state or whose answer
decides something: `Put` (R2), `EditCheck` (the repository's own read and its
comparison with `expected_version`), `Commit` (the D1 batch), `SetStatus` and, if its
UPDATE changed nothing, `ExplainUnset` (the read that decides whether to throw),
`MetadataGet` and `MetadataPut` (the two R2 calls of `updateMetadata`),
`TrashCommit`, `JobCreate`, `JobSend`, `ReadUpdated` (a transition's last read).
`Operations[r]` is what request `r` chooses from; an edit may expect any version
(`Expectable`, up to `Ahead` beyond the one there is). Checks that only refuse are guards. The
constraints that decide races in the code are guards too: UNIQUE (document_id,
version), UNIQUE slug, the foreign keys. `Crash` ends a request between any two
calls. `PurgeFind` (a list of at most `PURGE_BATCH`, one of `Batches`), `PurgeCollect`,
`PurgeDelete`, `PurgeRow`, `PurgeFail` and `PurgeCrash` are the hourly run;
`RetentionElapses` is the passing of 72 hours. The batch that removes a row first takes
the document from the policies that cite it. `PolicyText` are the documents cited by a
policy with no body of its own; for these the CHECK of `policies` refuses the batch
(`PurgeRefused`), at every run, with the objects already deleted. Policies are written
by operators, outside this program, so the set does not change.

**`PublishReview`** adds the workflow: `stage[d]` is where the instance is,
`attempts[d]` how often its current step has run, `mailbox[d]` the decisions the
platform holds for it. A step that throws (`Throw`) starts again from its first
line with everything it has done still done; a job it makes is one more (`JobOf`: a
document and the run of the step). `setStatus` is `MarkSet` or `ApplySet` and, if its
UPDATE changed nothing, `MarkUnset` or `ApplyUnset`.

**`Facts`** and **`FactProposals`**. `facts` and `history` are the two tables;
a caller is `Direct` (an admin route) or a `Reviewer` approving a proposal, and
both end in the repository's `create` or `update`: `Check` reads, `Commit` or
`Insert` is the batch. An update brings a value of its own or amends what travels with
the value it reads (`amend`). `Decide` is `recordDecision`, which comes before the write.

**`Ingestion`** adds the consumer to `Documents`, whose requests make the jobs and
send the messages and whose purge deletes the rows. `place[j]` is where the message
of a job is (queue, dead-letter queue, acknowledged, dropped), `tries[j]` how many
deliveries of it failed there, `worker[w]` what a delivery is doing. A delivery is
`MarkProcessing`, `ReadDocument`, `MarkCompleted` or `MarkMissing`, `Ack`; from the
dead-letter queue `MarkDead`, `Ack`. `Throw` is a call that throws or an isolate that
is gone, at any step, the acknowledgement included: the message goes back, or on to
the next queue (`AfterFailure`, with the limits of `wrangler.jsonc`). The three marks
name a job by its id alone, as the code does, so a deleted row is not missed and any
status is overwritten. A message may be delivered again while a delivery of it is out.

**`Search`** adds readers to `Documents`. `indexed` is the set of published objects the
bucket has ever held, each key with the text it then held: AI Search indexes in its own
time, so a search may return any of them that pass its filters (`Retrieve`), however
long ago. A search is followed through one chunk, since each chunk is judged by itself
(`LiveCheck`, which compares keys and never looks at the text). `ReadRow` and `GetBytes`
are getDocumentContent, `ReadAnyRow` and `GetDraft` getAdminDocument: the row first, the
bytes afterwards (`Fetch`: whatever the key holds by then), while requests and the purge
go on between. `read[q]` holds the key a reader is about and the text it is given;
`served[q]` is a history of the keys published since it began, each with the text of the
version that had it. Facts in a search are in `Listings`.

**`Access`** has the read rule of `authorize` (a space's permission and a tier's), the
tiers a caller may see and the scopes derived from its permissions. A name may contain
dots, so it is a sequence of segments. `NoDeeperWildcard` is the assumption under which
a scope is exact: the permission `facts.read.a.*` would be read literally by the scope
and as a wildcard by the rule. Every permission the migrations seed satisfies it.

**`Listings`**: the table `facts` with the columns reads depend on, one principal, and
the reads as operators (`Answered` by key, `getFacts`, `searchFacts` with its candidates
cut to four times the limit, `factCount`, `listFactsForAdmin`, `listTrash`). A client
walks the console's listing page by page (`WalkStart`, `NextPage`) while writers change
rows; each write is the change one statement of `Facts` makes to these columns.

**`Routes`** is a table: for each of the 72 handlers, RPC methods and MCP tools, its
transport, whether its query is parsed before the caller is known, whether the pipeline
or the work checks the permission, the limiter and the quota it spends from, what it
changes and whether it writes a row of its own about that. **`Gateway`** runs requests
of these shapes: `Receive` (credential and query), `Anonymous`, `Connect` (MCP spends a
read before its tool is called), `EnforceRateLimit`, `GetQuota`, `TodayDate` and
`RecordUsage` (a statement, the date as the worker reads it, and an atomic increment
under that date), `Work`, `ReadCaps` and `SetQuota` (a
partial change of a quota is read, merged and written back), and the rows of the trail,
`AuditChange`, `AuditAllow`, `AuditDeny`, `AuditError`. `Fail` and `Crash` are a call
that throws and an isolate that dies, anywhere; `SafeRecord` may lose its row.
What the work does is in the other modules; what the credential and the permission
check say is chosen when a request arrives.

**`DocumentLife`** is the abstract specification: a status, a history that only
grows, a trash that remembers the status, and removal only after the window has
closed. `Documents` refines it under the mapping `Life` (the status of a trashed
document is the one it will come back to; its history is the contents of its
versions in order).

**`Principals`** (over **`Permissions`**). `agents` and `holds` are the tables
`agents` and `agent_roles`; `records` is the set of principals named by a row that
does not cascade (audit events, feedback, proposals). A request runs the pipeline:
`Arrive` (its credential is resolved to a row), `Resolve` (the row is read again by
its key), `Permit` (the permissions are read, and are what it acts with from then
on), `Handle` (the handler's reads and refusals), then the statements of its
operation, `Insert`, `Assign` (once per role), `Unassign`, `SetStatus`, `Count` and
then `Purge` or `SoftDelete`, `File` (feedback or a proposal), and `Audit`. UNIQUE
and the foreign keys are guards of these. A permission key is the sequence of its
segments, and `permissionSatisfies` is the code's wildcard rule on those.
Client and user identities of Account are one set, since no identity is both; an
id stands for the agent_key too and is never used twice, though the code lets the
key of a purged principal be registered again. The two lookups of an Account
identity are one step. Rate limits and the environment check are left out: they
refuse, and change nothing here.

**`TokenCache`**. `cache` is the Map of one isolate with each entry's place in the
order of insertion, which pruning follows. A call reads the clock (`Begin`), looks
into the cache (`Lookup`), asks Account (`Introspect`, at the moment Account
answers, or `Unavailable`) and stores (`Store`, which prunes first), with the clock
running between any two of these. The scope gate and the Developer Access exception
decide by the token alone: `Admitted` is the set of tokens they let through.
Account's clock and the Worker's are one.

Abstractions. Content is named by its writer, and the hash is the content.
Titles, notes, validity dates and audit rows are left out of `Documents` and `Facts`;
classification and domain never change for a document and are constants of `Search`;
tier and validity of facts are in `Listings`. A request, and a reader, is used once.
Identifiers from `generateId` are fresh (`issued`).

## Runs

| run | what it asks | instance |
|---|---|---|
| `DocumentsSafety` | histories, answers, bytes and trash stay right; refinement of `DocumentLife` | 1 document, 3 requests of any kind on a stored document, 1 fault, 3 initial statuses |
| `DocumentsPurge` | the trash is emptied | 5 documents: 3 stored, one of them all the text of a policy, and 2 competing for a slug; 3 requests, runs of 2 documents, 1 fault |
| `PublishReview` | every review ends; the store's promises hold beside the workflow | 1 document, 2 requests (one transitions or trashes, one transitions or restores), 1 decision, 2 attempts per step, 1 fault |
| `FactProposals` | fact histories, answers; only approved values are written, on the version they were based on | 1 fact, 1 direct request naming version 1, 2 or none, 2 reviewers, 2 proposals |
| `Principals` | records keep their principal, one principal per identity, deletion is final and takes only the revoked, no privilege from nowhere | 4 principals, 2 identities, 3 roles with wildcards, 3 requests out of 12 orders |
| `TokenCache` | a revoked token is refused within the TTL, an expired one at once; the cache stays bounded | 5 tokens (no expiry given, early, late, revocable, not admitted), 3 calls, a TTL of 2 and a horizon of 4 ticks, 1 entry |
| `Listings` | the reads agree; listing and trash show each readable fact once; a walk misses and repeats nothing without an excuse | 3 facts in 2 namespaces (one with a dot), 2 tiers, 7 kinds of caller, pages of 1 and 2, 2 writes, every initial table |
| `Gateway` | quotas are exact; what was done is in the trail; caps are kept | 3 requests out of 4 shapes (deferred over REST with a quota, over MCP, setting a quota, a list), 1 agent, caps 1 and none, 2 days, 1 fault |
| `Ingestion` | jobs are settled; only dead letters fail | 1 document, 2 requests (trash or reindex) and the purge, 2 deliveries at once, 1 duplicate, 1 retry before and 1 after the dead-letter queue, 3 faults |
| `Search` | the text found was current, but for bytes of edits to its key; bytes are there | 1 document, 2 requests out of 5 kinds and the purge, 1 reader with one of 3 sets of permissions, 1 fault |
| `DocumentsBytes`, `DocumentsRestore` | one statement of the repository each, which the code does not keep | the smallest instance that shows it |

Bounds. Requests, proposals and reviewers are used once, so their number bounds a
behaviour; `MaxFaults` bounds crashes and failed calls, `MaxDecisions` the
decisions, `MaxAttempts` the retries. Races here are between two writers that have
both read (two requests), possibly with a third call that changes the ground
under them (trash, restore, purge), so three requests reach every pairwise race
with one disturbance. One document is enough for everything but the slug and the
purge's list, which `DocumentsPurge` covers with five: `PURGE_BATCH` is 2 there (25 in
the code), so that a run leaves some for the next, and one place of the two is taken at
every run by the document of `PolicyText`. `Ahead` is one where edits are asked about: a
version further ahead is refused like the first. `Ext` has one element:
two extensions only make more keys, and fewer collisions. Fault-free runs are
included since faults are optional. Requests are symmetric in the runs whose
properties do not ask for liveness.

Three requests are what deletion needs to go wrong: one that creates or changes
the principal, one it makes itself, one that deletes it. The token cache holds one
entry, so that three calls pass its ceiling; the code's test `size >
MAX_CACHE_ENTRIES` runs before the insertion, so `CacheIsBounded` allows one more
than the constant.

`wrangler.jsonc` has five retries; one reaches the same cases (a failure that is
retried, the last one that moves the message), and three faults are enough to
dead-letter a message and fail its delivery there once. A fourth would drop the dead
letter, which `JobsSettle` does not survive: the platform then forgets the message and
the row stays as it is. One agent is enough for a quota, which belongs to one; two days
for midnight between any two statements. Every table of three facts is an initial state
of `Listings`, so two writes reach a row that enters and one that leaves. Every
disjunct of the pipeline is taken by some shape offered in `Gateway`'s run; the proofs
are about all 72.

Deadlock is not checked: an instance legitimately stops when every request has been
used and no document is in the trash, or the clock has reached its horizon.

### Time

The window is 72 hours and a purge run lasts minutes. `RetentionElapses(d)` is
therefore not taken while the current run still has `d` on its list: a document
cannot be restored, trashed again and expire within one run. A request in flight
may be of any age.

### Fairness

`WF(RequestStep(r))`: a handler that has started runs on until it answers or
crashes. `WF(PurgeStep)`: the cron fires every hour (`wrangler.jsonc`), and failures
are bounded, so some later run is whole. `WF(RetentionElapses(d))`: time passes.
`WF(InstanceStep(d))`: the workflow engine resumes its instances and a wait of
seven days times out. `WF(ConsumerStep(w))`: a message is delivered until it is
acknowledged, and a delivery goes on or fails. Nobody is assumed to restore a document or to decide a
review.

## Where the code and its documentation differ

Two of these are runs that end in a counterexample; `PROJECT.json` gives the lines.

* `DocumentsBytes`: "one immutable object per version". An edit uploads to the key
  of the next version before anything compares versions, so a refused edit may
  write over the accepted one's bytes. What follows for readers: `search.ts:167-174`
  takes a chunk whose key is the row's for the text an operator sees, and
  getDocumentContent returns what the key holds. Both serve the bytes of a refused or
  interrupted edit as the current version, under the key they went to.
  `FoundWasCurrent` is about texts and excepts exactly those (`EditsTo`).
* `DocumentsRestore`: the purge removes what is in the trash. It removes what was
  in the trash when the run began.

The others were met while modelling. The actions show them, but no run of the
project asks for them:

* `documents.repository.ts:377-380`: policies are "detached rather than deleted"; and
  `purge-trash.ts:22-24`: of a run that dies after the objects, "the next run finds it
  again and finishes the job". A policy has a body or a document (`0001_init.sql:276`). Detaching a document that is all a policy
  has is refused, and the whole batch with it, at this run and at every later one: the
  bytes are gone, and the row and its versions stay in the trash for ever. A run takes
  the 25 longest in the trash, so 25 such documents end the purge of all others.
  `TrashIsEmptied` therefore excepts them, and asks for fewer than a run takes.
* `documents.repository.ts:268-273`: a status is not set in the trash, and setStatus
  says so. It asks by a second read: a document restored between the two is answered
  as if the status had been set.
* `documents.ts:292-293`: search and getDocument agree on published documents. A
  document edited in the trash and restored to active keeps an object whose metadata
  say archived, and is not found.
* `migrations/0003_document_trash.sql`: "`archived` is terminal". The workflow writes
  the status without looking at the present one (`publish-workflow.ts:46`).
* `facts.ts:233-235`: "a fact that was deprecated comes back deprecated". A deprecation
  that lands just after the fact was trashed is lost at the restore.
* `migrations/0006_fact_proposals.sql:37-39`: a NULL base means "does not exist yet",
  and a proposal is stale once the fact has moved on. A NULL base is not compared.
* `ingestion.repository.ts:72-78`: a job outlives its document. The purge deletes the
  jobs in the batch that deletes the row; `OnlyDeadLettersFail` relies on it. A job may
  also stay in processing: a duplicate delivery marks it so after it was settled and
  then fails.
* `admin/documents.ts:517-518`: "a page shorter than the limit is the last". The
  domains a caller may read are applied to documents after LIMIT (`documents.ts:119`),
  so a short page may be followed by others. The listing of facts applies them in the
  query, which is what `WalkIsComplete` shows.
* `dto.ts:21-22`: a namespace's count is of the facts the caller can read. It includes
  facts outside their validity window.
* `admin/agents.ts:220-222`: a cap that is not named stays as it was. Of two changes of
  one agent's quota that overlap, one is lost; `CapsAreKept` excludes that.
* `pipeline.ts:57-60`: "every outcome is recorded with the same shape regardless of
  transport". An MCP request refused by the read limiter, and a query string that does
  not parse, are answered without a row; changes made over MCP, and feedback, have only
  the row of the decision. `Accountable` states what does hold.
* The ceiling of the token cache is checked before the insertion: it holds one more.

## Proofs

Every theorem is of the whole specification, for any values of the constants that
their assumptions allow: any number of documents, requests, facts, readers, principals
and faults, any sizes of caches, pages and queues. Each proof is an inductive
invariant, one lemma or step per action, and a last temporal step. The invariants were
model-checked before they were proved.

**`DocumentsProofs`**, from `ConstantsAssumption` alone. `StoreInv` is the conjunction of
what follows, and `StoreInvNext` that every step keeps it; the modules over `Documents`
start from these.

* `TypeCorrect`: `Spec => []TypeOK`. `TypeOK` is inductive as it stands; it says
  that a request holds data exactly when it is not idle, which every step needs.
* `TrashHidden`: inductive given `TypeOK`: the UPDATEs of setStatus and trash repeat
  the check on `trashed_at`, so what a request read before does not matter.
* `KeptForEveryVersion`: `Spec => []KeptUntilLapsed`. Not inductive: it needs that
  a key names the document it belongs to (so that a purge of one document does not
  take another's bytes), that the purge has on its list only documents whose window
  has closed, and that a request which is past its upload has its object in the
  bucket unless its document lapsed. `KeptInv` is the conjunction.
* `HistoryAlwaysMatches`: `Spec => []HistoryMatchesRow`. The strengthening
  `HistoryInv` adds that ids not yet issued, and ids whose draft is not inserted
  yet, have no row, and that no request has read a version above the one there is.
  A commit then either adds exactly the next version or is refused by UNIQUE.
* `AnswersTrue`: `Spec => []AnswersAreTrue`. The invariant follows an edit and its bytes
  both: until it has committed, its content is in no history and in no other request's
  hands (`Unspread`), since only what is in a history can be rolled back to; and
  content never leaves the document it was uploaded for (`ContentIsAtHome`). The two go
  together, since a purge can only hide what is all in one document.
* `StoreImplementsLife`: `Spec => ImplementsLife`, the refinement of `DocumentLife`. The
  view of one document changes in one of seven ways, a lemma each (`MapCreate` to
  `MapPurge`), and `OthersStay` says that all other views are as they were. A history
  seen as a sequence is a CHOOSE per version; `HistoryIsRead` shows that it reads the
  versions, so that a commit is an `Append`. `LifeInv` adds that a draft's id was never
  in the trash and that a rollback brings back bytes the history has.

**`BackgroundProofs`**, for what runs beside the requests.

* `IngestionTypeCorrect` and `DeadLettersAlone` (`IngestionSpec => []OnlyDeadLettersFail`).
  The marks name a job by its id alone, so the proof must say what a delivery still
  knows when it writes (`DeliveriesKnow`): after a document was not found its job is
  gone, and cannot come back, because a message is only in the queue when the request
  that would make the row again has been answered (`JobsInv`). That a job has its
  document is what makes "failed without a dead letter" impossible. `Counted` ties the
  tries of a message to the faults and to the limits of the queue it is in.
* `ReviewTypeCorrect`, `ReviewKeepsPromises` and `ReviewImplementsLife`, of `ReviewSpec`.
  All that a step of the workflow may do to the store is one formula (`Reviews`): set the
  status of a document that is not in the trash, add or replace an object, add a job and
  a message. That keeps `StoreInv` and is a `Move` of `DocumentLife`; the rest is that a
  step finds the key and the bytes it left for itself, retried or not (`InstancesKnow`).

**`SearchProofs`** stands on `DocumentsProofs`: a step of a reader leaves the store as it
is. `FreshResults`: `SearchSpec => []FoundWasCurrent`, from the strengthening that what is
served now has been served since any reader under way began, and that a reader which has
its row has a key of those. That is about keys; that the text is right as well is
`AimedInv` and `UploadsInv`. Every text, in a version, in the bucket, in the index, with a
request or with a reader, was uploaded to the key it is kept with (`Aimed`); and of the
uploads to one key all but one are edits. So a text that is not the one served with that
key is one of `EditsTo`. Nothing else is assumed of the index.
`BytesAreThere`: `SearchSpec => []ContentIsThere`: the current key of a document is
that of one of its versions, whose bytes are kept, so a reader that has read the row has
its bytes in the bucket until the document lapses (`BytesHeld`).

**`FactProposalsProofs`** proves the four invariants of facts and proposals, and the types,
from one invariant, `FactsInv`. `NamesApart` (a proposal is not named like a request) is
assumed, as contents are named by whoever proposes or writes them.

* `HistoryMatches`: a fact's history is 1 to its version until its window has closed
  once. After that a purge deletes the versions whatever became of the row, and a late
  batch may write versions of a row that is gone, so the invariant must know that a
  purge has only lapsed facts on its list (`LapsedSeen`), and that what a writer under
  way has read is not above the row otherwise (`BasesBehind`).
* `FactAnswersTrue` needs, as for documents, that a value not yet written is nowhere
  (`Unspread`), and that an answer ok left its version behind (`OkIsRecorded`).
* `OnlyApprovedWritten` holds of the row and of the history only together with what
  writers carry (`StoredApproved`, `CarriedApproved`): a rollback carries a value out of
  the history, so it must have been approved for that fact there.
* `ApprovalsOnTheirBase` from the above, for the reviewers.

**`PrincipalsProofs`** proves the invariants of `Principals` and the action property
`OnlyRevokedIsRemoved` from the assumptions on the initial table (links UNIQUE,
nothing deleted, no role carrying the empty key). `PrivilegeContainment` needs two
things beside the invariant itself: that every request acts with permissions that
were held (`Contained`), since it goes on acting with them after its roles are
taken away, and `SatisfiesTransitive`: what a key satisfies satisfies no more than
the key does, so that a chain of grants through wildcards adds nothing. `Staged`
says that a request at a statement was asked for it.

**`ListingsProofs`** proves `ScopeIsExact` (a scope admits a name exactly when the read
rule does, for any permissions without deeper wildcards), and from it `ListedOnce` and
`ReadsAlwaysAgree`. A read that cuts a page shows only what it would show whole, and a
page that could hold the whole table is whole (`WholePages`). `NothingIsRepeated`: as long
as nothing entered or left, the pages shown are the rows whose rank is at most the offset,
so that the next page is disjoint from them. `WalksAreComplete`: while nothing leaves, ranks
only grow (`RanksGrow`), so a row not shown yet stays beyond the offset; and a page with a
row beyond it is full (`PagesAreFull`, since ranks are a bijection onto 1..n), so the short
page that ends the walk was the last.

**`GatewayProofs`** proves `TypeCorrect` for every operation in `Routes`, `CapsKept`,
`QuotasHold` and `AllAccountedFor`. `QuotasHold` counts: the requests admitted on one day,
of one agent and kind, have distinct counts, none above the counter, so that those let
through under a cap of at most n inject into 1..n. `AllAccountedFor` says of every step a
request can be at exactly which rows it has written and whether its change is made
(`AccountOf`); it needs of the table of operations that one which writes a row about its
change makes one (`Auditable`), checked operation by operation.

**`TokenCacheProofs`** proves the two time bounds. They are not inductive: an entry
must be bounded by its token's expiry, by the revocation if there was one, and by
now plus the TTL in case there is one next (`Remembered`); and a call that has
Account's answer must have begun before the revocation (`Verified`), which is why
counting from the start of the call rather than from the answer matters.
`CacheBounded`: entries have distinct places in the order of insertion, so those that
pruning keeps, which have fewer than `MAX_CACHE_ENTRIES` younger than they are, are
no more than that (`PrunedIsBounded`).

Only model-checked, because liveness under fairness is beyond the prover: `TrashIsEmptied`,
`ReviewEnds` and `JobsSettle`. The two runs that end in a counterexample prove nothing and
are not meant to.


## Not modelled, and why

Matching of paths, parsing, schemas, DTOs and logging hold no state: of the transports
`Routes` keeps what a call passes through. Catalog, policies and operations are reads
of tables that no call of this program writes, one statement of the purge excepted, which
is in `Documents`; the writes of the policies repository have no caller. The listings of documents are filtered reads
like those of facts; their one difference is noted above. What a row of the audit trail
says of old and new values decides nothing, and the rows the purge and the workflow
write have no request to account for. The key-set cache of `access-jwt.ts` belongs to
the `jose` library. Matching and scoring in a search, and validity dates of documents,
are left out. The limit of 50 facts per purge run is above the instance checked.

Some hazards of `PROJECT.json` have no property, each with its reason there. Two are of
bytes and rows that nothing refers to any more: the object of a draft that lost its slug,
or whose insert failed (`documents.ts:187`), stays in the bucket, as no purge looks for
objects without a row; and the versions of a fact restored while a purge run had it on
its list are deleted (`facts.repository.ts:533`), which `FactHistoryMatches` cannot see,
being about facts whose window has not closed.

## Plan

1. Documents, purge, workflow, facts, proposals, principals, token cache (done).
2. Ingestion, search, listings, pipeline with quotas and audit (done).
3. Proofs of every safety property of the runs, and of the refinement of `DocumentLife`
   by the store alone and by the store with its reviews (done).
4. Left to prove: nothing the runs check but liveness. Worth stating next: that the
   consumer, too, leaves the store's promises as they are, and an abstract
   specification of a fact's life beside `DocumentLife`.
5. Left to model: the listings of documents and the history of a fact, beside `Listings`.
