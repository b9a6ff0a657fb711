\* Two requests that end in a job, the document's purge, and two deliveries at a
\* time; failures enough for one dead letter whose own delivery fails once.
CONSTANTS
 Doc = {d1}
 SlugOf <- MCSlugOf
 Ext = {md}
 Req = {r1, r2}
 Operations <- MCOperations
 Existing = {d1}
 InitStatus = {"active"}
 MaxFaults = 3
 Ahead = 0
 PURGE_BATCH = 1
 PolicyText = {}
 MaxAttempts = 1
 Worker = {w1, w2}
 MaxRetries = 1
 DeadRetries = 1
 MaxDuplicates = 1
 NoRow = NoRow
 NoRequest = NoRequest
 NoDoc = NoDoc
SPECIFICATION FairIngestionSpec
INVARIANTS IngestionTypeOK OnlyDeadLettersFail
PROPERTIES JobsSettle
\* Every request may be answered and every message acknowledged.
CHECK_DEADLOCK FALSE
