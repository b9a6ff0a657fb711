\* Any three requests on one document in three statuses, its purge, and one fault.
CONSTANTS
 d1 = d1
 d2 = d2
 d3 = d3
 d4 = d4
 d5 = d5
 Doc = {d1}
 SlugOf <- MCSlugOf
 Ext = {md}
 Req = {r1, r2, r3}
 Operations <- MCOperations
 Chosen = {"edit", "rollback", "transition", "trash", "restore", "reindex"}
 Existing = {d1}
 InitStatus = {"draft", "active", "archived"}
 MaxFaults = 1
 Ahead = 1
 PURGE_BATCH = 1
 PolicyText = {}
 MaxAttempts = 1
 NoRow = NoRow
 NoRequest = NoRequest
 NoDoc = NoDoc
SPECIFICATION Spec
SYMMETRY MCSymmetry
INVARIANTS TypeOK HistoryMatchesRow AnswersAreTrue KeptUntilLapsed TrashIsHidden
PROPERTY ImplementsLife
\* Every request may be answered and every document purged or left alone.
CHECK_DEADLOCK FALSE
