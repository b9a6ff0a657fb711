\* One document under review while two requests transition, trash and restore it.
CONSTANTS
 d1 = d1
 r1 = r1
 Doc = {d1}
 SlugOf <- MCSlugOf
 Ext = {md}
 Req = {r1, r2}
 Operations <- MCOperations
 Existing = {d1}
 InitStatus = {"draft"}
 MaxFaults = 1
 Ahead = 0
 PURGE_BATCH = 1
 PolicyText = {}
 MaxDecisions = 1
 MaxAttempts = 2
 NoRow = NoRow
 NoRequest = NoRequest
 NoDoc = NoDoc
SPECIFICATION FairReviewSpec
INVARIANTS ReviewTypeOK TrashIsHidden
PROPERTIES ReviewEnds ImplementsLife
\* Every request may be answered and every review over.
CHECK_DEADLOCK FALSE
