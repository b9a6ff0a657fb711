\* Two drafts compete for a slug beside three stored documents, one of them all the
\* text of a policy; all may be trashed, and a run takes two.
CONSTANTS
 d1 = d1
 d2 = d2
 d3 = d3
 d4 = d4
 d5 = d5
 Doc = {d1, d2, d3, d4, d5}
 SlugOf <- MCSlugOf
 Ext = {md}
 Req = {r1, r2, r3}
 Operations <- MCOperations
 Chosen = {"create", "trash", "restore"}
 Existing = {d1, d2, d3}
 InitStatus = {"draft"}
 MaxFaults = 1
 Ahead = 0
 PURGE_BATCH = 2
 PolicyText = {d1}
 MaxAttempts = 1
 NoRow = NoRow
 NoRequest = NoRequest
 NoDoc = NoDoc
SPECIFICATION FairSpec
PROPERTY TrashIsEmptied
\* Every request may be answered and every document purged or left alone.
CHECK_DEADLOCK FALSE
