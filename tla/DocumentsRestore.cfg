\* A document is restored while a purge run that found it expired is under way.
CONSTANTS
 d1 = d1
 d2 = d2
 d3 = d3
 d4 = d4
 d5 = d5
 Doc = {d1}
 SlugOf <- MCSlugOf
 Ext = {md}
 Req = {r1, r2}
 Operations <- MCOperations
 Chosen = {"trash", "restore"}
 Existing = {d1}
 InitStatus = {"active"}
 MaxFaults = 0
 Ahead = 0
 PURGE_BATCH = 1
 PolicyText = {}
 MaxAttempts = 1
 NoRow = NoRow
 NoRequest = NoRequest
 NoDoc = NoDoc
SPECIFICATION Spec
PROPERTY PurgeTakesOnlyTrash
CHECK_DEADLOCK FALSE
