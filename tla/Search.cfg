\* Any two requests on one published document, its purge, one reader.
CONSTANTS
 Doc = {d1}
 SlugOf <- MCSlugOf
 Ext = {md}
 Req = {r1, r2}
 Operations <- MCOperations
 Chosen = {"edit", "rollback", "transition", "trash", "restore"}
 Existing = {d1}
 InitStatus = {"active", "pending_review"}
 MaxFaults = 1
 Ahead = 1
 PURGE_BATCH = 1
 PolicyText = {}
 MaxAttempts = 1
 Reader = {q1}
 Principal <- MCPrincipal
 PermissionsOf <- MCPermissionsOf
 TierOf <- MCTierOf
 DomainOf <- MCDomainOf
 Narrowing <- MCNarrowing
 Segment <- MCSegment
 Star <- MCStar
 Blank <- MCBlank
 NoDomain = NoDomain
 NoKey = NoKey
 NoText = NoText
 NoRow = NoRow
 NoRequest = NoRequest
 NoDoc = NoDoc
SPECIFICATION SearchSpec
INVARIANTS FoundWasCurrent ContentIsThere
\* Every request may be answered and every read done.
CHECK_DEADLOCK FALSE
