\* Three requests, by an administrator or by a principal it manages.
CONSTANTS
 boss = boss
 helper = helper
 new1 = new1
 new2 = new2
 i1 = i1
 i2 = i2
 admin = admin
 reader = reader
 secret = secret
 Agent = {boss, helper, new1, new2}
 Identity = {i1, i2}
 Role = {admin, reader, secret}
 Star <- MCStar
 Blank <- MCBlank
 Segment <- MCSegment
 AdminAgents <- MCAdminAgents
 FeedbackSubmit <- MCFeedbackSubmit
 RolePermissions <- MCRolePermissions
 Initially <- MCInitially
 InitialRoles <- MCInitialRoles
 InitialRecords = {helper}
 Req = {r1, r2, r3}
 Orders <- MCOrders
 Credentials <- MCCredentials
 NoRow = NoRow
 NoIdentity = NoIdentity
 NoAgent = NoAgent
SPECIFICATION Spec
SYMMETRY MCSymmetry
INVARIANTS PrincipalsTypeOK RecordsKeepTheirPrincipal OneAgentPerIdentity DeletedIsDeleted NobodyGainsWhatNobodyHad
PROPERTY OnlyRevokedIsRemoved
\* Every request may be answered.
CHECK_DEADLOCK FALSE
