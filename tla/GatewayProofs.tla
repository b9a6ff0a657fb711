---------------------------- MODULE GatewayProofs ----------------------------
(***************************************************************************)
(* Quotas hold, and keep what was asked for, however many requests race,   *)
(* for any operations of the tables, agents, caps and days.                *)
(***************************************************************************)
EXTENDS Gateway, FiniteSetTheorems, TLAPS

\* The steps of a request before its increment.
Uncounted == {"anonymous", "connect", "limit", "quota", "date", "count"}

\* Every increment of one agent's kind and day returned a count of its own, and
\* a request was let through when its count was within the cap it had read.
CountedOnce ==
  /\ \A r \in Req :
       /\ pc[r] \in Uncounted => req[r].count = 0 /\ ~req[r].admitted
       /\ pc[r] # "idle" /\ req[r].admitted =>
            req[r].count > 0 /\ ~OverQuota(req[r].max, req[r].count)
       /\ pc[r] # "idle" /\ req[r].count > 0 =>
            /\ req[r].caller \in Agent /\ req[r].op.kind \in Kind /\ req[r].day \in 1..MaxDay
            /\ req[r].count <= usage[req[r].caller][req[r].day][req[r].op.kind]
  /\ \A r, s \in Req :
       /\ r # s /\ pc[r] # "idle" /\ pc[s] # "idle" /\ req[r].count > 0 /\ req[s].count > 0
       /\ req[r].caller = req[s].caller /\ req[r].op.kind = req[s].op.kind
       /\ req[r].day = req[s].day
       => req[r].count # req[s].count

\* As long as no two changes of a quota overlapped, one about to be written
\* names for every kind its body left out what the table has.
ChangesAreFresh ==
  ~raced =>
    /\ \A r, s \in Req : pc[r] = "upsert" /\ pc[s] = "upsert" /\ req[r].target = req[s].target
                         => r = s
    /\ \A r \in Req : pc[r] = "upsert" =>
         \A k \in Kind \ req[r].named : req[r].caps[k] = quota[req[r].target][k]

-----------------------------------------------------------------------------
(* Types.                                                                   *)

\* An operation that tells the trail of a change makes one.
Auditable == {op \in Operation : op.audited => op.effect # "none"}

\* Every operation of the tables is one.
LEMMA TablesAreAuditable == AllOperations \subseteq Auditable
\* The shapes first: a table is then a set of them.
<1>1. /\ Looks("rest", "enforce", "search", "searches") \in Auditable
      /\ Read("deferred", "read") \in Auditable
      /\ List("deferred", "read") \in Auditable
      /\ Read("enforce", "read") \in Auditable
      /\ Changes("rest", "enforce", "read", "none") \in Auditable
      /\ Read("enforce", "none") \in Auditable
      /\ Change("enforce", "writes") \in Auditable
      /\ List("enforce", "admin") \in Auditable
      /\ Change("enforce", "none") \in Auditable
      /\ Change("enforce", "uploads") \in Auditable
      /\ Change("deferred", "writes") \in Auditable
      /\ List("enforce", "read") \in Auditable
      /\ Read("enforce", "admin") \in Auditable
      /\ SetsQuota \in Auditable
      /\ Looks("rpc", "enforce", "search", "searches") \in Auditable
      /\ Looks("rpc", "enforce", "read", "none") \in Auditable
      /\ Changes("rpc", "enforce", "read", "none") \in Auditable
      /\ Looks("rpc", "deferred", "read", "none") \in Auditable
      /\ Looks("mcp", "deferred", "search", "searches") \in Auditable
      /\ Looks("mcp", "deferred", "read", "none") \in Auditable
      /\ Changes("mcp", "deferred", "admin", "uploads") \in Auditable
      /\ Changes("mcp", "deferred", "admin", "writes") \in Auditable
  BY DEF Kind, Operation, Auditable, Shape, Looks, Changes, Read, List, Change, SetsQuota
<1> DEFINE Holds(table) == \A h \in DOMAIN table : table[h] \in Auditable
<1>2. Holds(SearchRoute) /\ Holds(FactRoutes) /\ Holds(DocumentRoute) /\ Holds(CatalogRoutes)
  BY <1>1 DEF SearchRoute, FactRoutes, DocumentRoute, CatalogRoutes
<1>3. Holds(PolicyRoute) /\ Holds(FeedbackRoute) /\ Holds(HealthRoute)
  BY <1>1 DEF PolicyRoute, FeedbackRoute, HealthRoute
<1>4. Holds(FactChangeRoutes) /\ Holds(FactRollbackRoute)
      /\ Holds(FactListRoutes) /\ Holds(FactTrashRoutes)
  BY <1>1 DEF FactChangeRoutes, FactRollbackRoute, FactListRoutes, FactTrashRoutes
<1>5. Holds(ProposalRoutes) /\ Holds(UploadRoutes) /\ Holds(TransitionRoute)
  BY <1>1 DEF ProposalRoutes, UploadRoutes, TransitionRoute
<1>6. Holds(ReviewRoutes) /\ Holds(DocumentTrashRoutes) /\ Holds(DocumentListRoutes)
  BY <1>1 DEF ReviewRoutes, DocumentTrashRoutes, DocumentListRoutes
<1>7. Holds(AgentCreateRoute) /\ Holds(AgentListRoute) /\ Holds(AgentDetailRoute)
      /\ Holds(AgentStatusRoute) /\ Holds(QuotaRoute)
  BY <1>1 DEF AgentCreateRoute, AgentListRoute, AgentDetailRoute, AgentStatusRoute, QuotaRoute
<1>8. Holds(AgentRoleRoutes) /\ Holds(AgentDeleteRoute) /\ Holds(RolesRoute)
  BY <1>1 DEF AgentRoleRoutes, AgentDeleteRoute, RolesRoute
<1>9. Holds(IngestionRoutes) /\ Holds(AuditRoute) /\ Holds(RpcSearch) /\ Holds(RpcFeedback)
  BY <1>1 DEF IngestionRoutes, AuditRoute, RpcSearch, RpcFeedback
<1>10. Holds(RpcReads) /\ Holds(RpcCatalog) /\ Holds(RpcLookups)
       /\ Holds(McpSearches) /\ Holds(McpReads) /\ Holds(McpProposals)
  BY <1>1 DEF RpcReads, RpcCatalog, RpcLookups, McpSearches, McpReads, McpProposals
<1>11. \A t \in Tables : Holds(t)
  <2> HIDE DEF Holds
  <2> QED BY <1>2, <1>3, <1>4, <1>5, <1>6, <1>7, <1>8, <1>9, <1>10 DEF Tables
<1> QED BY <1>11 DEF AllOperations

\* The tables hold operations.
LEMMA TablesHoldOperations == AllOperations \subseteq Operation
BY TablesAreAuditable DEF Auditable

LEMMA TypeInit == Init => GatewayTypeOK
<1> SUFFICES ASSUME Init PROVE GatewayTypeOK OBVIOUS
<1>1. RequestsOK BY DEF Init, RequestsOK
<1>2. quota \in [Agent -> [Kind -> Cap]] BY GatewayAssumption DEF Init
<1>3. usage \in [Agent -> [1..MaxDay -> [Kind -> Nat]]] BY DEF Init
<1>4. day \in 1..MaxDay /\ faults \in 0..MaxFaults BY GatewayAssumption DEF Init
<1> QED BY <1>1, <1>2, <1>3, <1>4 DEF Init, TablesOK, GatewayTypeOK

\* What a change of quota writes is a quota.
LEMMA ResolvedIsAQuota ==
  ASSUME NEW given \in Bodies, NEW current \in [Kind -> Cap]
  PROVE  DOMAIN given \subseteq Kind /\ Resolved(given, current) \in [Kind -> Cap]
<1>1. PICK K \in SUBSET Kind : given \in [K -> Cap] BY GatewayAssumption
<1> QED BY <1>1 DEF Resolved

\* The answers and steps a request can go to before its quota is read.
LEMMA StepsOfPermission ==
  ASSUME NEW op \in Operation, NEW caller \in Agent \cup {NoAgent}, NEW permitted \in BOOLEAN
  PROVE  /\ AfterPermission(op, permitted) \in {"deny", "work", "limit"}
         /\ caller = NoAgent => AfterAuthentication(op, caller, permitted) = "anonymous"
         /\ AfterAuthentication(op, caller, permitted)
              \in {"anonymous", "connect", "deny", "work", "limit"}
         /\ AfterChange(op) \in {"record", "allow"}
BY DEF AfterPermission, AfterAuthentication, AfterChange

\* A step that only moves a request on.
LEMMA Moves ==
  ASSUME RequestsOK, NEW r \in Req, pc[r] # "idle", UNCHANGED req,
         NEW l \in Working \cup Answered, Goto(r, l),
         l \in {"connect", "limit", "quota", "date", "count", "work"} => req[r].caller \in Agent,
         l \in {"quota", "date", "count"} => req[r].op.kind \in Kind,
         l = "count" => req[r].day \in 1..MaxDay,
         l = "upsert" => req[r].target \in Agent
  PROVE  RequestsOK'
BY DEF RequestsOK, Goto, Working, Answered

\* A step that moves a request on and keeps something in it.
LEMMA Learns ==
  ASSUME RequestsOK, NEW r \in Req, NEW q \in Request, req' = [req EXCEPT ![r] = q],
         NEW l \in Working \cup Answered, Goto(r, l),
         l \in {"connect", "limit", "quota", "date", "count", "work"} => q.caller \in Agent,
         l \in {"quota", "date", "count"} => q.op.kind \in Kind,
         l = "count" => q.day \in 1..MaxDay,
         l = "upsert" => q.target \in Agent
  PROVE  RequestsOK'
BY GatewayAssumption DEF RequestsOK, Goto, Working, Answered

\* What is written to the trail is a row of it.
LEMMA Records ==
  ASSUME GatewayTypeOK, NEW r \in Req, pc[r] # "idle",
         NEW decision \in {"ALLOW", "DENY", "N/A"}, NEW change \in BOOLEAN
  PROVE  /\ Entry(r, decision, change) \in TrailRow
         /\ SafeRecord(r, Entry(r, decision, change)) =>
              trail' \subseteq TrailRow /\ lost' \subseteq Req /\ faults' \in 0..MaxFaults
<1>1. req[r] \in Request BY DEF GatewayTypeOK, RequestsOK
<1>2. req[r].caller \in Agent \cup {NoAgent} BY <1>1 DEF Request
<1>3. MaxFaults \in Nat BY GatewayAssumption
<1> QED BY <1>2, <1>3 DEF Entry, TrailRow, SafeRecord, Throws, GatewayTypeOK, TablesOK

LEMMA TypeStep == GatewayTypeOK /\ [Next]_vars => GatewayTypeOK'
<1> SUFFICES ASSUME GatewayTypeOK, [Next]_vars PROVE GatewayTypeOK' OBVIOUS
<1>a. \A r \in Req : pc[r] # "idle" =>
        /\ req[r] \in Request /\ req[r].op \in Operation /\ req[r].permitted \in BOOLEAN
        /\ req[r].op.kind \in Kind \cup {"none"} /\ req[r].caller \in Agent \cup {NoAgent}
  BY DEF GatewayTypeOK, RequestsOK, Request, Operation
<1>b. RequestsOK /\ TablesOK BY DEF GatewayTypeOK
<1>f. Throws => faults' \in 0..MaxFaults BY <1>b, GatewayAssumption DEF Throws, TablesOK
<1>1. ASSUME NEW r \in Req, NEW op \in Offered[r], NEW caller \in Agent \cup {NoAgent},
             NEW permitted \in BOOLEAN, Receive(r, op, caller, permitted)
      PROVE  GatewayTypeOK'
  <2> DEFINE q == [op |-> op, caller |-> caller, permitted |-> permitted, max |-> NoCap,
                   count |-> 0, day |-> 0, admitted |-> FALSE, target |-> NoAgent, named |-> {},
                   caps |-> [k \in Kind |-> NoCap]]
  <2>1. op \in Operation BY GatewayAssumption, TablesHoldOperations
  <2>2. q \in Request BY <2>1, GatewayAssumption DEF Request, Cap
  <2>3. req' = [req EXCEPT ![r] = q] /\ q.caller = caller BY <1>1 DEF Receive
  <2>4. PICK l \in Working \cup Answered : Goto(r, l)
          /\ l \notin {"quota", "date", "count", "upsert"}
          /\ (l \in {"connect", "limit", "work"} => caller \in Agent)
    <3>1. CASE Goto(r, AfterAuthentication(op, caller, permitted))
      BY <3>1, <2>1, StepsOfPermission DEF Working
    <3>2. CASE Goto(r, "silent") BY <3>2 DEF Answered
    <3> QED BY <1>1, <3>1, <3>2 DEF Receive
  <2> HIDE DEF q
  <2>5. RequestsOK' BY <2>2, <2>3, <2>4, <1>b, Learns
  <2> QED BY <1>1, <1>b, <1>f, <2>5 DEF Receive, tables, history, TablesOK, GatewayTypeOK
<1>2. ASSUME NEW r \in Req, Anonymous(r) PROVE GatewayTypeOK'
  <2>1. RequestsOK' BY <1>2, <1>b, Moves DEF Anonymous, Working, Answered
  <2> QED BY <1>2, <1>b, <2>1 DEF Anonymous, tables, history, TablesOK, GatewayTypeOK
<1>3. ASSUME NEW r \in Req, Connect(r) PROVE GatewayTypeOK'
  <2>1. pc[r] = "connect" /\ req[r].caller \in Agent BY <1>3, <1>b DEF Connect, RequestsOK
  <2>2. AfterPermission(req[r].op, req[r].permitted) \in {"deny", "work", "limit"}
    BY <2>1, <1>a, StepsOfPermission
  <2>3. RequestsOK' BY <1>3, <2>1, <2>2, <1>b, Moves DEF Connect, Working, Answered
  <2> QED BY <1>3, <1>b, <2>3 DEF Connect, tables, history, TablesOK, GatewayTypeOK
<1>4. ASSUME NEW r \in Req, EnforceRateLimit(r) PROVE GatewayTypeOK'
  <2>1. pc[r] = "limit" /\ req[r].caller \in Agent
    BY <1>4, <1>b DEF EnforceRateLimit, RequestsOK
  <2>2. RequestsOK' BY <1>4, <2>1, <1>a, <1>b, Moves DEF EnforceRateLimit, Working
  <2> QED BY <1>4, <1>b, <2>2 DEF EnforceRateLimit, tables, history, TablesOK, GatewayTypeOK
<1>5. ASSUME NEW r \in Req, GetQuota(r) PROVE GatewayTypeOK'
  <2> DEFINE q == [req[r] EXCEPT !.max = quota[req[r].caller][req[r].op.kind]]
  <2>1. pc[r] = "quota" /\ req[r].caller \in Agent /\ req[r].op.kind \in Kind /\ req[r] \in Request
    BY <1>5, <1>a, <1>b DEF GetQuota, RequestsOK
  <2>c. quota[req[r].caller][req[r].op.kind] \in Cap BY <2>1, <1>b DEF TablesOK
  <2>2. q \in Request /\ q.caller = req[r].caller /\ q.op = req[r].op
    BY <2>1, <2>c DEF Request
  <2>3. req' = [req EXCEPT ![r] = q] BY <1>5 DEF GetQuota
  <2> HIDE DEF q
  <2>4. RequestsOK' BY <1>5, <2>1, <2>2, <2>3, <1>b, Learns DEF GetQuota, Working
  <2> QED BY <1>5, <1>b, <2>4 DEF GetQuota, tables, history, TablesOK, GatewayTypeOK
<1>6. ASSUME NEW r \in Req, RecordUsage(r) PROVE GatewayTypeOK'
  <2> DEFINE a == req[r].caller
             k == req[r].op.kind
             d == req[r].day
             n == usage[a][d][k] + 1
             q == [req[r] EXCEPT !.count = n, !.admitted = ~OverQuota(req[r].max, n)]
  <2>1. /\ pc[r] = "count" /\ a \in Agent /\ k \in Kind /\ d \in 1..MaxDay
        /\ req[r] \in Request
    BY <1>6, <1>a, <1>b DEF RecordUsage, RequestsOK
  <2>2. n \in Nat
    <3>1. usage \in [Agent -> [1..MaxDay -> [Kind -> Nat]]] BY <1>b DEF TablesOK
    <3>2. usage[a][d][k] \in Nat
      <4> HIDE DEF a, k, d
      <4> QED BY <2>1, <3>1
    <3> QED BY <3>2
  <2>o. OverQuota(req[r].max, n) \in BOOLEAN BY DEF OverQuota
  <2>4. q \in Request /\ q.caller = a /\ q.op = req[r].op
    <3> HIDE DEF n, OverQuota
    <3> QED BY <2>1, <2>2, <2>o DEF Request
  <2>5. /\ req' = [req EXCEPT ![r] = q] /\ usage' = [usage EXCEPT ![a][d][k] = n]
        /\ \E l \in {"error", "work"} : Goto(r, l)
    BY <1>6 DEF RecordUsage
  <2>6. usage' \in [Agent -> [1..MaxDay -> [Kind -> Nat]]]
    BY <2>1, <2>2, <2>5, <1>b DEF TablesOK
  <2> HIDE DEF q
  <2>7. RequestsOK' BY <2>1, <2>4, <2>5, <1>b, Learns DEF Working
  <2> QED BY <1>6, <1>b, <2>6, <2>7 DEF RecordUsage, history, TablesOK, GatewayTypeOK
<1>6a. ASSUME NEW r \in Req, TodayDate(r) PROVE GatewayTypeOK'
  <2> DEFINE q == [req[r] EXCEPT !.day = day]
  <2>1. pc[r] = "date" /\ req[r].caller \in Agent /\ req[r].op.kind \in Kind /\ req[r] \in Request
    BY <1>6a, <1>a, <1>b DEF TodayDate, RequestsOK
  <2>2. day \in 1..MaxDay /\ day \in 0..MaxDay BY <1>b, GatewayAssumption DEF TablesOK
  <2>3. q \in Request /\ q.caller = req[r].caller /\ q.op = req[r].op /\ q.day = day
    BY <2>1, <2>2 DEF Request
  <2>4. req' = [req EXCEPT ![r] = q] BY <1>6a DEF TodayDate
  <2> HIDE DEF q
  <2>5. RequestsOK' BY <1>6a, <2>1, <2>2, <2>3, <2>4, <1>b, Learns DEF TodayDate, Working
  <2> QED BY <1>6a, <1>b, <2>5 DEF TodayDate, tables, history, TablesOK, GatewayTypeOK
<1>7. ASSUME NEW r \in Req, Work(r) PROVE GatewayTypeOK'
  <2>1. pc[r] = "work" /\ AfterChange(req[r].op) \in {"record", "allow"}
    BY <1>7, <1>a, StepsOfPermission DEF Work, AfterChange
  <2>2. RequestsOK' BY <1>7, <2>1, <1>b, Moves DEF Work, Working
  <2>3. made' \subseteq Req /\ faults' \in 0..MaxFaults
    BY <1>7, <1>b, <1>f DEF Work, Done, TablesOK
  <2> QED BY <1>7, <1>b, <2>2, <2>3 DEF Work, tables, TablesOK, GatewayTypeOK
<1>8. ASSUME NEW r \in Req, SetQuota(r) PROVE GatewayTypeOK'
  <2>1. pc[r] = "upsert" /\ req[r].target \in Agent /\ req[r] \in Request
        /\ AfterChange(req[r].op) \in {"record", "allow"}
    BY <1>8, <1>a, <1>b, StepsOfPermission DEF SetQuota, RequestsOK, AfterChange
  <2>2. req[r].caps \in [Kind -> Cap] BY <2>1 DEF Request
  <2>3. RequestsOK' BY <1>8, <2>1, <1>b, Moves DEF SetQuota, Working
  <2>4. made' \subseteq Req BY <1>8, <1>b DEF SetQuota, Done, TablesOK
  <2>5. quota' \in [Agent -> [Kind -> Cap]] /\ wanted' \in [Agent -> [Kind -> Cap]]
    BY <1>8, <2>1, <2>2, <1>b DEF SetQuota, TablesOK
  <2> QED BY <1>8, <1>b, <2>3, <2>4, <2>5 DEF SetQuota, TablesOK, GatewayTypeOK
<1>9. ASSUME NEW r \in Req, NEW a \in Agent, NEW given \in Bodies, ReadCaps(r, a, given)
      PROVE  GatewayTypeOK'
  <2> DEFINE q == [req[r] EXCEPT !.target = a, !.named = DOMAIN given,
                                 !.caps = Resolved(given, quota[a])]
  <2>1. pc[r] = "work" /\ req[r] \in Request BY <1>9, <1>a DEF ReadCaps
  <2>2. DOMAIN given \subseteq Kind /\ Resolved(given, quota[a]) \in [Kind -> Cap]
    BY <1>b, ResolvedIsAQuota DEF TablesOK
  <2>3. q \in Request /\ q.target = a BY <2>1, <2>2 DEF Request
  <2>4. req' = [req EXCEPT ![r] = q] BY <1>9 DEF ReadCaps
  <2> HIDE DEF q
  <2>5. RequestsOK' BY <1>9, <2>3, <2>4, <1>b, Learns DEF ReadCaps, Working
  <2>6. raced' \in BOOLEAN BY <1>9 DEF ReadCaps
  <2> QED BY <1>9, <1>b, <2>5, <2>6 DEF ReadCaps, tables, TablesOK, GatewayTypeOK
<1>10. ASSUME NEW r \in Req, AuditChange(r) PROVE GatewayTypeOK'
  <2>1. pc[r] = "record" BY <1>10 DEF AuditChange
  <2>2. RequestsOK' BY <1>10, <2>1, <1>b, Moves DEF AuditChange, Working
  <2>3. trail' \subseteq TrailRow /\ lost' \subseteq Req /\ faults' \in 0..MaxFaults
    BY <1>10, <2>1, <1>b, <1>f, Records DEF AuditChange, TablesOK
  <2> QED BY <1>10, <1>b, <2>2, <2>3 DEF AuditChange, TablesOK, GatewayTypeOK
<1>11. ASSUME NEW r \in Req, AuditAllow(r) \/ AuditDeny(r) \/ AuditError(r)
       PROVE  GatewayTypeOK'
  <2>1. pc[r] \in {"allow", "deny", "error"}
        /\ \E l \in {"allowed", "denied", "failed"} : Goto(r, l)
        /\ \E d \in {"ALLOW", "DENY", "N/A"} : SafeRecord(r, Entry(r, d, FALSE))
        /\ UNCHANGED <<req, quota, usage, day, made, wanted, raced>>
    BY <1>11 DEF AuditAllow, AuditDeny, AuditError
  <2>2. RequestsOK' BY <2>1, <1>b, Moves DEF Answered
  <2>3. trail' \subseteq TrailRow /\ lost' \subseteq Req /\ faults' \in 0..MaxFaults
    BY <2>1, Records
  <2> QED BY <2>1, <1>b, <2>2, <2>3 DEF TablesOK, GatewayTypeOK
<1>12. ASSUME NEW r \in Req, Fail(r) \/ Crash(r) PROVE GatewayTypeOK'
  <2>1. pc[r] # "idle" /\ Throws /\ (\E l \in {"silent", "error", "crashed"} : Goto(r, l))
        /\ UNCHANGED <<req, tables, day, history>>
    BY <1>12 DEF Fail, Crash, Working
  <2>2. RequestsOK' BY <2>1, <1>b, Moves DEF Working, Answered
  <2> QED BY <2>1, <1>b, <1>f, <2>2 DEF tables, history, TablesOK, GatewayTypeOK
<1>13. CASE NextDay
  <2>1. day' \in 1..MaxDay BY <1>13, <1>b, GatewayAssumption DEF NextDay, TablesOK
  <2> QED BY <1>13, <1>b, <2>1
        DEF NextDay, requestVars, tables, history, RequestsOK, TablesOK, GatewayTypeOK
<1>14. CASE UNCHANGED vars
  BY <1>14, <1>b DEF vars, requestVars, tables, history, RequestsOK, TablesOK, GatewayTypeOK
<1> QED BY <1>1, <1>2, <1>3, <1>4, <1>5, <1>6, <1>6a, <1>7, <1>8, <1>9, <1>10, <1>11, <1>12,
       <1>13, <1>14
      DEF Next

\* Requests, tables and histories hold values of their kind, and a request knows
\* at each step what the step needs.
THEOREM TypeCorrect == Spec => []GatewayTypeOK
<1> QED BY TypeInit, TypeStep, PTL DEF Spec

-----------------------------------------------------------------------------
(* Quotas hold.                                                             *)

\* A step that touches no count: the request has none, or keeps the one it has.
LEMMA CountsKept ==
  ASSUME GatewayTypeOK, CountedOnce, NEW r \in Req, NEW q \in Request,
         NEW l \in Working \cup Answered, req' = [req EXCEPT ![r] = q], Goto(r, l),
         UNCHANGED usage,
         \/ q.count = 0 /\ ~q.admitted
         \/ /\ pc[r] # "idle" /\ l \notin Uncounted
            /\ q.caller = req[r].caller /\ q.op = req[r].op /\ q.day = req[r].day
            /\ q.max = req[r].max /\ q.count = req[r].count /\ q.admitted = req[r].admitted
  PROVE  CountedOnce'
<1>1. req'[r] = q /\ pc'[r] = l /\ \A s \in Req \ {r} : req'[s] = req[s] /\ pc'[s] = pc[s]
  BY DEF GatewayTypeOK, RequestsOK, Goto
<1>2. q.count \in Nat BY DEF Request
<1>3. CASE q.count = 0 /\ ~q.admitted
  BY <1>1, <1>3 DEF CountedOnce
<1>4. CASE /\ pc[r] # "idle" /\ l \notin Uncounted
           /\ q.caller = req[r].caller /\ q.op = req[r].op /\ q.day = req[r].day
           /\ q.max = req[r].max /\ q.count = req[r].count /\ q.admitted = req[r].admitted
  BY <1>1, <1>4 DEF CountedOnce
<1> QED BY <1>3, <1>4

\* A step that only moves a request on, and not back before its increment.
LEMMA CountsStay ==
  ASSUME GatewayTypeOK, CountedOnce, NEW r \in Req, pc[r] # "idle", UNCHANGED <<req, usage>>,
         NEW l \in Working \cup Answered, Goto(r, l), l \in Uncounted => pc[r] \in Uncounted
  PROVE  CountedOnce'
<1>1. req[r] \in Request /\ req' = [req EXCEPT ![r] = req[r]]
  BY DEF GatewayTypeOK, RequestsOK
<1>2. pc[r] \in Uncounted => req[r].count = 0 /\ ~req[r].admitted BY DEF CountedOnce
<1> DEFINE q == req[r]
<1> HIDE DEF q
<1>3. q = req[r] BY DEF q
<1>4. \/ q.count = 0 /\ ~q.admitted
      \/ /\ pc[r] # "idle" /\ l \notin Uncounted
         /\ q.caller = req[r].caller /\ q.op = req[r].op /\ q.day = req[r].day
         /\ q.max = req[r].max /\ q.count = req[r].count /\ q.admitted = req[r].admitted
  BY <1>2, <1>3
<1> QED BY <1>1, <1>3, <1>4, CountsKept

\* The increment: its count is above all that the same key has returned.
LEMMA CountsGrow ==
  ASSUME GatewayTypeOK, CountedOnce, NEW r \in Req, RecordUsage(r)
  PROVE  CountedOnce'
<1> DEFINE a == req[r].caller
           k == req[r].op.kind
           date == req[r].day
           n == usage[a][date][k] + 1
           q == [req[r] EXCEPT !.count = n, !.admitted = ~OverQuota(req[r].max, n)]
<1>o. OverQuota(req[r].max, n) \in BOOLEAN BY DEF OverQuota
<1>1. pc[r] = "count" /\ a \in Agent /\ k \in Kind /\ req[r] \in Request /\ date \in 1..MaxDay
  BY DEF RecordUsage, GatewayTypeOK, RequestsOK, TablesOK
<1>u. usage \in [Agent -> [1..MaxDay -> [Kind -> Nat]]] BY DEF GatewayTypeOK, TablesOK
<1>2. usage[a][date][k] \in Nat
  <2> HIDE DEF a, k, date
  <2> QED BY <1>1, <1>u
<1>3. /\ q.caller = a /\ q.op = req[r].op /\ q.day = date /\ q.count = n
      /\ q.max = req[r].max /\ q.admitted = ~OverQuota(req[r].max, n)
  <2> HIDE DEF n
  <2> QED BY <1>1, <1>o DEF Request
<1>4. /\ req' = [req EXCEPT ![r] = q] /\ usage' = [usage EXCEPT ![a][date][k] = n]
      /\ \E l \in {"error", "work"} : Goto(r, l)
  BY DEF RecordUsage
<1> HIDE DEF q
<1>5. /\ req'[r] = q /\ pc'[r] \in {"error", "work"}
      /\ \A s \in Req \ {r} : req'[s] = req[s] /\ pc'[s] = pc[s]
  BY <1>4 DEF GatewayTypeOK, RequestsOK, Goto
<1>6. /\ usage'[a][date][k] = n
      /\ \A b \in Agent, d \in 1..MaxDay, j \in Kind :
           /\ usage[b][d][j] \in Nat /\ usage'[b][d][j] \in Nat
           /\ usage[b][d][j] <= usage'[b][d][j]
  <2>1. \A b \in Agent, d \in 1..MaxDay, j \in Kind :
          /\ usage[b][d][j] \in Nat
          /\ usage'[b][d][j] = IF b = a /\ d = date /\ j = k THEN n ELSE usage[b][d][j]
    <3> SUFFICES ASSUME NEW b \in Agent, NEW d \in 1..MaxDay, NEW j \in Kind
                 PROVE  /\ usage[b][d][j] \in Nat
                        /\ usage'[b][d][j] = IF b = a /\ d = date /\ j = k
                                                THEN n ELSE usage[b][d][j]
      OBVIOUS
    <3>1. usage[b] \in [1..MaxDay -> [Kind -> Nat]] /\ usage[b][d] \in [Kind -> Nat]
      BY <1>u
    <3>2. usage' = [usage EXCEPT ![a][date][k] = n] BY <1>4
    <3> HIDE DEF a, k, date, n
    <3>3. CASE b = a /\ d = date BY <3>1, <3>2, <3>3, <1>u
    <3>4. CASE ~(b = a /\ d = date) BY <3>1, <3>2, <3>4, <1>u
    <3> QED BY <3>3, <3>4
  <2> HIDE DEF a, k, date
  <2> QED BY <2>1, <1>1, <1>2
<1>7. \A s \in Req \ {r} : pc[s] # "idle" => req[s].count \in Nat
  BY DEF GatewayTypeOK, RequestsOK, Request
<1>8. \A s \in Req \ {r} :
        pc[s] # "idle" /\ req[s].count > 0 =>
          /\ req[s].caller \in Agent /\ req[s].op.kind \in Kind /\ req[s].day \in 1..MaxDay
          /\ req[s].count <= usage[req[s].caller][req[s].day][req[s].op.kind]
  BY DEF CountedOnce
<1>9. \A s \in Req \ {r} :
        pc[s] # "idle" /\ req[s].count > 0 =>
          /\ req[s].count <= usage'[req[s].caller][req[s].day][req[s].op.kind]
          /\ req[s].caller = a /\ req[s].op.kind = k /\ req[s].day = date => req[s].count < n
  <2> SUFFICES ASSUME NEW s \in Req \ {r}, pc[s] # "idle", req[s].count > 0
               PROVE  /\ req[s].count <= usage'[req[s].caller][req[s].day][req[s].op.kind]
                      /\ req[s].caller = a /\ req[s].op.kind = k /\ req[s].day = date =>
                           req[s].count < n
    OBVIOUS
  <2> DEFINE before == usage[req[s].caller][req[s].day][req[s].op.kind]
             after == usage'[req[s].caller][req[s].day][req[s].op.kind]
  <2>1. req[s].count <= before /\ before <= after /\ req[s].count \in Nat BY <1>6, <1>7, <1>8
  <2>2. before \in Nat /\ after \in Nat BY <1>6, <1>8
  <2>3. req[s].caller = a /\ req[s].op.kind = k /\ req[s].day = date => n = before + 1
    OBVIOUS
  <2>4. req[s].count <= after
    <3> HIDE DEF before, after
    <3> QED BY <2>1, <2>2
  <2>5. before < before + 1 /\ (n = before + 1 => req[s].count < n)
    <3> HIDE DEF before, n
    <3> QED BY <2>1, <2>2
  <2> QED BY <2>3, <2>4, <2>5
<1> HIDE DEF a, k, date, n
<1>10. n \in Nat /\ n > 0 BY <1>2 DEF n
<1>11. \A s \in Req :
         /\ pc'[s] \in Uncounted => req'[s].count = 0 /\ ~req'[s].admitted
         /\ pc'[s] # "idle" /\ req'[s].admitted =>
              req'[s].count > 0 /\ ~OverQuota(req'[s].max, req'[s].count)
  <2> SUFFICES ASSUME NEW s \in Req
               PROVE  /\ pc'[s] \in Uncounted => req'[s].count = 0 /\ ~req'[s].admitted
                      /\ pc'[s] # "idle" /\ req'[s].admitted =>
                           req'[s].count > 0 /\ ~OverQuota(req'[s].max, req'[s].count)
    OBVIOUS
  <2>1. CASE s = r BY <1>3, <1>5, <1>10, <2>1 DEF Uncounted
  <2>2. CASE s # r BY <1>5, <2>2 DEF CountedOnce
  <2> QED BY <2>1, <2>2
<1>12. \A s \in Req :
         pc'[s] # "idle" /\ req'[s].count > 0 =>
           /\ req'[s].caller \in Agent /\ req'[s].op.kind \in Kind /\ req'[s].day \in 1..MaxDay
           /\ req'[s].count <= usage'[req'[s].caller][req'[s].day][req'[s].op.kind]
  <2> SUFFICES ASSUME NEW s \in Req, pc'[s] # "idle", req'[s].count > 0
               PROVE  /\ req'[s].caller \in Agent /\ req'[s].op.kind \in Kind
                      /\ req'[s].day \in 1..MaxDay
                      /\ req'[s].count <= usage'[req'[s].caller][req'[s].day][req'[s].op.kind]
    OBVIOUS
  <2>1. CASE s = r
    <3>1. req[r].op.kind = k /\ req[r].caller = a /\ req[r].day = date
      BY DEF a, k, date
    <3> QED BY <3>1, <1>1, <1>3, <1>5, <1>6, <1>10, <2>1
  <2>2. CASE s # r BY <1>5, <1>8, <1>9, <2>2
  <2> QED BY <2>1, <2>2
<1>13. ASSUME NEW s \in Req, NEW t \in Req, s # t, pc'[s] # "idle", pc'[t] # "idle",
              req'[s].count > 0, req'[t].count > 0, req'[s].caller = req'[t].caller,
              req'[s].op.kind = req'[t].op.kind, req'[s].day = req'[t].day
       PROVE  req'[s].count # req'[t].count
  <2>1. req[r].op.kind = k /\ req[r].caller = a /\ req[r].day = date
      BY DEF a, k, date
  <2>2. CASE s = r
    <3>1. req[t].count < n /\ req[t].count \in Nat
      BY <1>3, <1>5, <1>7, <1>9, <1>13, <2>1, <2>2
    <3> QED BY <3>1, <1>3, <1>5, <1>10, <1>13, <2>2
  <2>3. CASE t = r
    <3>1. req[s].count < n /\ req[s].count \in Nat
      BY <1>3, <1>5, <1>7, <1>9, <1>13, <2>1, <2>3
    <3> QED BY <3>1, <1>3, <1>5, <1>10, <1>13, <2>3
  <2>4. CASE s # r /\ t # r BY <1>5, <1>13, <2>4 DEF CountedOnce
  <2> QED BY <2>2, <2>3, <2>4
<1> QED BY <1>11, <1>12, <1>13 DEF CountedOnce

LEMMA CountedStep == GatewayTypeOK /\ CountedOnce /\ [Next]_vars => CountedOnce'
<1> SUFFICES ASSUME GatewayTypeOK, CountedOnce, [Next]_vars PROVE CountedOnce' OBVIOUS
<1>a. \A r \in Req : pc[r] # "idle" =>
        /\ req[r] \in Request /\ req[r].op \in Operation /\ req[r].permitted \in BOOLEAN
  BY DEF GatewayTypeOK, RequestsOK, Request
<1>b. \A r \in Req : pc[r] \in Uncounted => req[r].count = 0 /\ ~req[r].admitted
  BY DEF CountedOnce
<1>1. ASSUME NEW r \in Req, NEW op \in Offered[r], NEW caller \in Agent \cup {NoAgent},
             NEW permitted \in BOOLEAN, Receive(r, op, caller, permitted)
      PROVE  CountedOnce'
  <2> DEFINE q == [op |-> op, caller |-> caller, permitted |-> permitted, max |-> NoCap,
                   count |-> 0, day |-> 0, admitted |-> FALSE, target |-> NoAgent, named |-> {},
                   caps |-> [k \in Kind |-> NoCap]]
  <2>1. op \in Operation BY GatewayAssumption, TablesHoldOperations
  <2>2. q \in Request BY <2>1, GatewayAssumption DEF Request, Cap
  <2>3. req' = [req EXCEPT ![r] = q] /\ q.count = 0 /\ ~q.admitted /\ UNCHANGED usage
    BY <1>1 DEF Receive, tables
  <2>4. PICK l \in Working \cup Answered : Goto(r, l)
    <3>1. CASE Goto(r, AfterAuthentication(op, caller, permitted))
      BY <3>1, <2>1, StepsOfPermission DEF Working
    <3>2. CASE Goto(r, "silent") BY <3>2 DEF Answered
    <3> QED BY <1>1, <3>1, <3>2 DEF Receive
  <2> HIDE DEF q
  <2> QED BY <2>2, <2>3, <2>4, CountsKept
<1>2. ASSUME NEW r \in Req, Anonymous(r) PROVE CountedOnce'
  BY <1>2, CountsStay DEF Anonymous, tables, Working, Answered, Uncounted
<1>3. ASSUME NEW r \in Req, Connect(r) PROVE CountedOnce'
  <2>1. pc[r] = "connect" /\ pc[r] \in Uncounted BY <1>3 DEF Connect, Uncounted
  <2>2. AfterPermission(req[r].op, req[r].permitted) \in {"deny", "work", "limit"}
    BY <2>1, <1>a, StepsOfPermission
  <2> QED BY <1>3, <2>1, <2>2, CountsStay DEF Connect, tables, Working, Answered
<1>4. ASSUME NEW r \in Req, EnforceRateLimit(r) PROVE CountedOnce'
  <2>1. pc[r] = "limit" /\ pc[r] \in Uncounted BY <1>4 DEF EnforceRateLimit, Uncounted
  <2> QED BY <1>4, <2>1, CountsStay DEF EnforceRateLimit, tables, Working
<1>5. ASSUME NEW r \in Req, GetQuota(r) PROVE CountedOnce'
  <2> DEFINE q == [req[r] EXCEPT !.max = quota[req[r].caller][req[r].op.kind]]
  <2>1. /\ pc[r] = "quota" /\ req[r].caller \in Agent /\ req[r].op.kind \in Kind
        /\ req[r] \in Request /\ req[r].count = 0 /\ ~req[r].admitted
    BY <1>5, <1>a, <1>b DEF GetQuota, GatewayTypeOK, RequestsOK, Uncounted
  <2>2. quota[req[r].caller][req[r].op.kind] \in Cap BY <2>1 DEF GatewayTypeOK, TablesOK
  <2>3. q \in Request /\ q.count = 0 /\ ~q.admitted BY <2>1, <2>2 DEF Request
  <2>4. req' = [req EXCEPT ![r] = q] BY <1>5 DEF GetQuota
  <2> HIDE DEF q
  <2> QED BY <1>5, <2>3, <2>4, CountsKept DEF GetQuota, tables, Working
<1>6. ASSUME NEW r \in Req, RecordUsage(r) PROVE CountedOnce' BY <1>6, CountsGrow
<1>6a. ASSUME NEW r \in Req, TodayDate(r) PROVE CountedOnce'
  <2> DEFINE q == [req[r] EXCEPT !.day = day]
  <2>1. pc[r] = "date" /\ req[r] \in Request /\ req[r].count = 0 /\ ~req[r].admitted
    BY <1>6a, <1>a, <1>b DEF TodayDate, Uncounted
  <2>2. day \in 0..MaxDay BY GatewayAssumption DEF GatewayTypeOK, TablesOK
  <2>3. q \in Request /\ q.count = 0 /\ ~q.admitted BY <2>1, <2>2 DEF Request
  <2>4. req' = [req EXCEPT ![r] = q] BY <1>6a DEF TodayDate
  <2> HIDE DEF q
  <2> QED BY <1>6a, <2>3, <2>4, CountsKept DEF TodayDate, tables, Working
<1>7. ASSUME NEW r \in Req, Work(r) PROVE CountedOnce'
  <2>1. pc[r] = "work" /\ AfterChange(req[r].op) \in {"record", "allow"}
    BY <1>7 DEF Work, AfterChange
  <2> QED BY <1>7, <2>1, CountsStay DEF Work, tables, Working, Uncounted
<1>8. ASSUME NEW r \in Req, SetQuota(r) PROVE CountedOnce'
  <2>1. pc[r] = "upsert" /\ AfterChange(req[r].op) \in {"record", "allow"}
    BY <1>8 DEF SetQuota, AfterChange
  <2> QED BY <1>8, <2>1, CountsStay DEF SetQuota, Working, Uncounted
<1>9. ASSUME NEW r \in Req, NEW a \in Agent, NEW given \in Bodies, ReadCaps(r, a, given)
      PROVE  CountedOnce'
  <2> DEFINE q == [req[r] EXCEPT !.target = a, !.named = DOMAIN given,
                                 !.caps = Resolved(given, quota[a])]
  <2>1. pc[r] = "work" /\ req[r] \in Request BY <1>9, <1>a DEF ReadCaps
  <2>2. DOMAIN given \subseteq Kind /\ Resolved(given, quota[a]) \in [Kind -> Cap]
    BY ResolvedIsAQuota DEF GatewayTypeOK, TablesOK
  <2>3. /\ q \in Request /\ q.caller = req[r].caller /\ q.op = req[r].op /\ q.day = req[r].day
        /\ q.max = req[r].max /\ q.count = req[r].count /\ q.admitted = req[r].admitted
    BY <2>1, <2>2 DEF Request
  <2>4. req' = [req EXCEPT ![r] = q] BY <1>9 DEF ReadCaps
  <2> HIDE DEF q
  <2> QED BY <1>9, <2>1, <2>3, <2>4, CountsKept DEF ReadCaps, tables, Working, Uncounted
<1>10. ASSUME NEW r \in Req, AuditChange(r) PROVE CountedOnce'
  <2>1. pc[r] = "record" BY <1>10 DEF AuditChange
  <2> QED BY <1>10, <2>1, CountsStay DEF AuditChange, Working, Uncounted
<1>11. ASSUME NEW r \in Req, AuditAllow(r) \/ AuditDeny(r) \/ AuditError(r)
       PROVE  CountedOnce'
  <2>1. /\ pc[r] # "idle" /\ (\E l \in {"allowed", "denied", "failed"} : Goto(r, l))
        /\ UNCHANGED <<req, usage>>
    BY <1>11 DEF AuditAllow, AuditDeny, AuditError
  <2> QED BY <2>1, CountsStay DEF Answered, Uncounted
<1>12. ASSUME NEW r \in Req, Fail(r) \/ Crash(r) PROVE CountedOnce'
  <2>1. /\ pc[r] # "idle" /\ (\E l \in {"silent", "error", "crashed"} : Goto(r, l))
        /\ UNCHANGED <<req, usage>>
    BY <1>12 DEF Fail, Crash, Working, tables
  <2> QED BY <2>1, CountsStay DEF Working, Answered, Uncounted
<1>13. CASE NextDay
  BY <1>13 DEF NextDay, requestVars, tables, CountedOnce
<1>14. CASE UNCHANGED vars
  BY <1>14 DEF vars, requestVars, tables, CountedOnce
<1> QED BY <1>1, <1>2, <1>3, <1>4, <1>5, <1>6, <1>6a, <1>7, <1>8, <1>9, <1>10, <1>11, <1>12,
           <1>13, <1>14
      DEF Next

\* Requests let through under a cap of n have counts of their own in 1..n.
LEMMA DistinctCountsBound ==
  ASSUME GatewayTypeOK, CountedOnce,
         NEW a \in Agent, NEW k \in Kind, NEW d \in 1..MaxDay, NEW n \in CapValues
  PROVE  Cardinality(LetThrough(a, k, d, n)) <= n
<1> DEFINE S == LetThrough(a, k, d, n)
           count == [r \in S |-> req[r].count]
<1>1. n \in Nat BY GatewayAssumption
<1>2. \A r \in S : req[r].count \in 1..n
  <2> SUFFICES ASSUME NEW r \in S PROVE req[r].count \in 1..n OBVIOUS
  <2>1. /\ r \in Req /\ pc[r] # "idle" /\ req[r].admitted /\ req[r] \in Request
        /\ req[r].max # NoCap /\ req[r].max <= n
    BY DEF LetThrough, GatewayTypeOK, RequestsOK
  <2>2. req[r].count \in Nat /\ req[r].max \in Nat BY <2>1, GatewayAssumption DEF Request, Cap
  <2>3. req[r].count > 0 /\ ~OverQuota(req[r].max, req[r].count) BY <2>1 DEF CountedOnce
  <2> QED BY <2>1, <2>2, <2>3, <1>1 DEF OverQuota
<1>3. \A r, s \in S : req[r].count = req[s].count => r = s
  <2> SUFFICES ASSUME NEW r \in S, NEW s \in S, r # s PROVE req[r].count # req[s].count
    OBVIOUS
  <2>1. /\ r \in Req /\ s \in Req /\ pc[r] # "idle" /\ pc[s] # "idle"
        /\ req[r].caller = req[s].caller /\ req[r].op.kind = req[s].op.kind
        /\ req[r].day = req[s].day
    BY DEF LetThrough, GatewayTypeOK, RequestsOK
  <2>2. req[r].count > 0 /\ req[s].count > 0 BY <1>2, <1>1
  <2> QED BY <2>1, <2>2 DEF CountedOnce
<1> HIDE DEF S
<1>4. count \in Injection(S, 1..n) BY <1>2, <1>3 DEF Injection, IsInjective
<1>5. IsFiniteSet(1..n) /\ Cardinality(1..n) = n BY <1>1, FS_Interval
<1> HIDE DEF count
<1>6. Cardinality(S) <= Cardinality(1..n) BY <1>4, <1>5, FS_Injection
<1> QED BY <1>5, <1>6 DEF S

\* However many requests race for the last unit, no more than n of an agent's day
\* go through under a cap of n.
THEOREM QuotasHold == Spec => []QuotaHolds
<1>1. Init => CountedOnce
  <2>1. Init => \A r \in Req : pc[r] = "idle" BY DEF Init
  <2> QED BY <2>1 DEF CountedOnce, Uncounted
<1>2. GatewayTypeOK /\ CountedOnce => QuotaHolds BY DistinctCountsBound DEF QuotaHolds
<1> QED BY <1>1, <1>2, TypeInit, TypeStep, CountedStep, PTL DEF Spec

-----------------------------------------------------------------------------
(* Quotas keep what was asked for.                                          *)

\* A step that writes no quota and begins no change of one.
LEMMA FreshStays ==
  ASSUME GatewayTypeOK, ChangesAreFresh, CapsAreKept, UNCHANGED <<quota, wanted, raced>>,
         \A r \in Req : pc'[r] = "upsert" =>
           pc[r] = "upsert" /\ req'[r].target = req[r].target
           /\ req'[r].named = req[r].named /\ req'[r].caps = req[r].caps
  PROVE  ChangesAreFresh' /\ CapsAreKept'
BY DEF ChangesAreFresh, CapsAreKept

LEMMA FreshStep == GatewayTypeOK /\ ChangesAreFresh /\ CapsAreKept /\ [Next]_vars
                     => ChangesAreFresh' /\ CapsAreKept'
<1> SUFFICES ASSUME GatewayTypeOK, ChangesAreFresh, CapsAreKept, [Next]_vars
             PROVE  ChangesAreFresh' /\ CapsAreKept'
  OBVIOUS
<1>a. DOMAIN pc = Req /\ DOMAIN req = Req /\ RequestsOK /\ TablesOK
  BY DEF GatewayTypeOK, RequestsOK
<1>g. ASSUME NEW r \in Req, NEW l, l # "upsert", Goto(r, l), UNCHANGED <<quota, wanted, raced>>,
             \A s \in Req \ {r} : req'[s] = req[s]
      PROVE  ChangesAreFresh' /\ CapsAreKept'
  <2>1. \A s \in Req : pc'[s] = IF s = r THEN l ELSE pc[s] BY <1>a, <1>g DEF Goto
  <2> QED BY <2>1, <1>g, FreshStays
<1>1. ASSUME NEW r \in Req, NEW op \in Offered[r], NEW caller \in Agent \cup {NoAgent},
             NEW permitted \in BOOLEAN, Receive(r, op, caller, permitted)
      PROVE  ChangesAreFresh' /\ CapsAreKept'
  <2>1. op \in Operation BY GatewayAssumption, TablesHoldOperations
  <2>2. PICK l : Goto(r, l) /\ l # "upsert"
    BY <1>1, <2>1, StepsOfPermission DEF Receive
  <2>3. \A s \in Req \ {r} : req'[s] = req[s] BY <1>1, <1>a DEF Receive
  <2> QED BY <1>1, <1>g, <2>2, <2>3 DEF Receive, tables, history
<1>2. ASSUME NEW r \in Req, Anonymous(r) PROVE ChangesAreFresh' /\ CapsAreKept'
  BY <1>2, <1>g DEF Anonymous, tables, history
<1>3. ASSUME NEW r \in Req, Connect(r) PROVE ChangesAreFresh' /\ CapsAreKept'
  <2>1. AfterPermission(req[r].op, req[r].permitted) # "upsert" BY DEF AfterPermission
  <2> QED BY <1>3, <1>g, <2>1 DEF Connect, tables, history
<1>4. ASSUME NEW r \in Req, EnforceRateLimit(r) PROVE ChangesAreFresh' /\ CapsAreKept'
  BY <1>4, <1>g DEF EnforceRateLimit, tables, history
<1>5. ASSUME NEW r \in Req, GetQuota(r) PROVE ChangesAreFresh' /\ CapsAreKept'
  BY <1>5, <1>g, <1>a DEF GetQuota, tables, history
<1>6. ASSUME NEW r \in Req, RecordUsage(r) PROVE ChangesAreFresh' /\ CapsAreKept'
  <2>1. \E l \in {"error", "work"} : Goto(r, l) BY <1>6 DEF RecordUsage
  <2>2. \A s \in Req \ {r} : req'[s] = req[s] BY <1>6, <1>a DEF RecordUsage
  <2> QED BY <1>6, <1>g, <2>1, <2>2 DEF RecordUsage, history
<1>6a. ASSUME NEW r \in Req, TodayDate(r) PROVE ChangesAreFresh' /\ CapsAreKept'
  BY <1>6a, <1>g, <1>a DEF TodayDate, tables, history
<1>7. ASSUME NEW r \in Req, Work(r) PROVE ChangesAreFresh' /\ CapsAreKept'
  <2>1. AfterChange(req[r].op) # "upsert" BY DEF AfterChange
  <2> QED BY <1>7, <1>g, <2>1 DEF Work, tables
<1>8. ASSUME NEW r \in Req, SetQuota(r) PROVE ChangesAreFresh' /\ CapsAreKept'
  <2> SUFFICES ASSUME ~raced PROVE ChangesAreFresh' /\ CapsAreKept'
    BY <1>8 DEF SetQuota, ChangesAreFresh, CapsAreKept
  <2> DEFINE q == req[r]
  <2>1. pc[r] = "upsert" /\ q.target \in Agent /\ q \in Request /\ AfterChange(q.op) # "upsert"
    BY <1>8, <1>a DEF SetQuota, RequestsOK, AfterChange
  <2>2. q.caps \in [Kind -> Cap] /\ quota = wanted /\ quota \in [Agent -> [Kind -> Cap]]
    BY <2>1, <1>a DEF Request, CapsAreKept, TablesOK
  <2>3. \A k \in Kind \ q.named : q.caps[k] = quota[q.target][k] BY <2>1 DEF ChangesAreFresh
  <2>4. /\ quota' = [quota EXCEPT ![q.target] = q.caps]
        /\ wanted' = [wanted EXCEPT ![q.target] =
                        [k \in Kind |-> IF k \in q.named THEN q.caps[k] ELSE wanted[q.target][k]]]
        /\ Goto(r, AfterChange(q.op)) /\ UNCHANGED <<req, raced>>
    BY <1>8 DEF SetQuota
  <2>5. quota' = wanted'
    <3>1. [k \in Kind |-> IF k \in q.named THEN q.caps[k] ELSE wanted[q.target][k]] = q.caps
      BY <2>2, <2>3
    <3> QED BY <2>2, <2>4, <3>1
  <2>6. \A s \in Req : pc'[s] = "upsert" =>
          pc[s] = "upsert" /\ s # r /\ req'[s] = req[s] /\ req[s].target # q.target
    BY <2>1, <2>4, <1>a DEF Goto, ChangesAreFresh
  <2>7. \A s \in Req : pc'[s] = "upsert" => quota'[req[s].target] = quota[req[s].target]
    BY <2>2, <2>4, <2>6
  <2>8. ChangesAreFresh' BY <2>4, <2>6, <2>7 DEF ChangesAreFresh
  <2> QED BY <2>5, <2>8 DEF CapsAreKept
<1>9. ASSUME NEW r \in Req, NEW a \in Agent, NEW given \in Bodies, ReadCaps(r, a, given)
      PROVE  ChangesAreFresh' /\ CapsAreKept'
  <2> SUFFICES ASSUME ~raced, Changing(a) = {} PROVE ChangesAreFresh' /\ CapsAreKept'
    BY <1>9 DEF ReadCaps, ChangesAreFresh, CapsAreKept
  <2> DEFINE q == [req[r] EXCEPT !.target = a, !.named = DOMAIN given,
                                 !.caps = Resolved(given, quota[a])]
  <2>1. pc[r] = "work" /\ req[r] \in Request BY <1>9, <1>a DEF ReadCaps, RequestsOK
  <2>2. q.target = a /\ q.named = DOMAIN given /\ q.caps = Resolved(given, quota[a])
    BY <2>1 DEF Request
  <2>3. req' = [req EXCEPT ![r] = q] /\ Goto(r, "upsert") /\ UNCHANGED <<quota, wanted>>
    BY <1>9 DEF ReadCaps, tables
  <2>4. ~raced' BY <1>9 DEF ReadCaps
  <2> HIDE DEF q
  <2>5. /\ req'[r] = q /\ \A s \in Req \ {r} : req'[s] = req[s] /\ pc'[s] = pc[s]
    BY <2>3, <1>a DEF Goto
  <2>6. \A s \in Req \ {r} : pc[s] = "upsert" => req[s].target # a BY DEF Changing
  <2>7. \A k \in Kind \ q.named : q.caps[k] = quota[a][k] BY <2>2 DEF Resolved
  <2>8. ChangesAreFresh' BY <2>2, <2>3, <2>5, <2>6, <2>7 DEF ChangesAreFresh
  <2> QED BY <2>3, <2>8 DEF CapsAreKept
<1>10. ASSUME NEW r \in Req, AuditChange(r) PROVE ChangesAreFresh' /\ CapsAreKept'
  BY <1>10, <1>g DEF AuditChange
<1>11. ASSUME NEW r \in Req, AuditAllow(r) \/ AuditDeny(r) \/ AuditError(r)
       PROVE  ChangesAreFresh' /\ CapsAreKept'
  BY <1>11, <1>g DEF AuditAllow, AuditDeny, AuditError
<1>12. ASSUME NEW r \in Req, Fail(r) \/ Crash(r) PROVE ChangesAreFresh' /\ CapsAreKept'
  BY <1>12, <1>g DEF Fail, Crash, tables, history
<1>13. CASE NextDay
  BY <1>13, FreshStays DEF NextDay, requestVars, tables, history
<1>14. CASE UNCHANGED vars
  BY <1>14, FreshStays DEF vars, requestVars, tables, history
<1> QED BY <1>1, <1>2, <1>3, <1>4, <1>5, <1>6, <1>6a, <1>7, <1>8, <1>9, <1>10, <1>11, <1>12,
           <1>13, <1>14
      DEF Next

\* Changes of a quota that do not overlap leave what they do not name as it was.
THEOREM CapsKept == Spec => []CapsAreKept
<1>1. Init => ChangesAreFresh /\ CapsAreKept
  <2>1. Init => quota = wanted /\ \A r \in Req : pc[r] = "idle" BY DEF Init
  <2> QED BY <2>1 DEF ChangesAreFresh, CapsAreKept
<1> QED BY <1>1, TypeInit, TypeStep, FreshStep, PTL DEF Spec

-----------------------------------------------------------------------------
(* The trail.                                                               *)

\* The steps, and the answers, at which nothing was done or written yet.
Unwritten == {"idle", "anonymous", "connect", "limit", "quota", "date", "count", "work",
              "upsert", "deny", "silent"}

RowsOf(r) == {e \in trail : e.req = r}

\* What one request has done and what the trail tells of it, by where it is.
AccountOf(r) ==
  /\ \A e \in RowsOf(r) : e.actor = req[r].caller /\ (e.change => r \in made)
  /\ r \in made \/ pc[r] = "upsert" => req[r].permitted /\ req[r].caller # NoAgent
  /\ pc[r] # "idle" => req[r].op \in Auditable
  /\ pc[r] \in Unwritten => r \notin made /\ RowsOf(r) = {}
  /\ pc[r] = "record" => r \in made /\ req[r].op.audited /\ RowsOf(r) = {}
  /\ pc[r] \in {"allow", "error"} => \A e \in RowsOf(r) : e.change
  /\ pc[r] = "allow" /\ r \notin lost => (req[r].op.audited <=> RowsOf(r) # {})
  /\ pc[r] \in Answered \ {"silent", "crashed"} /\ r \notin lost =>
       /\ Cardinality({e \in RowsOf(r) : ~e.change}) = 1
       /\ pc[r] = "allowed" => \A c \in BOOLEAN :
            (\E e \in RowsOf(r) : e.change = c) <=> ~c \/ req[r].op.audited

AccountsInv == \A r \in Req : AccountOf(r)

\* A step of one request touches no other's account.
LEMMA AccountsApart ==
  ASSUME AccountsInv, NEW r \in Req, AccountOf(r)',
         \A s \in Req \ {r} :
           /\ pc'[s] = pc[s] /\ req'[s] = req[s] /\ RowsOf(s)' = RowsOf(s)
           /\ s \in made' <=> s \in made
           /\ s \in lost' <=> s \in lost
  PROVE  AccountsInv'
<1>1. ASSUME NEW s \in Req \ {r} PROVE AccountOf(s)'
  <2>1. AccountOf(s) BY DEF AccountsInv
  <2>2. /\ pc'[s] = pc[s] /\ req'[s] = req[s] /\ RowsOf(s)' = RowsOf(s)
        /\ s \in made' <=> s \in made
        /\ s \in lost' <=> s \in lost
    OBVIOUS
  <2> DEFINE rows == RowsOf(s)
  <2> HIDE DEF rows
  <2> QED BY <2>1, <2>2 DEF AccountOf
<1> QED BY <1>1 DEF AccountsInv

\* Until something is done or written there is nothing to account for.
LEMMA NothingYet ==
  ASSUME GatewayTypeOK, AccountsInv, NEW r \in Req, pc[r] \in Unwritten,
         NEW q, req' = [req EXCEPT ![r] = q], q.op \in Auditable,
         NEW l, Goto(r, l), l \in (Unwritten \ {"idle"}) \cup {"allow", "error", "crashed"},
         l = "allow" => ~q.op.audited,
         l = "upsert" => q.permitted /\ q.caller # NoAgent,
         UNCHANGED <<trail, made, lost>>
  PROVE  AccountsInv'
<1>1. /\ pc'[r] = l /\ req'[r] = q
      /\ \A s \in Req \ {r} : pc'[s] = pc[s] /\ req'[s] = req[s]
  BY DEF GatewayTypeOK, RequestsOK, Goto
<1>2. \A s \in Req : RowsOf(s)' = RowsOf(s) BY DEF RowsOf
<1>3. r \notin made' /\ RowsOf(r)' = {} BY <1>2 DEF AccountsInv, AccountOf
<1>4. AccountOf(r)'
  BY <1>1, <1>3 DEF AccountOf, Unwritten, Answered
<1> QED BY <1>1, <1>2, <1>4, AccountsApart

\* A change is made by who may, and goes on to its row of the trail.
LEMMA DoneByWhoMay ==
  ASSUME GatewayTypeOK, AccountsInv, NEW r \in Req, pc[r] \in {"work", "upsert"}, req' = req,
         req[r].permitted /\ req[r].caller # NoAgent,
         NEW l \in {AfterChange(req[r].op), "error"}, Goto(r, l),
         Done(r), UNCHANGED <<trail, lost>>
  PROVE  AccountsInv'
<1>1. /\ pc'[r] = l
      /\ \A s \in Req \ {r} : pc'[s] = pc[s] /\ (s \in made' <=> s \in made)
  BY DEF GatewayTypeOK, RequestsOK, Goto, Done
<1>2. \A s \in Req : RowsOf(s)' = RowsOf(s) BY DEF RowsOf
<1>3. r \in made' /\ RowsOf(r)' = {} /\ req[r].op \in Auditable
  BY <1>2 DEF AccountsInv, AccountOf, Done, Unwritten
<1>4. ASSUME req[r].op.audited /\ l = "record" PROVE AccountOf(r)'
  BY <1>1, <1>3, <1>4 DEF AccountOf, Unwritten, Answered
<1>5. ASSUME ~req[r].op.audited /\ l = "allow" PROVE AccountOf(r)'
  BY <1>1, <1>3, <1>5 DEF AccountOf, Unwritten, Answered
<1>6. ASSUME l = "error" PROVE AccountOf(r)'
  BY <1>1, <1>3, <1>6 DEF AccountOf, Unwritten, Answered
<1>7. AccountOf(r)' BY <1>4, <1>5, <1>6 DEF AfterChange
<1> QED BY <1>1, <1>2, <1>7, AccountsApart

\* A row of the trail is one more of its request, or the request has lost one.
LEMMA WrittenOrLost ==
  ASSUME NEW r \in Req, NEW decision, NEW change \in BOOLEAN,
         \/ trail' = trail \cup {Entry(r, decision, change)} /\ lost' = lost
         \/ trail' = trail /\ lost' = lost \cup {r}
  PROVE  /\ \A s \in Req \ {r} : RowsOf(s)' = RowsOf(s) /\ (s \in lost' <=> s \in lost)
         /\ \/ RowsOf(r)' = RowsOf(r) \cup {Entry(r, decision, change)} /\ lost' = lost
            \/ RowsOf(r)' = RowsOf(r) /\ r \in lost'
         /\ Entry(r, decision, change).actor = req[r].caller
         /\ Entry(r, decision, change).change = change
BY DEF RowsOf, Entry

\* A decision is the one row of its request that tells of no change.
LEMMA DecisionsAreOne ==
  ASSUME GatewayTypeOK, AccountsInv, NEW r \in Req, req' = req, UNCHANGED made,
         NEW decision, SafeRecord(r, Entry(r, decision, FALSE)),
         NEW l \in {"allowed", "denied", "failed"}, Goto(r, l),
         \/ pc[r] = "allow" /\ l = "allowed"
         \/ pc[r] \in {"deny", "error"} /\ l # "allowed"
  PROVE  AccountsInv'
<1> DEFINE e == Entry(r, decision, FALSE)
<1>1. /\ pc'[r] = l /\ \A s \in Req \ {r} : pc'[s] = pc[s]
  BY DEF GatewayTypeOK, RequestsOK, Goto
<1>2. /\ \A s \in Req \ {r} : RowsOf(s)' = RowsOf(s) /\ (s \in lost' <=> s \in lost)
      /\ \/ RowsOf(r)' = RowsOf(r) \cup {e} /\ lost' = lost
         \/ RowsOf(r)' = RowsOf(r) /\ r \in lost'
      /\ e.actor = req[r].caller /\ e.change = FALSE
  BY WrittenOrLost DEF SafeRecord
<1>3. AccountOf(r) /\ \A f \in RowsOf(r) : f.change
  BY DEF AccountsInv, AccountOf, Unwritten
<1> HIDE DEF e
<1>4. ASSUME RowsOf(r)' = RowsOf(r), r \in lost' PROVE AccountOf(r)'
  BY <1>1, <1>3, <1>4 DEF AccountOf, Unwritten
<1>5. ASSUME RowsOf(r)' = RowsOf(r) \cup {e}, lost' = lost PROVE AccountOf(r)'
  <2>1. {f \in RowsOf(r)' : ~f.change} = {e} BY <1>2, <1>3, <1>5
  <2>2. Cardinality({f \in RowsOf(r)' : ~f.change}) = 1 BY <2>1, FS_Singleton
  <2>3. \A f \in RowsOf(r)' : f.actor = req[r].caller /\ (f.change => r \in made)
    BY <1>2, <1>3, <1>5 DEF AccountOf
  <2>4. ASSUME l = "allowed", r \notin lost
        PROVE  \A c \in BOOLEAN :
                 (\E f \in RowsOf(r)' : f.change = c) <=> ~c \/ req[r].op.audited
    <3>1. req[r].op.audited <=> RowsOf(r) # {} BY <1>3, <2>4 DEF AccountOf
    <3> QED BY <1>2, <1>3, <1>5, <3>1
  <2> QED BY <1>1, <1>3, <1>5, <2>2, <2>3, <2>4 DEF AccountOf, Unwritten
<1>6. AccountOf(r)' BY <1>2, <1>4, <1>5
<1> QED BY <1>1, <1>2, <1>6, AccountsApart

\* What a request that is cut off did and wrote stays told.
LEMMA CutOff ==
  ASSUME GatewayTypeOK, AccountsInv, NEW r \in Req, pc[r] # "idle", Goto(r, "crashed"),
         UNCHANGED <<req, trail, made, lost>>
  PROVE  AccountsInv'
<1>1. /\ pc'[r] = "crashed" /\ \A s \in Req \ {r} : pc'[s] = pc[s]
  BY DEF GatewayTypeOK, RequestsOK, Goto
<1>2. \A s \in Req : RowsOf(s)' = RowsOf(s) BY DEF RowsOf
<1>3. AccountOf(r) BY DEF AccountsInv
<1>4. AccountOf(r)' BY <1>1, <1>2, <1>3 DEF AccountOf, Unwritten
<1> QED BY <1>1, <1>2, <1>4, AccountsApart

\* A change is told before the request is answered, or its row is lost.
LEMMA ChangesAreTold ==
  ASSUME GatewayTypeOK, AccountsInv, NEW r \in Req, AuditChange(r)
  PROVE  AccountsInv'
<1> DEFINE e == Entry(r, "ALLOW", TRUE)
<1>1. PICK l \in {"allow", "error"} : Goto(r, l) BY DEF AuditChange
<1>2. /\ pc[r] = "record" /\ UNCHANGED <<req, made>>
      /\ pc'[r] = l /\ \A s \in Req \ {r} : pc'[s] = pc[s]
  BY <1>1 DEF AuditChange, GatewayTypeOK, RequestsOK, Goto
<1>3. /\ \A s \in Req \ {r} : RowsOf(s)' = RowsOf(s) /\ (s \in lost' <=> s \in lost)
      /\ \/ RowsOf(r)' = RowsOf(r) \cup {e} /\ lost' = lost
         \/ RowsOf(r)' = RowsOf(r) /\ r \in lost'
      /\ e.actor = req[r].caller /\ e.change = TRUE
  <2>1. \/ trail' = trail \cup {Entry(r, "ALLOW", TRUE)} /\ lost' = lost
        \/ trail' = trail /\ lost' = lost \cup {r}
    BY DEF AuditChange, SafeRecord
  <2> QED BY <2>1, WrittenOrLost
<1>4. /\ AccountOf(r) /\ r \in made /\ req[r].op.audited /\ RowsOf(r) = {}
  BY <1>2 DEF AccountsInv, AccountOf
<1> HIDE DEF e
<1>5. RowsOf(r)' = {e} \/ (RowsOf(r)' = {} /\ r \in lost') BY <1>3, <1>4
<1>6. AccountOf(r)' BY <1>1, <1>2, <1>3, <1>4, <1>5 DEF AccountOf, Unwritten, Answered
<1> QED BY <1>2, <1>3, <1>6, AccountsApart

\* Every step keeps each request's account.
LEMMA AccountsStep == GatewayTypeOK /\ AccountsInv /\ [Next]_vars => AccountsInv'
<1> SUFFICES ASSUME GatewayTypeOK, AccountsInv, [Next]_vars PROVE AccountsInv' OBVIOUS
<1> USE DEF tables, history
<1>a. ASSUME NEW r \in Req, pc[r] # "idle"
      PROVE  /\ req[r] \in Request /\ req[r].permitted \in BOOLEAN /\ req[r].op \in Auditable
             /\ req = [req EXCEPT ![r] = req[r]]
             /\ pc[r] = "work" => req[r].caller # NoAgent
  <2>1. req[r] \in Request /\ req = [req EXCEPT ![r] = req[r]]
    BY <1>a DEF GatewayTypeOK, RequestsOK
  <2>2. req[r].op \in Auditable BY <1>a DEF AccountsInv, AccountOf
  <2>3. pc[r] = "work" => req[r].caller # NoAgent
    BY GatewayAssumption DEF GatewayTypeOK, RequestsOK
  <2> QED BY <2>1, <2>2, <2>3 DEF Request
<1>b. ASSUME NEW r \in Req, pc[r] \in Unwritten \ {"idle"}, UNCHANGED <<req, trail, made, lost>>,
             NEW l, Goto(r, l), l \in (Unwritten \ {"idle", "upsert"}) \cup {"allow", "error"},
             l = "allow" => ~req[r].op.audited
      PROVE  AccountsInv'
  BY <1>a, <1>b, NothingYet
<1>1. ASSUME NEW r \in Req, NEW op \in Offered[r], NEW caller \in Agent \cup {NoAgent},
             NEW permitted \in BOOLEAN, Receive(r, op, caller, permitted)
      PROVE  AccountsInv'
  <2> DEFINE q == [op |-> op, caller |-> caller, permitted |-> permitted, max |-> NoCap,
                   count |-> 0, day |-> 0, admitted |-> FALSE, target |-> NoAgent, named |-> {},
                   caps |-> [k \in Kind |-> NoCap]]
  <2>1. op \in Auditable /\ op \in Operation
    BY GatewayAssumption, TablesAreAuditable, TablesHoldOperations
  <2>2. PICK l \in {"anonymous", "connect", "deny", "work", "limit", "silent"} : Goto(r, l)
    BY <1>1, <2>1, StepsOfPermission DEF Receive
  <2>3. req' = [req EXCEPT ![r] = q] /\ q.op \in Auditable
    BY <1>1, <2>1 DEF Receive
  <2>4. pc[r] \in Unwritten /\ UNCHANGED <<trail, made, lost>>
    BY <1>1 DEF Receive, Unwritten
  <2> HIDE DEF q
  <2>5. /\ l \in (Unwritten \ {"idle"}) \cup {"allow", "error", "crashed"}
        /\ l # "allow" /\ l # "upsert"
    BY <2>2 DEF Unwritten
  <2> QED BY <2>2, <2>3, <2>4, <2>5, NothingYet
<1>2. ASSUME NEW r \in Req, Anonymous(r) PROVE AccountsInv'
  BY <1>2, <1>b DEF Anonymous, Unwritten
<1>3. ASSUME NEW r \in Req, Connect(r) PROVE AccountsInv'
  <2>1. AfterPermission(req[r].op, req[r].permitted) \in {"deny", "work", "limit"}
    BY DEF AfterPermission
  <2> QED BY <1>3, <1>b, <2>1 DEF Connect, Unwritten
<1>4. ASSUME NEW r \in Req, EnforceRateLimit(r) PROVE AccountsInv'
  BY <1>4, <1>b DEF EnforceRateLimit, Unwritten
<1>5. ASSUME NEW r \in Req, GetQuota(r) PROVE AccountsInv'
  <2> DEFINE q == [req[r] EXCEPT !.max = quota[req[r].caller][req[r].op.kind]]
  <2>1. pc[r] = "quota" /\ Goto(r, "date") /\ UNCHANGED <<trail, made, lost>>
    BY <1>5 DEF GetQuota
  <2>2. req[r] \in Request /\ req[r].op \in Auditable BY <1>a, <2>1
  <2>3. q.op \in Auditable BY <2>2 DEF Request
  <2>4. req' = [req EXCEPT ![r] = q] BY <1>5 DEF GetQuota
  <2> HIDE DEF q
  <2>5. PICK l : l = "date" /\ Goto(r, l) BY <2>1
  <2>6. pc[r] \in Unwritten /\ l \in Unwritten \ {"idle"} /\ l \notin {"allow", "upsert"}
    BY <2>1, <2>5 DEF Unwritten
  <2> QED BY <2>1, <2>3, <2>4, <2>5, <2>6, NothingYet
<1>6. ASSUME NEW r \in Req, RecordUsage(r) PROVE AccountsInv'
  <2> DEFINE n == usage[req[r].caller][req[r].day][req[r].op.kind] + 1
             q == [req[r] EXCEPT !.count = n, !.admitted = ~OverQuota(req[r].max, n)]
  <2>1. /\ pc[r] = "count" /\ UNCHANGED <<trail, made, lost>>
        /\ \E l \in {"error", "work"} : Goto(r, l)
    BY <1>6 DEF RecordUsage
  <2>2. req[r] \in Request /\ req[r].op \in Auditable BY <1>a, <2>1
  <2>3. q.op \in Auditable BY <2>2 DEF Request
  <2>4. req' = [req EXCEPT ![r] = q] BY <1>6 DEF RecordUsage
  <2> HIDE DEF q
  <2> QED BY <2>1, <2>3, <2>4, NothingYet DEF Unwritten
<1>6a. ASSUME NEW r \in Req, TodayDate(r) PROVE AccountsInv'
  <2> DEFINE q == [req[r] EXCEPT !.day = day]
  <2>1. pc[r] = "date" /\ Goto(r, "count") /\ UNCHANGED <<trail, made, lost>>
    BY <1>6a DEF TodayDate
  <2>2. req[r] \in Request /\ req[r].op \in Auditable BY <1>a, <2>1
  <2>3. q.op \in Auditable BY <2>2 DEF Request
  <2>4. req' = [req EXCEPT ![r] = q] BY <1>6a DEF TodayDate
  <2> HIDE DEF q
  <2>5. PICK l : l = "count" /\ Goto(r, l) BY <2>1
  <2>6. pc[r] \in Unwritten /\ l \in Unwritten \ {"idle"} /\ l \notin {"allow", "upsert"}
    BY <2>1, <2>5 DEF Unwritten
  <2> QED BY <2>1, <2>3, <2>4, <2>5, <2>6, NothingYet
<1>7. ASSUME NEW r \in Req, Work(r) PROVE AccountsInv'
  <2>1. pc[r] = "work" /\ UNCHANGED <<req, trail, lost>> BY <1>7 DEF Work
  <2>2. CASE UNCHANGED made /\ (\E l \in {"deny", "error"} : Goto(r, l))
    BY <1>b, <2>1, <2>2 DEF Unwritten
  <2>3. CASE req[r].op.effect = "none" /\ Goto(r, "allow") /\ UNCHANGED made
    BY <1>a, <1>b, <2>1, <2>3 DEF Unwritten, Auditable
  <2>4. CASE /\ req[r].permitted /\ Done(r)
             /\ \E l \in {AfterChange(req[r].op), "error"} : Goto(r, l)
    BY <1>a, <2>1, <2>4, DoneByWhoMay
  <2> QED BY <1>7, <2>2, <2>3, <2>4 DEF Work
<1>8. ASSUME NEW r \in Req, SetQuota(r) PROVE AccountsInv'
  <2>1. /\ pc[r] = "upsert" /\ UNCHANGED <<req, trail, lost>>
        /\ Goto(r, AfterChange(req[r].op)) /\ Done(r)
    BY <1>8 DEF SetQuota
  <2>2. req[r].permitted /\ req[r].caller # NoAgent BY <2>1 DEF AccountsInv, AccountOf
  <2> QED BY <2>1, <2>2, DoneByWhoMay
<1>9. ASSUME NEW r \in Req, NEW a \in Agent, NEW given \in Bodies, ReadCaps(r, a, given)
      PROVE  AccountsInv'
  <2> DEFINE q == [req[r] EXCEPT !.target = a, !.named = DOMAIN given,
                                 !.caps = Resolved(given, quota[a])]
  <2>1. /\ pc[r] = "work" /\ req[r].permitted /\ Goto(r, "upsert")
        /\ UNCHANGED <<trail, made, lost>>
    BY <1>9 DEF ReadCaps
  <2>2. req[r] \in Request /\ req[r].op \in Auditable /\ req[r].caller # NoAgent BY <1>a, <2>1
  <2>3. q.op \in Auditable /\ q.permitted /\ q.caller # NoAgent BY <2>1, <2>2 DEF Request
  <2>4. req' = [req EXCEPT ![r] = q] BY <1>9 DEF ReadCaps
  <2> HIDE DEF q
  <2>5. PICK l : l = "upsert" /\ Goto(r, l) BY <2>1
  <2>6. pc[r] \in Unwritten /\ l \in Unwritten \ {"idle"} /\ l # "allow"
    BY <2>1, <2>5 DEF Unwritten
  <2> QED BY <2>1, <2>3, <2>4, <2>5, <2>6, NothingYet
<1>10. ASSUME NEW r \in Req, AuditChange(r) PROVE AccountsInv'
  BY <1>10, ChangesAreTold
<1>11. ASSUME NEW r \in Req, AuditAllow(r) PROVE AccountsInv'
  BY <1>11, DecisionsAreOne DEF AuditAllow
<1>12. ASSUME NEW r \in Req, AuditDeny(r) PROVE AccountsInv'
  BY <1>12, DecisionsAreOne DEF AuditDeny
<1>13. ASSUME NEW r \in Req, AuditError(r) PROVE AccountsInv'
  BY <1>13, DecisionsAreOne DEF AuditError
<1>14. ASSUME NEW r \in Req, Fail(r) PROVE AccountsInv'
  <2>1. /\ pc[r] \in Unwritten \ {"idle"} /\ UNCHANGED <<req, trail, made, lost>>
        /\ \E l \in {"silent", "error"} : Goto(r, l)
    BY <1>14 DEF Fail, Unwritten
  <2> QED BY <1>b, <2>1 DEF Unwritten
<1>15. ASSUME NEW r \in Req, Crash(r) PROVE AccountsInv'
  BY <1>15, CutOff DEF Crash, Working
<1>16. CASE NextDay \/ UNCHANGED vars
  <2>1. UNCHANGED <<pc, req, trail, made, lost>> BY <1>16 DEF NextDay, vars, requestVars
  <2>2. \A s \in Req : RowsOf(s)' = RowsOf(s) BY <2>1 DEF RowsOf
  <2> QED BY <2>1, <2>2 DEF AccountsInv, AccountOf
<1> QED BY <1>1, <1>2, <1>3, <1>4, <1>5, <1>6, <1>6a, <1>7, <1>8, <1>9, <1>10, <1>11, <1>12, <1>13,
           <1>14, <1>15, <1>16 DEF Next

\* Unless a row was lost or the isolate died, every answer that is not silent has
\* one decision under the name of its caller, and what was done is told under that
\* name too, however many requests, failures and changes of quota interleave.
THEOREM AllAccountedFor == Spec => []Accountable
<1>1. Init => AccountsInv
  <2> SUFFICES ASSUME Init, NEW r \in Req PROVE AccountOf(r) BY DEF AccountsInv
  <2>1. pc[r] = "idle" /\ RowsOf(r) = {} /\ r \notin made BY DEF Init, RowsOf
  <2> QED BY <2>1 DEF AccountOf, Unwritten, Answered
<1>2. GatewayTypeOK /\ AccountsInv => Accountable
  <2> SUFFICES ASSUME GatewayTypeOK, AccountsInv PROVE Accountable OBVIOUS
  <2> DEFINE rows(r) == {e \in trail : e.req = r}
  <2>1. ASSUME NEW r \in Req
        PROVE  /\ \A e \in rows(r) : e.actor = req[r].caller /\ (e.change => r \in made)
               /\ r \in made => req[r].permitted /\ req[r].caller # NoAgent
               /\ pc[r] \in Answered \ {"silent", "crashed"} /\ r \notin lost =>
                    /\ Cardinality({e \in rows(r) : ~e.change}) = 1
                    /\ pc[r] = "allowed" =>
                         {e.change : e \in rows(r)}
                           = {FALSE} \cup (IF req[r].op.audited THEN {TRUE} ELSE {})
               /\ pc[r] = "silent" => r \notin made /\ rows(r) = {}
    <3>1. AccountOf(r) /\ RowsOf(r) = rows(r) BY DEF AccountsInv, RowsOf
    <3> HIDE DEF rows
    <3>2. ASSUME pc[r] = "allowed", r \notin lost
          PROVE  {e.change : e \in rows(r)}
                   = {FALSE} \cup (IF req[r].op.audited THEN {TRUE} ELSE {})
      <4>1. \A c \in BOOLEAN : (\E e \in rows(r) : e.change = c) <=> ~c \/ req[r].op.audited
        BY <3>1, <3>2 DEF AccountOf, Answered
      <4>2. \A e \in rows(r) : e.change \in BOOLEAN
        BY DEF rows, GatewayTypeOK, TablesOK, TrailRow
      <4> QED BY <4>1, <4>2
    <3> QED BY <3>1, <3>2 DEF AccountOf, Unwritten
  <2> QED BY <2>1 DEF Accountable
<1> QED BY <1>1, <1>2, TypeInit, TypeStep, AccountsStep, PTL DEF Spec

=============================================================================
