------------------------------- MODULE Gateway -------------------------------
(***************************************************************************)
(* What every request passes through, whatever its transport (REST and RPC *)
(* through auth/pipeline.ts, MCP through mcp/server.ts): who is calling,   *)
(* the permission, the rate limiter, the daily quota, the work, and what   *)
(* the audit trail is told.  Beside them, an administrator changes quotas. *)
(*                                                                         *)
(* What the credential and the permission check decide (TokenCache,        *)
(* Principals, Access) is chosen when the request arrives; the limiters    *)
(* belong to the platform and may refuse any call.  The work itself is in  *)
(* the other modules: here it is done, refused, or fails on either side of *)
(* its change.                                                             *)
(***************************************************************************)
EXTENDS Routes, Naturals, FiniteSets

CONSTANTS
  Req,        \* requests; each is used once, so |Req| bounds a behaviour
  Agent,      \* principals
  Offered,    \* the operations a request of this instance chooses from
  CapValues,  \* the caps there may be
  Quotas,     \* the quotas agents may have at first, and
  Bodies,     \* the caps a change may name, of some or all kinds
  MaxDay,     \* the last day of a behaviour
  MaxFaults,  \* how many calls may fail, and rows of the trail be lost
  NoAgent, NoCap, NoRequest

Cap == CapValues \cup {NoCap}

\* What a request holds.  `max` is the cap it has read, `day` the date it counts
\* under, `count` what its increment returned, and `admitted` what came of it; `caps` the
\* quota it is about to write for `target`, of which its body named `named`.
Request == [op : Operation, caller : Agent \cup {NoAgent}, permitted : BOOLEAN,
            max : Cap, count : Nat, day : 0..MaxDay, admitted : BOOLEAN,
            target : Agent \cup {NoAgent}, named : SUBSET Kind, caps : [Kind -> Cap]]

ASSUME GatewayAssumption ==
  /\ Offered \in [Req -> SUBSET AllOperations]
  /\ CapValues \subseteq Nat /\ NoCap \notin Nat
  /\ Quotas \subseteq [Kind -> Cap]
  /\ Bodies \subseteq UNION {[K -> Cap] : K \in SUBSET Kind}
  /\ MaxDay \in Nat \ {0} /\ MaxFaults \in Nat
  /\ NoAgent \notin Agent /\ NoRequest \notin Request

\* `silent` is answered without a row of the trail.
Working  == {"anonymous", "connect", "limit", "quota", "date", "count", "work", "upsert",
             "record", "allow", "deny", "error"}
Answered == {"allowed", "denied", "failed", "silent", "crashed"}

VARIABLES
  pc, req,
  quota,   \* table agent_quotas; no row and a row of nulls are the same
  usage,   \* table agent_usage_daily
  day,     \* the current UTC day
  trail,   \* table audit_events, the rows of these requests
  made,    \* history: requests whose work changed something
  lost,    \* history: requests that lost a row of the trail
  wanted,  \* history: the cap last named for each kind in a change that was made
  raced,   \* history: two changes of one agent's quota overlapped
  faults

requestVars == <<pc, req>>
tables      == <<quota, usage, trail>>
history     == <<made, lost, wanted, raced>>
vars == <<requestVars, tables, day, history, faults>>

-----------------------------------------------------------------------------
Goto(r, l) == pc' = [pc EXCEPT ![r] = l]

\* A call that throws: after the caller is known, the catch of the pipeline (or
\* of auditedToolCall) takes over.
Throws == faults < MaxFaults /\ faults' = faults + 1

Init ==
  /\ pc = [r \in Req |-> "idle"] /\ req = [r \in Req |-> NoRequest]
  /\ quota \in [Agent -> Quotas] /\ wanted = quota
  /\ usage = [a \in Agent |-> [d \in 1..MaxDay |-> [k \in Kind |-> 0]]]
  /\ day = 1 /\ trail = {} /\ made = {} /\ lost = {} /\ raced = FALSE /\ faults = 0

-----------------------------------------------------------------------------
(* Who is calling, and may they.                                            *)

\* A permission that is missing refuses an enforced operation before anything
\* is spent; a deferred one finds out at work.
AfterPermission(op, permitted) ==
  CASE op.gate = "enforce" /\ ~permitted -> "deny"
    [] op.scope = "none" -> "work"
    [] OTHER -> "limit"

AfterAuthentication(op, caller, permitted) ==
  CASE caller = NoAgent -> "anonymous"
    [] caller # NoAgent /\ op.via = "mcp" -> "connect"
    [] OTHER -> AfterPermission(op, permitted)

Receive(r, op, caller, permitted) ==
  /\ pc[r] = "idle" /\ (permitted => caller # NoAgent)
  /\ req' = [req EXCEPT ![r] = [op |-> op, caller |-> caller, permitted |-> permitted,
                                max |-> NoCap, count |-> 0, day |-> 0, admitted |-> FALSE,
                                target |-> NoAgent, named |-> {},
                                caps |-> [k \in Kind |-> NoCap]]]
  /\ \/ Goto(r, AfterAuthentication(op, caller, permitted)) /\ UNCHANGED faults
     \/ op.early /\ Goto(r, "silent") /\ UNCHANGED faults  \* a malformed query string
     \/ Throws /\ Goto(r, "silent")                      \* a lookup of the credential throws
  /\ UNCHANGED <<tables, day, history>>

\* A denial without an identity is recorded while the client's budget lasts; RPC
\* names no client, and has none.
Anonymous(r) ==
  /\ pc[r] = "anonymous"
  /\ \/ Goto(r, "deny")
     \/ req[r].op.via # "rpc" /\ Goto(r, "silent")
  /\ UNCHANGED <<req, tables, day, history, faults>>

\* MCP protocol traffic spends a read; out of reads, it is answered and no row
\* is written.
Connect(r) ==
  /\ pc[r] = "connect"
  /\ \/ Goto(r, AfterPermission(req[r].op, req[r].permitted))
     \/ Goto(r, "silent")
  /\ UNCHANGED <<req, tables, day, history, faults>>

-----------------------------------------------------------------------------
(* What it may spend.                                                       *)

MutEnforceRateLimit(r) ==
  /\ pc[r] = "limit" /\ (Goto(r, "quota") \/ Goto(r, "error"))
  /\ UNCHANGED <<req, tables, day, history, faults>>

EnforceRateLimit(r) ==
  /\ pc[r] = "limit"
  /\ \/ Goto(r, IF req[r].op.kind = "none" THEN "work" ELSE "quota")
     \/ Goto(r, "error")                                  \* RATE_LIMITED
  /\ UNCHANGED <<req, tables, day, history, faults>>

GetQuota(r) ==
  /\ pc[r] = "quota"
  /\ req' = [req EXCEPT ![r].max = quota[req[r].caller][req[r].op.kind]]
  /\ Goto(r, "date")
  /\ UNCHANGED <<tables, day, history, faults>>

\* todayDate: read in the worker, so midnight may come before the increment.
TodayDate(r) ==
  /\ pc[r] = "date"
  /\ req' = [req EXCEPT ![r].day = day]
  /\ Goto(r, "count")
  /\ UNCHANGED <<tables, day, history, faults>>

MutOverQuota(max, count) == max # NoCap /\ count > max + 1
OverQuota(max, count)    == max # NoCap /\ count > max

\* recordUsage: one INSERT ... ON CONFLICT ... RETURNING, then the comparison.
RecordUsage(r) ==
  /\ pc[r] = "count"
  /\ LET a == req[r].caller
         k == req[r].op.kind
         d == req[r].day
         n == usage[a][d][k] + 1
     IN /\ usage' = [usage EXCEPT ![a][d][k] = n]
        /\ req' = [req EXCEPT ![r].count = n, ![r].admitted = ~OverQuota(req[r].max, n)]
        /\ Goto(r, IF OverQuota(req[r].max, n) THEN "error" ELSE "work")
  /\ UNCHANGED <<quota, trail, day, history, faults>>

-----------------------------------------------------------------------------
(* The work.                                                                *)

\* After its change a handler tells the trail about it, where it does.
MutAfterChange(op) == IF op.audited /\ op.gate = "enforce" THEN "record" ELSE "allow"
AfterChange(op)    == IF op.audited THEN "record" ELSE "allow"

Done(r) == made' = made \cup {r}

\* A refusal by the work is FORBIDDEN, or NOT_FOUND, which says less; so may the
\* refusal of what it was asked to do, to a caller that is permitted.
Work(r) ==
  /\ pc[r] = "work"
  /\ \/ /\ req[r].permitted /\ req[r].op.effect = "none"
        /\ Goto(r, "allow") /\ UNCHANGED <<made, faults>>
     \/ /\ req[r].permitted /\ req[r].op.effect = "change"
        /\ Goto(r, AfterChange(req[r].op)) /\ Done(r) /\ UNCHANGED faults
     \/ /\ req[r].permitted /\ req[r].op.effect = "change" \* a later call of it throws
        /\ Throws /\ Goto(r, "error") /\ Done(r)
     \/ /\ Goto(r, "deny") /\ UNCHANGED <<made, faults>>
     \/ /\ Goto(r, "error") /\ UNCHANGED <<made, faults>>
  /\ UNCHANGED <<req, tables, day, lost, wanted, raced>>

\* handleSetAgentQuota: what the body names, and for the rest what the row says.
MutResolved(given, current) == [k \in Kind |-> IF k \in DOMAIN given THEN given[k] ELSE NoCap]
Resolved(given, current) == [k \in Kind |-> IF k \in DOMAIN given THEN given[k] ELSE current[k]]

Changing(a) == {r \in Req : pc[r] = "upsert" /\ req[r].target = a}

ReadCaps(r, a, given) ==
  /\ pc[r] = "work" /\ req[r].permitted /\ req[r].op.effect = "quota"
  /\ req' = [req EXCEPT ![r].target = a, ![r].named = DOMAIN given,
                        ![r].caps = Resolved(given, quota[a])]
  /\ raced' = (raced \/ Changing(a) # {})
  /\ Goto(r, "upsert")
  /\ UNCHANGED <<tables, day, made, lost, wanted, faults>>

SetQuota(r) ==
  /\ pc[r] = "upsert"
  /\ LET q == req[r] IN
     /\ quota' = [quota EXCEPT ![q.target] = q.caps]
     /\ wanted' = [wanted EXCEPT ![q.target] =
                     [k \in Kind |-> IF k \in q.named THEN q.caps[k] ELSE @[k]]]
     /\ Goto(r, AfterChange(q.op)) /\ Done(r)
  /\ UNCHANGED <<req, usage, trail, day, lost, raced, faults>>

-----------------------------------------------------------------------------
(* What the trail is told.  A row that cannot be written is dropped: it     *)
(* never takes down the request it describes.                               *)

Entry(r, decision, change) ==
  [req |-> r, actor |-> req[r].caller, decision |-> decision, change |-> change]

SafeRecord(r, entry) ==
  \/ trail' = trail \cup {entry} /\ UNCHANGED <<lost, faults>>
  \/ Throws /\ lost' = lost \cup {r} /\ UNCHANGED trail

AuditChange(r) ==
  /\ pc[r] = "record"
  /\ \/ SafeRecord(r, Entry(r, "ALLOW", TRUE)) /\ Goto(r, "allow")
     \/ /\ trail' = trail \cup {Entry(r, "ALLOW", TRUE)}   \* what follows it throws
        /\ Throws /\ Goto(r, "error") /\ UNCHANGED lost
  /\ UNCHANGED <<req, quota, usage, day, made, wanted, raced>>

AuditAllow(r) ==
  /\ pc[r] = "allow"
  /\ SafeRecord(r, Entry(r, "ALLOW", FALSE))
  /\ Goto(r, "allowed")
  /\ UNCHANGED <<req, quota, usage, day, made, wanted, raced>>

AuditDeny(r) ==
  /\ pc[r] = "deny"
  /\ SafeRecord(r, Entry(r, "DENY", FALSE))
  /\ Goto(r, "denied")
  /\ UNCHANGED <<req, quota, usage, day, made, wanted, raced>>

AuditError(r) ==
  /\ pc[r] = "error"
  /\ SafeRecord(r, Entry(r, "N/A", FALSE))
  /\ Goto(r, "failed")
  /\ UNCHANGED <<req, quota, usage, day, made, wanted, raced>>

-----------------------------------------------------------------------------
\* A call outside the work throws: a limiter, a statement of the quota.  Before
\* the caller is known to the pipeline, or to a tool of MCP, nobody records it.
Fail(r) ==
  /\ pc[r] \in {"anonymous", "connect", "limit", "quota", "count", "upsert"}
  /\ Throws /\ Goto(r, IF pc[r] \in {"anonymous", "connect"} THEN "silent" ELSE "error")
  /\ UNCHANGED <<req, tables, day, history>>

\* The isolate is gone, with whatever the request had not done yet.
Crash(r) ==
  /\ pc[r] \in Working /\ Throws /\ Goto(r, "crashed")
  /\ UNCHANGED <<req, tables, day, history>>

NextDay ==
  /\ day < MaxDay /\ day' = day + 1
  /\ UNCHANGED <<requestVars, tables, history, faults>>

Next ==
  \/ \E r \in Req :
       \/ \E op \in Offered[r], caller \in Agent \cup {NoAgent}, permitted \in BOOLEAN :
            Receive(r, op, caller, permitted)
       \/ Anonymous(r) \/ Connect(r) \/ EnforceRateLimit(r)
       \/ GetQuota(r) \/ TodayDate(r) \/ RecordUsage(r)
       \/ Work(r) \/ SetQuota(r)
       \/ \E a \in Agent, given \in Bodies : ReadCaps(r, a, given)
       \/ AuditChange(r) \/ AuditAllow(r) \/ AuditDeny(r) \/ AuditError(r)
       \/ Fail(r) \/ Crash(r)
  \/ NextDay

Spec == Init /\ [][Next]_vars

-----------------------------------------------------------------------------
(* Properties.                                                              *)

\* What a step of a request needs to know is there.
RequestsOK ==
  /\ pc \in [Req -> {"idle"} \cup Working \cup Answered]
  /\ req \in [Req -> Request \cup {NoRequest}]
  /\ \A r \in Req :
       /\ pc[r] = "idle" <=> req[r] = NoRequest
       /\ pc[r] \in {"connect", "limit", "quota", "date", "count", "work"} =>
            req[r].caller \in Agent
       /\ pc[r] \in {"quota", "date", "count"} => req[r].op.kind \in Kind
       /\ pc[r] = "count" => req[r].day \in 1..MaxDay
       /\ pc[r] = "upsert" => req[r].target \in Agent

TrailRow == [req : Req, actor : Agent \cup {NoAgent}, decision : {"ALLOW", "DENY", "N/A"},
             change : BOOLEAN]

TablesOK ==
  /\ quota \in [Agent -> [Kind -> Cap]] /\ wanted \in [Agent -> [Kind -> Cap]]
  /\ usage \in [Agent -> [1..MaxDay -> [Kind -> Nat]]] /\ day \in 1..MaxDay
  /\ trail \subseteq TrailRow
  /\ made \subseteq Req /\ lost \subseteq Req /\ raced \in BOOLEAN /\ faults \in 0..MaxFaults

\* Tables, requests and histories hold values of their kind.
GatewayTypeOK == RequestsOK /\ TablesOK

\* The requests of one agent, kind and day that were let through under a cap of
\* at most n.
LetThrough(a, k, d, n) ==
  {r \in Req : /\ req[r] # NoRequest /\ req[r].admitted
               /\ req[r].caller = a /\ req[r].op.kind = k /\ req[r].day = d
               /\ req[r].max # NoCap /\ req[r].max <= n}

\* However many requests race for the last unit, and whatever was set between
\* two of their statements, no more than n of an agent's day go through under a
\* cap of n (quota.repository.ts: two concurrent calls "cannot both read a stale
\* count and both believe they were first").
QuotaHolds ==
  \A a \in Agent, k \in Kind, d \in 1..MaxDay, n \in CapValues :
    Cardinality(LetThrough(a, k, d, n)) <= n

\* Nothing is changed that the trail does not tell of, and it tells of no change
\* that was not made: unless a row was lost or the isolate died, an answer that
\* is not silent has one decision with the caller's name, and what was done by a
\* request is under that name, even when the request then failed (pipeline.ts:
\* "every outcome is recorded with the same shape regardless of transport").
Accountable ==
  \A r \in Req :
    LET rows == {e \in trail : e.req = r} IN
    /\ \A e \in rows : e.actor = req[r].caller /\ (e.change => r \in made)
    /\ r \in made => req[r].permitted /\ req[r].caller # NoAgent
    /\ pc[r] \in Answered \ {"silent", "crashed"} /\ r \notin lost =>
         /\ Cardinality({e \in rows : ~e.change}) = 1
         /\ pc[r] = "allowed" =>
              {e.change : e \in rows} = {FALSE} \cup (IF req[r].op.audited THEN {TRUE} ELSE {})
    /\ pc[r] = "silent" => r \notin made /\ rows = {}

\* A change of a quota that names some caps leaves the others as they were last
\* asked for, unless two changes of one agent's quota overlapped
\* (admin/agents.ts, "an omitted field leaves that dimension exactly as it
\* already was").
CapsAreKept == raced \/ quota = wanted
=============================================================================
