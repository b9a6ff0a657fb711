----------------------------- MODULE Principals -----------------------------
(***************************************************************************)
(* Who may call Athenaeum: the tables `agents` and `agent_roles`, the      *)
(* admin requests that create, change and delete principals, and the       *)
(* records that refer to one (audit rows, feedback, proposals).            *)
(*                                                                         *)
(* Every request runs the pipeline: its credential is resolved to a row,   *)
(* the row to permissions, the handler runs with those, and an audit row   *)
(* is written.  Each of these is an await of its own, so that principals   *)
(* change between any two of them.                                         *)
(*                                                                         *)
(* A principal's id stands for its agent_key too: neither is used twice.   *)
(***************************************************************************)
EXTENDS Permissions

CONSTANTS
  Agent,           \* ids and keys of principals
  Identity,        \* Xfeatures Account identities, clients and users alike
  Role,
  RolePermissions, \* the keys each role carries
  Initially,       \* the rows of `agents` to begin with (NoRow: none)
  InitialRoles,    \* their roles
  InitialRecords,  \* and those of them a record names
  AdminAgents,     \* the permission keys admin.agents and feedback.submit
  FeedbackSubmit,
  Req,             \* requests; each is used once
  Orders,          \* what the requests of this instance ask for
  Credentials,     \* and what their callers present
  NoRow, NoIdentity, NoAgent

Status == {"active", "disabled", "revoked"}
Mode   == {"account", "rpc", "access"}

AgentRow == [status : Status, mode : Mode, link : Identity \cup {NoIdentity},
             deleted : BOOLEAN]

\* A caller presents an Account token, issued to a client and perhaps about a
\* user (only the user counts if the client is Developer Access), or a key of a
\* principal: with an RPC secret, or in an Access assertion.
Token == [kind : {"token"}, subject : Identity \cup {NoIdentity},
          client : Identity \cup {NoIdentity}]
Credential == Token \cup [kind : {"rpc", "jwt"}, key : Agent]

\* What a request asks for.  `roles` are those still to be given or taken.
Creation   == [op : {"create"}, target : Agent, roles : SUBSET Role,
               link : Identity \cup {NoIdentity}]
RoleChange == [op : {"assign", "unassign"}, target : Agent, roles : SUBSET Role]
Order == Creation \cup RoleChange \cup [op : {"delete"}, target : Agent]
           \cup [op : {"status"}, target : Agent, status : Status]
           \cup [op : {"file"}]

Working == {"resolve", "permit", "handle", "insert", "assign", "set", "unassign",
            "count", "purge", "tombstone", "file", "audit"}

ASSUME PrincipalsAssumption ==
  /\ RolePermissions \in [Role -> SUBSET (Key \ {<<Blank>>})]
  /\ Initially \in [Agent -> AgentRow \cup {NoRow}]
  /\ InitialRoles \in [Agent -> SUBSET Role]
  /\ InitialRecords \subseteq {a \in Agent : Initially[a] # NoRow}
  /\ Orders \subseteq Order /\ Credentials \subseteq Credential
  /\ AdminAgents \in Key /\ FeedbackSubmit \in Key
  /\ NoRow \notin AgentRow /\ NoIdentity \notin Identity /\ NoAgent \notin Agent

\* The table starts as migration 0002 leaves it: what links there are are
\* UNIQUE; nothing has been deleted yet.
ASSUME InitialTableAssumption ==
  /\ \A a \in Agent : Initially[a] # NoRow => ~Initially[a].deleted
  /\ \A a, b \in Agent : Initially[a] # NoRow /\ Initially[b] # NoRow /\
       Initially[a].link = Initially[b].link => a = b \/ Initially[a].link = NoIdentity

VARIABLES
  agents,   \* table agents
  holds,    \* table agent_roles: the roles of each principal
  records,  \* principals some row without a cascade refers to
  issued,   \* ids that have been given out
  pc,       \* where each request is
  order,    \* what it was asked for
  actor,    \* the principal it acts as
  granted   \* the permissions it acts with

tables == <<agents, holds, records, issued>>
request == <<order, actor, granted>>
vars == <<tables, pc, request>>

-----------------------------------------------------------------------------
Exists(a) == agents[a] # NoRow
Live(a)   == Exists(a) /\ ~agents[a].deleted
Active(a) == Live(a) /\ agents[a].status = "active"

PermissionsOf(rs) == UNION {RolePermissions[x] : x \in rs}

\* resolvePermissions: only an active principal has any.
resolvePermissions(a) == IF Active(a) THEN PermissionsOf(holds[a]) ELSE {}

LinkedTo(i) == {a \in Agent : Live(a) /\ agents[a].mode = "account" /\ agents[a].link = i}

Goto(r, l) == pc' = [pc EXCEPT ![r] = l]

Init ==
  /\ agents = Initially
  /\ holds = [a \in Agent |-> IF Exists(a) THEN InitialRoles[a] ELSE {}]
  /\ issued = {a \in Agent : Exists(a)}
  /\ records = InitialRecords
  /\ pc = [r \in Req |-> "idle"]
  /\ order = [r \in Req |-> <<>>]
  /\ actor = [r \in Req |-> NoAgent] /\ granted = [r \in Req |-> {}]

-----------------------------------------------------------------------------
(* Authentication.  Where it fails nothing changes: the request is answered  *)
(* and its audit row names no principal.                                     *)

\* The row a credential names.  A token is matched with the identity a row is
\* linked to; an RPC secret with an active row of that mode; an Access
\* assertion names its key and is not looked up here.
NamedBy(c) ==
  CASE c.kind = "token" -> IF LinkedTo(c.subject) # {} THEN LinkedTo(c.subject)
                           ELSE LinkedTo(c.client)
    [] c.kind = "rpc"   -> {a \in {c.key} : Active(a) /\ agents[a].mode = "rpc"}
    [] c.kind = "jwt"   -> {c.key}

Arrive(r, o, c) ==
  /\ pc[r] = "idle"
  /\ \E a \in NamedBy(c) : actor' = [actor EXCEPT ![r] = a]
  /\ order' = [order EXCEPT ![r] = o]
  /\ Goto(r, "resolve")
  /\ UNCHANGED <<tables, granted>>

\* resolvePrincipalForAgentKey: the row is read again, by its key ...
Resolve(r) ==
  /\ pc[r] = "resolve"
  /\ Goto(r, IF Active(actor[r]) THEN "permit" ELSE "done")
  /\ UNCHANGED <<tables, request>>

\* ... and then its permissions, which are what the request acts with until it
\* ends.  Not to hold the operation's own ends the request with an audit row.
Required(o) == IF o.op = "file" THEN FeedbackSubmit ELSE AdminAgents

Permit(r) ==
  /\ pc[r] = "permit"
  /\ LET p == resolvePermissions(actor[r]) IN
     /\ granted' = [granted EXCEPT ![r] = p]
     /\ Goto(r, IF hasPermission(p, Required(order[r])) THEN "handle" ELSE "audit")
  /\ UNCHANGED <<tables, order, actor>>

-----------------------------------------------------------------------------
(* The handlers, up to their last read before the first change.              *)

\* assertCanGrantRole: the caller holds all the roles carry.
MutCanGrant(r, rs) == TRUE
CanGrant(r, rs) == \A p \in PermissionsOf(rs) : hasPermission(granted[r], p)

\* What a handler finds before it goes on; if not, the request is refused.
Granting(r)  == CanGrant(r, order[r].roles)
Possible(r) ==
  LET o == order[r]
  IN CASE o.op = "create" -> /\ ~Live(o.target) /\ Granting(r)
                             /\ LinkedTo(o.link) = {}
       [] o.op = "assign" -> Live(o.target) /\ Granting(r)
       [] o.op = "delete" -> /\ Live(o.target) /\ o.target # actor[r]
                             /\ agents[o.target].status = "revoked"
       [] o.op \in {"status", "unassign"} -> Live(o.target)
       [] o.op = "file" -> TRUE

FirstChange == [create |-> "insert", assign |-> "assign", unassign |-> "unassign",
                status |-> "set", delete |-> "count", file |-> "file"]

Handle(r) ==
  /\ pc[r] = "handle"
  /\ Goto(r, IF Possible(r) THEN FirstChange[order[r].op] ELSE "audit")
  /\ UNCHANGED <<tables, request>>

-----------------------------------------------------------------------------
(* Their changes.                                                            *)

\* AgentsRepository.create, refused by the UNIQUE on the key and on the Account
\* columns.
MutLinkIsFree(i) == TRUE
LinkIsFree(i)    == i = NoIdentity \/ \A a \in Agent : Exists(a) => agents[a].link # i

NewRow(i, m) == [status |-> "active", mode |-> m, link |-> i, deleted |-> FALSE]

Insert(r) ==
  /\ pc[r] = "insert"
  /\ LET a == order[r].target
         i == order[r].link
     IN \/ /\ a \in issued \/ ~LinkIsFree(i)
           /\ Goto(r, "audit") /\ UNCHANGED <<agents, issued>>
        \/ /\ a \notin issued /\ LinkIsFree(i)
           /\ \E m \in Mode : /\ m = "account" <=> i # NoIdentity
                             /\ agents' = [agents EXCEPT ![a] = NewRow(i, m)]
           /\ issued' = issued \cup {a}
           /\ Goto(r, IF order[r].roles = {} THEN "audit" ELSE "assign")
  /\ UNCHANGED <<holds, records, request>>

\* assignRole, once for each role: ignored if it is there, refused by the
\* foreign key if there is no such principal any more.
MutAssignable(a) == TRUE
Assignable(a)    == Exists(a)

Assign(r) ==
  /\ pc[r] = "assign"
  /\ LET a == order[r].target IN
     \/ /\ ~Assignable(a)
        /\ Goto(r, "audit") /\ UNCHANGED <<holds, order>>
     \/ /\ Assignable(a)
        /\ \E x \in order[r].roles :
             /\ holds' = [holds EXCEPT ![a] = @ \cup {x}]
             /\ order' = [order EXCEPT ![r].roles = @ \ {x}]
             /\ Goto(r, IF order[r].roles = {x} THEN "audit" ELSE "assign")
  /\ UNCHANGED <<agents, records, issued, actor, granted>>

Unassign(r) ==
  /\ pc[r] = "unassign"
  /\ holds' = [holds EXCEPT ![order[r].target] = @ \ order[r].roles]
  /\ Goto(r, "audit")
  /\ UNCHANGED <<agents, records, issued, request>>

\* setStatus: WHERE deleted_at IS NULL.
MutSettable(a) == Exists(a)
Settable(a)    == Live(a)

SetStatus(r) ==
  /\ pc[r] = "set"
  /\ LET a == order[r].target IN
     agents' = IF Settable(a) THEN [agents EXCEPT ![a].status = order[r].status]
               ELSE agents
  /\ Goto(r, "audit")
  /\ UNCHANGED <<holds, records, issued, request>>

\* handleDeleteAgent: what is counted decides between a DELETE and a tombstone.
Count(r) ==
  /\ pc[r] = "count"
  /\ Goto(r, IF order[r].target \in records THEN "tombstone" ELSE "purge")
  /\ UNCHANGED <<tables, request>>

\* Both statements repeat the check of the status.
MutRemovable(a) == Live(a)
Removable(a) == Live(a) /\ agents[a].status = "revoked"

\* The foreign keys of the records refuse the DELETE of a principal they name.
MutUnreferenced(a) == TRUE
Unreferenced(a) == a \notin records

Purge(r) ==
  /\ pc[r] = "purge"
  /\ LET a == order[r].target IN
     IF Removable(a) /\ Unreferenced(a)
     THEN agents' = [agents EXCEPT ![a] = NoRow] /\ holds' = [holds EXCEPT ![a] = {}]
     ELSE UNCHANGED <<agents, holds>>
  /\ Goto(r, "audit")
  /\ UNCHANGED <<records, issued, request>>

Tombstone(w) == [w EXCEPT !.deleted = TRUE, !.mode = "access", !.link = NoIdentity]

SoftDelete(r) ==
  /\ pc[r] = "tombstone"
  /\ LET a == order[r].target IN
     agents' = IF Removable(a) THEN [agents EXCEPT ![a] = Tombstone(@)] ELSE agents
  /\ Goto(r, "audit")
  /\ UNCHANGED <<holds, records, issued, request>>

\* Feedback, or a proposal: a row that refers to its author.
File(r) ==
  /\ pc[r] = "file"
  /\ records' = IF Exists(actor[r]) THEN records \cup {actor[r]} ELSE records
  /\ Goto(r, "audit")
  /\ UNCHANGED <<agents, holds, issued, request>>

\* The audit rows of a request, after which it is answered.  Writing them for a
\* principal that has been purged meanwhile fails, and that is swallowed.
Audit(r) ==
  /\ pc[r] = "audit"
  /\ records' = IF Exists(actor[r]) THEN records \cup {actor[r]} ELSE records
  /\ Goto(r, "done")
  /\ UNCHANGED <<agents, holds, issued, request>>

\* A call that throws, an isolate evicted: the request leaves what it has done.
Crash(r) ==
  /\ pc[r] \in Working /\ Goto(r, "crashed")
  /\ UNCHANGED <<tables, request>>

-----------------------------------------------------------------------------
RequestStep(r) ==
  \/ Resolve(r) \/ Permit(r) \/ Handle(r)
  \/ Insert(r) \/ Assign(r) \/ Unassign(r) \/ SetStatus(r)
  \/ Count(r) \/ Purge(r) \/ SoftDelete(r) \/ File(r) \/ Audit(r)

Next ==
  \E r \in Req :
    \/ \E o \in Orders, c \in Credentials : Arrive(r, o, c)
    \/ RequestStep(r) \/ Crash(r)

Spec == Init /\ [][Next]_vars

-----------------------------------------------------------------------------
(* Properties.                                                              *)

\* Every table and request holds values of its kind; a request past
\* authentication acts as somebody; a role is held by a principal that exists,
\* whose id was given out.
PrincipalsTypeOK ==
  /\ agents \in [Agent -> AgentRow \cup {NoRow}]
  /\ holds \in [Agent -> SUBSET Role]
  /\ records \subseteq Agent /\ issued \subseteq Agent
  /\ pc \in [Req -> {"idle", "done", "crashed"} \cup Working]
  /\ order \in [Req -> Order \cup {<<>>}]
  /\ actor \in [Req -> Agent \cup {NoAgent}]
  /\ granted \in [Req -> SUBSET Key]
  /\ \A a \in Agent : (holds[a] # {} => Exists(a)) /\ (Exists(a) => a \in issued)
  /\ \A r \in Req : pc[r] # "idle" => order[r] \in Order /\ actor[r] \in Agent

\* Whoever a record names is still there to be named, as a row or as its
\* headstone, though the records of a principal are counted one step before it
\* is deleted (migration 0007: "still there for the audit events that name it").
RecordsKeepTheirPrincipal == \A a \in records : Exists(a)

\* An Account identity resolves to at most one principal however many
\* administrators link it at once, and only live ones are linked: the identity
\* of a deleted principal is free for a new one (softDelete).
OneAgentPerIdentity ==
  \A a, b \in Agent : Exists(a) /\ Exists(b) /\ agents[a].link = agents[b].link =>
    a = b \/ agents[a].link = NoIdentity

\* A deleted principal stays deleted: nothing to authenticate with is left, and
\* no change of status that was under way brings it back (setStatus, its guard).
DeletedIsDeleted ==
  \A a \in Agent : Exists(a) /\ agents[a].deleted =>
    agents[a].status = "revoked" /\ agents[a].link = NoIdentity

\* Deletion never takes a working principal, not even one that was made active
\* again after the handler had looked (purge and softDelete, their guards).
OnlyRevokedIsRemoved ==
  [][\A a \in Agent : Live(a) /\ ~Live(a)' => agents[a].status = "revoked"]_vars

\* Privilege containment: whatever administrators hand out, and to whom, nobody
\* comes to hold a permission that nobody held to begin with, though each acts
\* on permissions it read before the change (assertCanGrantRole).
HeldInitially ==
  PermissionsOf(UNION {InitialRoles[a] : a \in {b \in Agent : Initially[b] # NoRow}})

NobodyGainsWhatNobodyHad ==
  \A a \in Agent : \A p \in PermissionsOf(holds[a]) : hasPermission(HeldInitially, p)
=============================================================================
