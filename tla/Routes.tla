------------------------------- MODULE Routes --------------------------------
(***************************************************************************)
(* What each operation passes through before and after its work, on each   *)
(* of the three transports: a record of shapes for each file of handlers,  *)
(* or part of one, a field for each handler, method or tool.               *)
(*                                                                         *)
(*   via      which transport; MCP spends a read before the tool is called *)
(*   early    the query string is parsed before the caller is known        *)
(*   gate     "enforce": the pipeline checks the permission before the     *)
(*            handler; "deferred": the work itself checks it               *)
(*   scope    the rate limiter it spends from                              *)
(*   kind     the daily quota it spends from                               *)
(*   effect   what the work changes: nothing, something, or a quota        *)
(*   audited  the handler records the change, besides the decision         *)
(***************************************************************************)
Kind == {"searches", "writes", "uploads"}

Operation ==
  [via : {"rest", "rpc", "mcp"}, early : BOOLEAN, gate : {"enforce", "deferred"},
   scope : {"none", "search", "read", "admin"}, kind : Kind \cup {"none"},
   effect : {"none", "change", "quota"}, audited : BOOLEAN]

Shape(via, early, gate, scope, kind, effect, audited) ==
  [via |-> via, early |-> early, gate |-> gate, scope |-> scope, kind |-> kind,
   effect |-> effect, audited |-> audited]

Looks(via, gate, scope, kind) == Shape(via, FALSE, gate, scope, kind, "none", FALSE)

\* Made outside the console, and recorded only as a decision.
Changes(via, gate, scope, kind) == Shape(via, FALSE, gate, scope, kind, "change", FALSE)

\* The shapes of REST: a read, a list that parses its query first, a change made
\* in the console.
Read(gate, scope)  == Looks("rest", gate, scope, "none")
List(gate, scope)  == Shape("rest", TRUE, gate, scope, "none", "none", FALSE)
Change(gate, kind) == Shape("rest", FALSE, gate, "admin", kind, "change", TRUE)
SetsQuota          == Shape("rest", FALSE, "enforce", "admin", "none", "quota", TRUE)

-----------------------------------------------------------------------------
(* REST, for any client.                                                    *)

SearchRoute   == [search |-> Looks("rest", "enforce", "search", "searches")]
FactRoutes    == [getFact |-> Read("deferred", "read"), listFacts |-> List("deferred", "read"),
                  listFactNamespaces |-> Read("deferred", "read")]
DocumentRoute == [getDocument |-> Read("deferred", "read")]
CatalogRoutes == [getProduct |-> Read("enforce", "read"), getPlan |-> Read("enforce", "read")]
PolicyRoute   == [getPolicy |-> Read("deferred", "read")]
FeedbackRoute == [submitFeedback |-> Changes("rest", "enforce", "read", "none")]
HealthRoute   == [dependencyHealth |-> Read("enforce", "none")]

(* REST, for the console.                                                   *)

FactChangeRoutes ==
  [createFact |-> Change("enforce", "writes"), updateFact |-> Change("enforce", "writes"),
   deprecateFact |-> Change("enforce", "writes")]
FactRollbackRoute == [rollbackFact |-> Change("enforce", "writes")]
FactListRoutes ==
  [listFactsForAdmin |-> List("enforce", "admin"), listFactVersions |-> Read("enforce", "read")]
FactTrashRoutes ==
  [trashFact |-> Change("enforce", "writes"), restoreFact |-> Change("enforce", "writes"),
   listFactTrash |-> List("enforce", "admin")]

\* A rejection spends no quota.
ProposalRoutes ==
  [listFactProposals |-> List("enforce", "admin"),
   approveFactProposal |-> Change("enforce", "writes"),
   rejectFactProposal |-> Change("enforce", "none")]

UploadRoutes ==
  [createDocumentDraft |-> Change("enforce", "uploads"),
   createDocumentVersion |-> Change("enforce", "uploads")]

\* What a transition needs depends on the status its body asks for.
TransitionRoute == [transitionDocumentStatus |-> Change("deferred", "writes")]
ReviewRoutes ==
  [submitForReview |-> Change("enforce", "writes"), reviewDecision |-> Change("enforce", "writes"),
   rollbackDocument |-> Change("enforce", "writes")]
DocumentTrashRoutes ==
  [trashDocument |-> Change("enforce", "writes"), restoreDocument |-> Change("enforce", "writes")]
DocumentListRoutes ==
  [listTrash |-> List("enforce", "read"), listDocuments |-> List("enforce", "read"),
   listDocumentVersions |-> Read("enforce", "read"),
   getDocumentForAdmin |-> Read("enforce", "read")]

AgentCreateRoute == [createAgent |-> Change("enforce", "none")]
AgentListRoute   == [listAgents |-> List("enforce", "admin")]
AgentDetailRoute == [getAgent |-> Read("enforce", "admin")]
AgentStatusRoute == [setAgentStatus |-> Change("enforce", "none")]
QuotaRoute       == [setAgentQuota |-> SetsQuota]
AgentRoleRoutes  == [assignAgentRole |-> Change("enforce", "none"),
                     unassignAgentRole |-> Change("enforce", "none")]
AgentDeleteRoute == [deleteAgent |-> Change("enforce", "none")]

RolesRoute      == [listRoles |-> Read("enforce", "read")]
IngestionRoutes == [listIngestionJobs |-> List("enforce", "admin"),
                    reindexDocument |-> Change("enforce", "writes"),
                    reindexAll |-> Change("enforce", "writes")]
AuditRoute      == [listAuditEvents |-> List("enforce", "admin")]

(* RPC and MCP.                                                             *)

RpcSearch   == [searchKnowledge |-> Looks("rpc", "enforce", "search", "searches")]
RpcReads    == [m \in {"getFact", "getFacts", "getDocument"} |->
                  Looks("rpc", "deferred", "read", "none")]
RpcCatalog  == [m \in {"getProduct", "getPlan"} |-> Looks("rpc", "enforce", "read", "none")]
RpcLookups  == [m \in {"getService", "getNode", "getPolicy", "getIncident", "getKnownIssue"} |->
                  Looks("rpc", "deferred", "read", "none")]
RpcFeedback == [submitFeedback |-> Changes("rpc", "enforce", "read", "none")]

McpSearches ==
  [t \in {"search", "search_facts"} |-> Looks("mcp", "deferred", "search", "searches")]
McpReads ==
  [t \in {"list_fact_namespaces", "list_facts", "get_fact", "get_document", "get_product",
          "get_plan", "get_policy", "get_incident"} |-> Looks("mcp", "deferred", "read", "none")]
McpProposals ==
  [propose_document |-> Changes("mcp", "deferred", "admin", "uploads"),
   propose_fact |-> Changes("mcp", "deferred", "admin", "writes"),
   submit_document_for_review |-> Changes("mcp", "deferred", "admin", "writes")]

Tables ==
  {SearchRoute, FactRoutes, DocumentRoute, CatalogRoutes, PolicyRoute, FeedbackRoute, HealthRoute,
   FactChangeRoutes, FactRollbackRoute, FactListRoutes, FactTrashRoutes, ProposalRoutes,
   UploadRoutes,
   TransitionRoute, ReviewRoutes, DocumentTrashRoutes, DocumentListRoutes, AgentCreateRoute,
   AgentListRoute, AgentDetailRoute, AgentStatusRoute, QuotaRoute, AgentRoleRoutes,
   AgentDeleteRoute, RolesRoute, IngestionRoutes, AuditRoute, RpcSearch, RpcReads, RpcCatalog,
   RpcLookups, RpcFeedback, McpSearches, McpReads, McpProposals}

AllOperations == UNION {{table[h] : h \in DOMAIN table} : table \in Tables}
=============================================================================
