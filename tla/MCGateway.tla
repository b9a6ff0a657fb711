------------------------------ MODULE MCGateway ------------------------------
(* Operations that differ in what they pass through: with and without a     *)
(* quota, enforced or deferred, over REST and MCP, changing a quota or not.  *)
(* Any two requests share an operation, so that they race in it; only writes *)
(* are capped at first, and changes may lift that cap and cap searches.      *)
EXTENDS Gateway, TLC

CONSTANTS r1, r2, r3

OfferedMC ==
  (r1 :> {TransitionRoute.transitionDocumentStatus, McpSearches["search"]})
  @@ (r2 :> {TransitionRoute.transitionDocumentStatus, QuotaRoute.setAgentQuota})
  @@ (r3 :> {QuotaRoute.setAgentQuota, AuditRoute.listAuditEvents})

Caps(searches, writes) == [searches |-> searches, writes |-> writes, uploads |-> NoCap]
QuotasMC == {Caps(NoCap, 1)}
BodiesMC == {[writes |-> NoCap], [searches |-> 1]}
==============================================================================
