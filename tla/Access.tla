-------------------------------- MODULE Access --------------------------------
(***************************************************************************)
(* What a principal may read (auth/authorize.ts), and the scope derived    *)
(* from its permissions before a query runs.  A domain or a namespace may  *)
(* contain dots, so its name is a sequence of segments, as a key is.       *)
(***************************************************************************)
EXTENDS Permissions

Tier == {"PUBLIC", "INTERNAL", "CONFIDENTIAL", "RESTRICTED"}

FactsRead     == <<"facts", "read">>
DocumentsRead == <<"documents", "read">>
TierKey(t)    == <<"knowledge", "classification", t>>

ASSUME AccessAssumption ==
  /\ Tier \cup {"facts", "documents", "read", "knowledge", "classification"} \subseteq Segment
  /\ Blank \notin {"facts", "documents", "read"}

\* Domains and namespaces: no name is the empty string.
Name == Seq(Segment) \ {<<>>, <<Blank>>}

\* authorize: the space's permission and the tier's permission, both.
authorize(perms, prefix, space, tier) ==
  /\ hasPermission(perms, prefix \o space)
  /\ hasPermission(perms, TierKey(tier))

permittedClassifications(perms) == {t \in Tier : hasPermission(perms, TierKey(t))}

Granted(perms, prefix) ==
  {SubSeq(g, 3, Len(g)) : g \in {h \in perms : Len(h) > 2 /\ SubSeq(h, 1, 2) = prefix}}

\* `all` for the holder of the prefix's wildcard, else the names granted, each
\* read literally from the permission that grants it.
Scope(perms, prefix) ==
  [all |-> (prefix \o <<Star>>) \in perms, names |-> Granted(perms, prefix) \ {<<Blank>>}]

documentDomainScope(perms) == Scope(perms, DocumentsRead)
factNamespaceScope(perms)  == Scope(perms, FactsRead)

InScope(scope, space) == scope.all \/ space \in scope.names
EmptyScope(scope)     == ~scope.all /\ scope.names = {}

\* Every wildcard below a read prefix is the prefix's own: `facts.read.a.*`
\* would grant `facts.read.a.b` by key and yet be listed as the namespace "a.*".
\* The permissions the migrations seed are all of this shape.
NoDeeperWildcard(perms, prefix) ==
  \A g \in perms : Len(g) > 3 /\ SubSeq(g, 1, 2) = prefix => g[Len(g)] # Star
=============================================================================
