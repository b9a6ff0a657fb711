----------------------------- MODULE MCListings -----------------------------
(* Three facts of two namespaces, one of them with a dot in its name, and   *)
(* the kinds of principal there may be.                                   *)
EXTENDS Listings, TLC

MCStar    == "*"
MCBlank   == ""
MCSegment == {"*", "", "admin", "facts", "documents", "read", "knowledge", "classification",
              "plans", "incidents", "open"} \cup Tier

MCNamespaceOf == (1 :> <<"incidents", "open">>) @@ (2 :> <<"plans">>) @@ (3 :> <<"plans">>)

\* An administrator of everything, of one tier, of one namespace, of a shallow
\* wildcard that grants nothing, without a tier, and a plain reader.
MCPrincipal == 1..7
MCPermissionsOf ==
  LET Wide    == <<"facts", "read", "*">>
      Plans   == <<"facts", "read", "plans">>
      Open    == <<"facts", "read", "incidents", "open">>
      AnyTier == <<"knowledge", "classification", "*">>
  IN << {AdminFacts, Wide, AnyTier},
        {AdminFacts, Wide, TierKey("PUBLIC")},
        {AdminFacts, Plans, TierKey("PUBLIC"), TierKey("RESTRICTED")},
        {AdminFacts, Open, TierKey("RESTRICTED")},
        {AdminFacts, <<"facts", "*">>, Plans, AnyTier},
        {AdminFacts, Wide},
        {Plans, Open, TierKey("PUBLIC")} >>
=============================================================================
