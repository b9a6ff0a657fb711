------------------------------ MODULE MCSearch ------------------------------
(* An instance of Search for TLC: one document, and callers who may read it *)
(* by name, by wildcard or not at all.                                      *)
EXTENDS Search, TLC

CONSTANT Chosen

MCOperations == [r \in Req |-> Chosen]
MCSlugOf   == [d \in Doc |-> "guide"]
MCTierOf   == [d \in Doc |-> "INTERNAL"]
MCDomainOf == [d \in Doc |-> <<"support">>]
MCNarrowing == {<<"support">>}

MCStar    == "*"
MCBlank   == ""
MCSegment == {"*", "", "admin", "search", "facts", "documents", "read", "knowledge",
              "classification", "support"} \cup {"PUBLIC", "INTERNAL", "CONFIDENTIAL", "RESTRICTED"}

MCPrincipal == 1..3
MCPermissionsOf ==
  LET Search == <<"knowledge", "search">>
      Tier   == <<"knowledge", "classification", "INTERNAL">>
  IN << {Search, <<"admin", "documents">>, <<"documents", "read", "*">>, Tier},
        {<<"documents", "read", "support">>, Tier},
        {Search, <<"documents", "read", "support">>, <<"knowledge", "classification", "PUBLIC">>} >>
=============================================================================
