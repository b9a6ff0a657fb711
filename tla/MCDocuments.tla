---------------------------- MODULE MCDocuments ----------------------------
(* Instances of Documents for TLC: d4 and d5 compete for one slug, requests  *)
(* are interchangeable.                                                      *)
EXTENDS Documents, TLC

CONSTANTS d1, d2, d3, d4, d5, Chosen

MCSlugOf == (d1 :> "guide" @@ d2 :> "notice" @@ d3 :> "faq"
              @@ d4 :> "tariff" @@ d5 :> "tariff")
MCOperations == [r \in Req |-> Chosen]
MCSymmetry == Permutations(Req)
=============================================================================
