----------------------------- MODULE MCIngestion -----------------------------
(* An instance of Ingestion for TLC.                                         *)
EXTENDS Ingestion, TLC

MCOperations == [r \in Req |-> {"trash", "reindex"}]
MCSlugOf == [d \in Doc |-> "guide"]
==============================================================================
