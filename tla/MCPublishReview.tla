-------------------------- MODULE MCPublishReview --------------------------
(* Instances of PublishReview for TLC.                                     *)
EXTENDS PublishReview

CONSTANTS d1, r1

\* One request transitions or trashes, the other transitions or restores.
MCOperations == [r \in Req |-> IF r = r1 THEN {"transition", "trash"}
                               ELSE {"transition", "restore"}]
MCSlugOf == [d \in Doc |-> "guide"]
=============================================================================
