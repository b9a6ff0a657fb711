---------------------------- MODULE MCTokenCache ----------------------------
(* Instances of TokenCache for TLC: one token of which Account gives no     *)
(* expiry, one that expires within the horizon, three that do not.    *)
EXTENDS TokenCache, TLC

CONSTANTS t0, t1, t2, t3, t4

MCExp      == [t \in Token |-> CASE t = t0 -> 0 [] t = t1 -> 2 [] OTHER -> 9]
MCSymmetry == Permutations(Call)
=============================================================================
