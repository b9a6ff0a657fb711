----------------------------- MODULE Permissions -----------------------------
(***************************************************************************)
(* Permission keys and what holding one means (auth/permissions.ts).  A    *)
(* key is the sequence of its dot-separated segments; Blank is the empty   *)
(* segment, so that <<Blank>> is the empty string.                         *)
(***************************************************************************)
EXTENDS Naturals, Sequences, FiniteSets

CONSTANTS Segment, Star, Blank

ASSUME SegmentsAssumption == {Star, Blank} \subseteq Segment /\ Star # Blank

Key == Seq(Segment) \ {<<>>}

MIN_WILDCARD_SEGMENTS == 2

Concrete(g) == {i \in 1..Len(g) - 1 : g[i] # Blank}

\* "a.b.*": at least two segments before the star.
IsWildcard(g) == /\ Len(g) > 1 /\ g[Len(g)] = Star
                 /\ Cardinality(Concrete(g)) >= MIN_WILDCARD_SEGMENTS

\* What follows the wildcard's prefix in the required key is not empty.
Extends(r, g) == /\ Len(r) >= Len(g)
                 /\ \A i \in 1..Len(g) - 1 : r[i] = g[i]
                 /\ Len(r) = Len(g) => r[Len(g)] # Blank

permissionSatisfies(granted, required) ==
  /\ granted # <<Blank>> /\ required # <<Blank>>
  /\ granted = required \/ (IsWildcard(granted) /\ Extends(required, granted))

hasPermission(grantedSet, required) ==
  \E granted \in grantedSet : permissionSatisfies(granted, required)
=============================================================================
