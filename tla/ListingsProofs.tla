---------------------------- MODULE ListingsProofs ----------------------------
(***************************************************************************)
(* What the reads of facts keep true, for any facts, namespaces,           *)
(* principals, page sizes and number of writes.                            *)
(***************************************************************************)
EXTENDS Listings, TLAPS, FiniteSetTheorems, SequenceTheorems

(* Scopes.                                                                  *)

LEMMA PrefixesAreConcrete ==
  ASSUME NEW prefix \in {FactsRead, DocumentsRead}
  PROVE  /\ prefix \in Seq(Segment) /\ Len(prefix) = 2
         /\ prefix[1] # Blank /\ prefix[2] # Blank
<1>1. {"facts", "documents", "read"} \subseteq Segment
      /\ Blank \notin {"facts", "documents", "read"} BY AccessAssumption
<1>2. CASE prefix = <<"facts", "read">> BY <1>1, <1>2
<1>3. CASE prefix = <<"documents", "read">> BY <1>1, <1>3
<1> QED BY <1>2, <1>3 DEF FactsRead, DocumentsRead

LEMMA WildcardsAreDeep ==
  ASSUME NEW g \in Key, IsWildcard(g)
  PROVE  Len(g) >= 3
<1>1. PICK n \in Nat : n = Len(g) /\ n > 1 BY DEF Key, IsWildcard
<1>2. ASSUME n = 2 PROVE FALSE
  <2>1. Concrete(g) \subseteq {1} BY <1>1, <1>2 DEF Concrete
  <2>2. Cardinality({1}) = 1 /\ IsFiniteSet({1}) BY FS_Singleton
  <2>3. Cardinality(Concrete(g)) <= 1 BY <2>1, <2>2, FS_Subset
  <2>4. Cardinality(Concrete(g)) >= 2 BY DEF IsWildcard, MIN_WILDCARD_SEGMENTS
  <2>5. Cardinality(Concrete(g)) \in Nat BY <2>1, <2>2, FS_Subset, FS_CardinalityType
  <2> QED BY <2>3, <2>4, <2>5
<1>3. n >= 3 BY <1>1, <1>2
<1> QED BY <1>1, <1>3

LEMMA PrefixWildcard ==
  ASSUME NEW prefix \in {FactsRead, DocumentsRead}
  PROVE  LET g == prefix \o <<Star>> IN
         /\ IsWildcard(g) /\ g # <<Blank>> /\ Len(g) = 3 /\ g[3] = Star
         /\ g[1] = prefix[1] /\ g[2] = prefix[2]
<1> DEFINE g == prefix \o <<Star>>
<1>1. /\ prefix \in Seq(Segment) /\ Len(prefix) = 2
      /\ prefix[1] # Blank /\ prefix[2] # Blank BY PrefixesAreConcrete
<1>2. Star \in Segment BY SegmentsAssumption
<1>3. Len(g) = 3 /\ g[1] = prefix[1] /\ g[2] = prefix[2] /\ g[3] = Star
  <2> DEFINE last == <<Star>>
  <2>1. last \in Seq(Segment) /\ Len(last) = 1 /\ last[1] = Star BY <1>2
  <2> HIDE DEF last
  <2>2. /\ Len(prefix \o last) = Len(prefix) + Len(last)
        /\ \A i \in 1..Len(prefix) + Len(last) : (prefix \o last)[i] =
             IF i <= Len(prefix) THEN prefix[i] ELSE last[i - Len(prefix)]
    BY <1>1, <2>1, ConcatProperties, Zenon
  <2>3. /\ Len(prefix \o last) = 3 /\ (prefix \o last)[3] = Star
        /\ (prefix \o last)[1] = prefix[1] /\ (prefix \o last)[2] = prefix[2]
    BY <1>1, <2>1, <2>2
  <2> QED BY <2>3 DEF last
<1>4. Concrete(g) = {1, 2} BY <1>1, <1>3 DEF Concrete
<1>5. Cardinality({1, 2}) = 2
  <2>1. Cardinality({1}) = 1 /\ IsFiniteSet({1}) BY FS_Singleton
  <2>2. {1, 2} = {1} \cup {2} /\ 2 \notin {1} OBVIOUS
  <2> QED BY <2>1, <2>2, FS_AddElement
<1>6. g # <<Blank>> BY <1>3
<1> HIDE DEF g
<1>7. IsWildcard(g)
  <2>1. Cardinality(Concrete(g)) = 2 BY <1>4, <1>5, Zenon
  <2>2. Cardinality(Concrete(g)) >= 2 BY <2>1
  <2> QED BY <1>3, <2>2 DEF IsWildcard, MIN_WILDCARD_SEGMENTS
<1> QED BY <1>3, <1>6, <1>7 DEF g

\* The key a read requires.
LEMMA RequiredKey ==
  ASSUME NEW prefix \in {FactsRead, DocumentsRead}, NEW space \in Name
  PROVE  LET r == prefix \o space IN
         /\ r \in Key /\ Len(r) > 2 /\ Len(r) = 2 + Len(space) /\ r # <<Blank>>
         /\ r[1] = prefix[1] /\ r[2] = prefix[2]
         /\ SubSeq(r, 1, 2) = prefix /\ SubSeq(r, 3, Len(r)) = space
         /\ Len(r) = 3 => r[3] # Blank
<1> DEFINE r == prefix \o space
<1>1. /\ prefix \in Seq(Segment) /\ Len(prefix) = 2 BY PrefixesAreConcrete
<1>2. space \in Seq(Segment) /\ space # <<>> /\ space # <<Blank>> BY DEF Name
<1>3. Len(space) \in Nat /\ Len(space) # 0 BY <1>2
<1> HIDE DEF r
<1>4. /\ r \in Seq(Segment) /\ Len(r) = 2 + Len(space)
      /\ \A i \in 1..2 + Len(space) : r[i] = IF i <= 2 THEN prefix[i] ELSE space[i - 2]
  <2>1. /\ r \in Seq(Segment) /\ Len(r) = Len(prefix) + Len(space)
        /\ \A i \in 1..Len(prefix) + Len(space) :
             r[i] = IF i <= Len(prefix) THEN prefix[i] ELSE space[i - Len(prefix)]
    BY <1>1, <1>2, ConcatProperties, Zenon DEF r
  <2> QED BY <1>1, <2>1
<1>5. r[1] = prefix[1] /\ r[2] = prefix[2] BY <1>3, <1>4
<1>6. \A i \in 1..Len(space) : r[i + 2] = space[i] BY <1>3, <1>4
<1>7. r # <<>> /\ r # <<Blank>> /\ Len(r) > 2 BY <1>3, <1>4
<1>8. SubSeq(r, 1, 2) = prefix BY <1>1, <1>3, <1>4, <1>5
<1>9. SubSeq(r, 3, Len(r)) = space
  <2>1. Len(SubSeq(r, 3, Len(r))) = Len(space) BY <1>3, <1>4
  <2>2. \A i \in 1..Len(space) : SubSeq(r, 3, Len(r))[i] = space[i] BY <1>3, <1>4, <1>6
  <2> QED BY <1>2, <1>4, <2>1, <2>2
<1>10. Len(r) = 3 => r[3] # Blank
  <2> SUFFICES ASSUME Len(r) = 3, r[3] = Blank PROVE FALSE OBVIOUS
  <2>0. PICK n \in Nat : n = Len(space) /\ Len(r) = 2 + n BY <1>3, <1>4
  <2>1. Len(space) = 1 BY <2>0
  <2>2. space[1] = Blank BY <1>6, <2>1
  <2>3. space = <<Blank>>
    <3>1. <<space[1]>> \in Seq(Segment) /\ Len(<<space[1]>>) = 1 BY <1>2, <2>1
    <3>2. <<space[1]>>[1] = space[1] OBVIOUS
    <3>3. space = <<space[1]>> BY <1>2, <2>1, <3>1, <3>2, SeqEqual
    <3> QED BY <2>2, <3>3
  <2> QED BY <1>2, <2>3
<1> QED BY <1>3, <1>4, <1>5, <1>7, <1>8, <1>9, <1>10 DEF Key, r

\* documentDomainScope and factNamespaceScope are exact: a name is in the scope
\* a query is bounded by exactly when the permission for that name is held, so a
\* query bounded by it neither returns a row that the decision for each row then
\* drops nor misses one it would allow (auth/authorize.ts, "Enumeration is only
\* sound because ...").
THEOREM ScopeIsExact ==
  ASSUME NEW perms \in SUBSET Key, NEW prefix \in {FactsRead, DocumentsRead},
         NEW space \in Name, NoDeeperWildcard(perms, prefix)
  PROVE  hasPermission(perms, prefix \o space) <=> InScope(Scope(perms, prefix), space)
<1> DEFINE r == prefix \o space
           wild == prefix \o <<Star>>
<1>1. /\ r \in Key /\ Len(r) > 2 /\ Len(r) = 2 + Len(space) /\ r # <<Blank>>
      /\ r[1] = prefix[1] /\ r[2] = prefix[2]
      /\ SubSeq(r, 1, 2) = prefix /\ SubSeq(r, 3, Len(r)) = space
      /\ Len(r) = 3 => r[3] # Blank BY RequiredKey
<1>2. /\ IsWildcard(wild) /\ wild # <<Blank>> /\ Len(wild) = 3 /\ wild[3] = Star
      /\ wild[1] = prefix[1] /\ wild[2] = prefix[2] BY PrefixWildcard
<1>3. prefix \in Seq(Segment) /\ Len(prefix) = 2 BY PrefixesAreConcrete
<1>4. space \in Seq(Segment) /\ space # <<Blank>> BY DEF Name
<1> HIDE DEF r, wild
<1>5. ASSUME wild \in perms PROVE hasPermission(perms, r)
  <2>1. Extends(r, wild)
    <3>1. Len(r) \in Nat BY <1>1 DEF Key
    <3>2. \A i \in 1..Len(wild) - 1 : r[i] = wild[i] BY <1>1, <1>2
    <3> QED BY <1>1, <1>2, <3>1, <3>2 DEF Extends
  <2> QED BY <1>1, <1>2, <1>5, <2>1 DEF hasPermission, permissionSatisfies
<1>6. ASSUME space \in Granted(perms, prefix) PROVE hasPermission(perms, r)
  <2>1. PICK g \in perms : /\ Len(g) > 2 /\ SubSeq(g, 1, 2) = prefix
                           /\ space = SubSeq(g, 3, Len(g))
    BY <1>6 DEF Granted
  <2>2. g \in Seq(Segment) /\ Len(g) \in Nat BY DEF Key
  <2>3. Len(space) = Len(g) - 2 BY <2>1, <2>2
  <2>4. \A i \in 1..Len(g) : g[i] = r[i]
    <3> SUFFICES ASSUME NEW i \in 1..Len(g) PROVE g[i] = r[i] OBVIOUS
    <3>1. CASE i \in {1, 2}
      <4>1. SubSeq(g, 1, 2)[i] = g[i]
        <5>1. \A j \in 1..2 : g[j] \in Segment BY <2>1, <2>2
        <5>2. \A j \in 1..2 - 1 + 1 : SubSeq(g, 1, 2)[j] = g[1 + j - 1]
          BY <5>1, SubSeqProperties
        <5> QED BY <3>1, <5>2
      <4> QED BY <1>1, <2>1, <3>1, <4>1
    <3>2. CASE i \notin {1, 2}
      <4>1. i - 2 \in 1..Len(space) /\ i > 2 BY <2>2, <2>3, <3>2
      <4>2. space[i - 2] = g[i]
        <5>1. \A j \in 3..Len(g) : g[j] \in Segment BY <2>2
        <5>2. \A j \in 1..Len(g) - 3 + 1 : SubSeq(g, 3, Len(g))[j] = g[3 + j - 1]
          BY <2>2, <5>1, SubSeqProperties
        <5>3. i - 2 \in 1..Len(g) - 3 + 1 /\ 3 + (i - 2) - 1 = i BY <2>2, <2>3, <4>1
        <5> QED BY <2>1, <5>2, <5>3
      <4>3. r[i] = space[i - 2]
        <5>1. \A j \in 1..Len(prefix) + Len(space) :
                 r[j] = IF j <= Len(prefix) THEN prefix[j] ELSE space[j - Len(prefix)]
          BY <1>3, <1>4, ConcatProperties DEF r
        <5> QED BY <1>3, <2>2, <2>3, <4>1, <5>1
      <4> QED BY <4>2, <4>3
    <3> QED BY <3>1, <3>2
  <2>5. Len(g) = Len(r) BY <1>1, <2>2, <2>3
  <2>6. g = r BY <1>1, <2>2, <2>4, <2>5 DEF Key
  <2> QED BY <1>1, <2>6 DEF hasPermission, permissionSatisfies
<1>7. ASSUME NEW g \in perms, permissionSatisfies(g, r)
      PROVE  wild \in perms \/ space \in Granted(perms, prefix)
  <2>0. g \in Key /\ g \in Seq(Segment) /\ Len(g) \in Nat BY DEF Key
  <2>1. CASE g = r BY <1>1, <2>1 DEF Granted
  <2>2. CASE IsWildcard(g) /\ Extends(r, g)
    <3>1. Len(g) >= 3 BY <2>0, <2>2, WildcardsAreDeep
    <3>2. g[1] = prefix[1] /\ g[2] = prefix[2]
      <4>1. 1 \in 1..Len(g) - 1 /\ 2 \in 1..Len(g) - 1 BY <2>0, <3>1
      <4> QED BY <1>1, <2>2, <4>1 DEF Extends
    <3>3. SubSeq(g, 1, 2) = prefix BY <1>3, <2>0, <3>1, <3>2
    <3>4. g[Len(g)] = Star BY <2>2 DEF IsWildcard
    <3>5. Len(g) = 3
      <4>1. ~(Len(g) > 3) BY <3>3, <3>4 DEF NoDeeperWildcard
      <4>2. PICK n \in Nat : n = Len(g) /\ n >= 3 /\ ~(n > 3) BY <2>0, <3>1, <4>1
      <4> QED BY <4>2
    <3>6. Star \in Segment BY SegmentsAssumption
    <3>7. wild \in Seq(Segment) /\ Len(wild) = 3 /\ wild[3] = Star
      <4> DEFINE last == <<Star>>
      <4>1. last \in Seq(Segment) BY <3>6
      <4> HIDE DEF last
      <4>2. prefix \o last \in Seq(Segment) BY <1>3, <4>1, ConcatProperties, Zenon
      <4> QED BY <1>2, <4>2 DEF last, wild
    <3>8. g = wild
      <4>1. \A i \in 1..Len(g) : g[i] = wild[i] BY <1>2, <3>2, <3>4, <3>5, <3>7
      <4> QED BY <2>0, <3>5, <3>7, <4>1, SeqEqual, Zenon
    <3> QED BY <3>8
  <2> QED BY <1>7, <2>1, <2>2 DEF permissionSatisfies
<1>8. hasPermission(perms, r) <=> wild \in perms \/ space \in Granted(perms, prefix)
  BY <1>5, <1>6, <1>7 DEF hasPermission
<1> QED BY <1>4, <1>8 DEF InScope, Scope, r, wild

-----------------------------------------------------------------------------
(* The listing.                                                             *)

\* A stored fact may be read exactly when the query's scope and tiers admit it.
LEMMA ReadIsScoped ==
  ASSUME ListingsTypeOK, NEW f \in Fact, Exists(f)
  PROVE  MayRead(f) <=> Scoped(f)
<1> DEFINE ns == NamespaceOf[f]
           perms == PermissionsOf[reader]
           t == facts[f].tier
<1>1. /\ reader \in Principal /\ ns \in Name /\ ns \in Namespace /\ perms \in SUBSET Key
      /\ NoDeeperWildcard(perms, FactsRead)
  BY ListingsAssumption DEF ListingsTypeOK, Namespace
<1>2. t \in Tier BY DEF ListingsTypeOK, Exists, Row
<1>3. MayRead(f) <=> authorize(perms, FactsRead, ns, t)
  BY <1>1, <1>2 DEF MayRead, MayReadAt
<1>4. Permitted(f) <=> hasPermission(perms, TierKey(t))
  BY <1>1, <1>2 DEF Permitted, TiersOf, permittedClassifications
<1>5. InScope(ScopeOf[reader], ns) <=> InScope(Scope(perms, FactsRead), ns)
  BY <1>1 DEF ScopeOf, factNamespaceScope
<1>6. hasPermission(perms, FactsRead \o ns) <=> InScope(Scope(perms, FactsRead), ns)
  BY <1>1, ScopeIsExact
<1> QED BY <1>3, <1>4, <1>5, <1>6 DEF authorize, Scoped

LEMMA TheBlindReadNothing ==
  ASSUME ListingsTypeOK, NEW f \in Fact, Blind
  PROVE  ~Scoped(f)
BY DEF Blind, Scoped, Permitted, EmptyScope, InScope

\* A rank counts from one to as many as there are.
LEMMA RanksAreNumbers ==
  ASSUME NEW S \in SUBSET Fact, NEW f \in S
  PROVE  /\ Rank(f, S) \in 1..Cardinality(S) /\ Rank(f, S) \in 1..Cardinality(Fact)
         /\ IsFiniteSet(S) /\ Cardinality(S) \in Nat
<1> DEFINE below == {g \in S : g <= f}
<1>1. IsFiniteSet(S) /\ Cardinality(S) <= Cardinality(Fact)
  BY ListingsAssumption, FS_Subset
<1>2. below \subseteq S /\ f \in below
  <2>1. f \in Nat /\ f <= f BY ListingsAssumption
  <2> QED BY <2>1
<1>3. IsFiniteSet(below) /\ Cardinality(below) <= Cardinality(S) BY <1>1, <1>2, FS_Subset
<1>4. Cardinality(below) \in Nat /\ Cardinality(S) \in Nat /\ Cardinality(Fact) \in Nat
  BY <1>1, <1>3, ListingsAssumption, FS_CardinalityType
<1>5. Cardinality(below) # 0 BY <1>2, <1>3, FS_EmptySet
<1> QED BY <1>1, <1>3, <1>4, <1>5 DEF Rank

\* No two facts have one rank.
LEMMA RanksAreDistinct ==
  ASSUME NEW S \in SUBSET Fact, NEW f \in S, NEW g \in S, Rank(f, S) = Rank(g, S)
  PROVE  f = g
<1>1. ASSUME NEW x \in S, NEW y \in S, x < y, Rank(x, S) = Rank(y, S) PROVE FALSE
  <2> DEFINE below(z) == {h \in S : h <= z}
  <2>0. /\ \A h \in S : h \in Nat
        /\ x \in Nat /\ y \in Nat
    BY ListingsAssumption
  <2>1. /\ \A h \in S : h <= x => h <= y
        /\ y <= y /\ ~(y <= x)
    BY <1>1, <2>0
  <2>2. /\ below(x) \subseteq below(y) /\ y \in below(y) /\ y \notin below(x)
    BY <2>1
  <2>3. IsFiniteSet(below(y)) BY ListingsAssumption, FS_Subset
  <2>4. Cardinality(below(x)) = Cardinality(below(y)) BY <1>1 DEF Rank
  <2> HIDE DEF below
  <2> QED BY <2>2, <2>3, <2>4, FS_Subset
<1>2. f \in Nat /\ g \in Nat
  <2>1. f \in Fact /\ g \in Fact
    OBVIOUS
  <2> QED BY <2>1, ListingsAssumption
<1>3. f < g \/ g < f \/ f = g
  BY <1>2
<1> QED BY <1>1, <1>3

\* A page is full when there is something after it.
LEMMA PagesAreFull ==
  ASSUME NEW S \in SUBSET Fact, NEW f \in S, NEW size \in Nat, NEW from \in Nat,
         from + size < Rank(f, S)
  PROVE  size <= Cardinality(Limited(S, size, from))
<1> DEFINE n == Cardinality(S)
           rank == [g \in S |-> Rank(g, S)]
           span == from + 1..from + size
           place == [i \in span |-> CHOOSE g \in S : Rank(g, S) = i]
           shown == Limited(S, size, from)
<1>1. /\ n \in Nat /\ IsFiniteSet(S) /\ \A g \in S : Rank(g, S) \in 1..n
  BY RanksAreNumbers
<1>2. rank \in Injection(S, 1..n)
  <2>1. rank \in [S -> 1..n] BY <1>1
  <2>2. \A g, h \in S : rank[g] = rank[h] => g = h BY RanksAreDistinct
  <2> HIDE DEF rank
  <2> QED BY <2>1, <2>2 DEF Injection, IsInjective
<1>3. IsFiniteSet(1..n) /\ Cardinality(1..n) = n BY <1>1, FS_Interval
<1>4. rank \in Surjection(S, 1..n) BY <1>2, <1>3, FS_Injection
<1>5. \A i \in 1..n : \E g \in S : Rank(g, S) = i BY <1>4 DEF Surjection
<1>6. span \subseteq 1..n BY <1>1
<1>7. \A i \in span : place[i] \in S /\ Rank(place[i], S) = i BY <1>5, <1>6
<1> HIDE DEF place
<1>8. \A i \in span : place[i] \in shown
  <2>1. \A i \in span : from < i /\ i <= from + size OBVIOUS
  <2> QED BY <1>7, <2>1 DEF Limited
<1>9. place \in Injection(span, shown)
  <2>1. place \in [span -> shown] BY <1>8 DEF place
  <2>2. \A i, j \in span : place[i] = place[j] => i = j BY <1>7
  <2> QED BY <2>1, <2>2 DEF Injection, IsInjective
<1>10. IsFiniteSet(shown) BY <1>1, FS_Subset DEF Limited
<1>11. Cardinality(span) = size
  <2>1. from + 1 \in Int /\ from + size \in Int OBVIOUS
  <2> QED BY <2>1, FS_Interval
<1> HIDE DEF span, shown
<1>12. Cardinality(span) <= Cardinality(shown) BY <1>9, <1>10, FS_Injection
<1> QED BY <1>11, <1>12 DEF shown

\* A page large enough shows everything.
LEMMA WholePages ==
  ASSUME NEW S \in SUBSET Fact, NEW size \in Nat, Cardinality(Fact) <= size
  PROVE  Limited(S, size, 0) = S
<1>1. Cardinality(Fact) \in Nat BY ListingsAssumption, FS_CardinalityType
<1>2. \A f \in S : Rank(f, S) \in 1..Cardinality(Fact) BY RanksAreNumbers
<1>3. \A f \in S : 0 < Rank(f, S) /\ Rank(f, S) <= 0 + size BY <1>1, <1>2
<1> QED BY <1>3 DEF Limited

-----------------------------------------------------------------------------
(* Invariants.                                                              *)

\* Rows, permissions and the walk hold values of their kind.
THEOREM TypeCorrect == Spec => []ListingsTypeOK
<1>1. Init => ListingsTypeOK
  <2> SUFFICES ASSUME Init PROVE ListingsTypeOK OBVIOUS
  <2>1. /\ page \in [from : Nat, size : Nat, at : {"idle", "walking", "done"}]
        /\ page.at = "idle"
    BY DEF Init
  <2>2. writes \in 0..MaxWrites BY ListingsAssumption DEF Init
  <2>3. facts \in [Fact -> Row \cup {NoRow}] /\ reader \in Principal BY Zenon DEF Init
  <2>4. /\ seen \subseteq Fact /\ start \subseteq Fact
        /\ {repeated, left, entered} \subseteq BOOLEAN
    BY DEF Init
  <2> QED BY <2>1, <2>2, <2>3, <2>4 DEF ListingsTypeOK
<1>2. ListingsTypeOK /\ [Next]_vars => ListingsTypeOK'
  <2> SUFFICES ASSUME ListingsTypeOK, [Next]_vars PROVE ListingsTypeOK' OBVIOUS
  <2> USE DEF ListingsTypeOK
  <2>1. ASSUME NEW size \in PageSizes, WalkStart(size) PROVE ListingsTypeOK'
    BY <2>1, ListingsAssumption DEF WalkStart, Listed
  <2>2. CASE NextPage
    <3>1. listFactsForAdmin(page.size, page.from) \subseteq Fact
      BY DEF listFactsForAdmin, Limited, Listed
    <3>2. page.size \in PageSizes /\ page.size \in Nat
      BY <2>2, ListingsAssumption DEF NextPage
    <3> QED BY <2>2, <3>1, <3>2 DEF NextPage
  <2>3. ASSUME NEW f \in Fact, NEW r \in Row \cup {NoRow}, Write(f, r)
        PROVE  ListingsTypeOK'
    <3>1. writes' \in 0..MaxWrites BY <2>3, ListingsAssumption DEF Write
    <3>2. facts' \in [Fact -> Row \cup {NoRow}] BY <2>3 DEF Write
    <3>3. left' \in BOOLEAN /\ entered' \in BOOLEAN BY <2>3, Zenon DEF Write
    <3> QED BY <2>3, <3>1, <3>2, <3>3 DEF Write, walk
  <2>4. ASSUME NEW f \in Fact,
               Create(f) \/ Update(f) \/ Trash(f) \/ Restore(f) \/ Purge(f) \/ TimePasses(f)
        PROVE  \E r \in Row \cup {NoRow} : Write(f, r)
    <3>1. Exists(f) => facts[f] \in Row BY DEF Exists
    <3>2. CASE Create(f) BY <3>2, ListingsAssumption DEF Create, Row, FactStatus
    <3>3. CASE Update(f) BY <3>1, <3>3, ListingsAssumption DEF Update, Row
    <3>4. CASE Trash(f)
      <4>1. [facts[f] EXCEPT !.before = facts[f].status, !.status = "deprecated"] \in Row
        BY <3>1, <3>4 DEF Trash, Kept, Exists, Row, FactStatus
      <4> QED BY <3>4, <4>1 DEF Trash
    <3>5. CASE Restore(f)
      <4>1. [facts[f] EXCEPT !.status = facts[f].before, !.before = "none"] \in Row
        BY <3>1, <3>5 DEF Restore, InTrash, Exists, Row, FactStatus
      <4> QED BY <3>5, <4>1 DEF Restore
    <3>6. CASE Purge(f) BY <3>6 DEF Purge
    <3>7. CASE TimePasses(f)
      <4>1. [facts[f] EXCEPT !.current = ~@] \in Row BY <3>1, <3>7 DEF TimePasses, Exists, Row
      <4> QED BY <3>7, <4>1 DEF TimePasses
    <3> QED BY <2>4, <3>2, <3>3, <3>4, <3>5, <3>6, <3>7
  <2>5. CASE UNCHANGED vars BY <2>5 DEF vars, walk
  <2> QED BY <2>1, <2>2, <2>3, <2>4, <2>5 DEF Next
<1> QED BY <1>1, <1>2, PTL DEF Spec

\* An administrator sees each fact its clearance covers in exactly one of the
\* listing and the trash (listFactsForAdmin, listTrash), whatever was written.
THEOREM ListedOnce == Spec => []EveryFactIsListedOnce
<1>1. ListingsTypeOK => EveryFactIsListedOnce
  <2> SUFFICES ASSUME ListingsTypeOK PROVE EveryFactIsListedOnce OBVIOUS
  <2> DEFINE whole == listFactsForAdmin(Cardinality(Fact), 0)
  <2>1. Cardinality(Fact) \in Nat BY ListingsAssumption, FS_CardinalityType
  <2>2. Limited(Listed, Cardinality(Fact), 0) = Listed
    <3>1. Listed \in SUBSET Fact BY DEF Listed
    <3> QED BY <2>1, <3>1, WholePages
  <2>3. \A f \in Fact : Exists(f) => (MayRead(f) <=> Scoped(f)) BY ReadIsScoped
  <2>4. \A f \in Fact : Blind => ~Scoped(f) BY TheBlindReadNothing
  <2>5. whole \subseteq {f \in Fact : Kept(f)} BY <2>2 DEF listFactsForAdmin, Listed
  <2>6. listTrash \subseteq {f \in Fact : InTrash(f)} BY DEF listTrash
  <2>7. \A f \in Fact : /\ ~(Kept(f) /\ InTrash(f))
                        /\ Exists(f) <=> Kept(f) \/ InTrash(f)
    BY DEF Kept, InTrash
  <2>8. whole \cap listTrash = {} BY <2>5, <2>6, <2>7
  <2>9. ASSUME MayListOf[reader]
        PROVE  whole \cup listTrash = {f \in Fact : Exists(f) /\ MayRead(f)}
    <3>1. CASE Blind BY <2>3, <2>4, <3>1 DEF listFactsForAdmin, listTrash
    <3>2. CASE ~Blind
      <4>1. whole = {f \in Fact : Kept(f) /\ MayRead(f)}
        BY <2>2, <2>3, <2>7, <2>9, <3>2 DEF listFactsForAdmin, Listed
      <4>2. listTrash = {f \in Fact : InTrash(f) /\ MayRead(f)}
        BY <2>3, <2>7, <2>9, <3>2 DEF listTrash
      <4> QED BY <2>7, <4>1, <4>2
    <3> QED BY <3>1, <3>2
  <2> QED BY <2>8, <2>9 DEF EveryFactIsListedOnce
<1> QED BY <1>1, TypeCorrect, PTL

\* While nothing enters or leaves the listing, what the client has seen is the
\* part of it before its offset.
SeenIsBehind ==
  /\ page.at = "idle" => seen = {}
  /\ page.at = "walking" /\ ~left /\ ~entered =>
       seen \subseteq {f \in Listed : Rank(f, Listed) <= page.from}

\* A page shows no fact an earlier page of the walk showed, unless the listing
\* changed meanwhile (facts.repository.ts, listAll: ORDER BY, LIMIT, OFFSET).
THEOREM NothingIsRepeated == Spec => []WalkRepeatsNothing
<1>1. Init => SeenIsBehind /\ WalkRepeatsNothing
  BY DEF Init, SeenIsBehind, WalkRepeatsNothing
<1>2. ListingsTypeOK /\ SeenIsBehind /\ WalkRepeatsNothing /\ [Next]_vars
        => SeenIsBehind' /\ WalkRepeatsNothing'
  <2> SUFFICES ASSUME ListingsTypeOK, SeenIsBehind, WalkRepeatsNothing, [Next]_vars
               PROVE  SeenIsBehind' /\ WalkRepeatsNothing'
    OBVIOUS
  <2>1. facts' = facts /\ reader' = reader => Listed' = Listed
    BY DEF Listed, Kept, Exists, Scoped, Permitted
  <2>2. ASSUME NEW size \in PageSizes, WalkStart(size)
        PROVE  SeenIsBehind' /\ WalkRepeatsNothing'
    BY <2>2 DEF WalkStart, SeenIsBehind, WalkRepeatsNothing
  <2>3. CASE NextPage
    <3> DEFINE got == listFactsForAdmin(page.size, page.from)
    <3>1. /\ page.at = "walking" /\ seen' = seen \cup got
          /\ repeated' = (repeated \/ got \cap seen # {})
          /\ left' = left /\ entered' = entered /\ Listed' = Listed
      BY <2>1, <2>3 DEF NextPage
    <3>2. page.from \in Nat /\ page.size \in Nat BY DEF ListingsTypeOK
    <3>3. got \subseteq {f \in Listed : /\ page.from < Rank(f, Listed)
                                      /\ Rank(f, Listed) <= page.from + page.size}
      BY DEF listFactsForAdmin, Limited
    <3>4. \A f \in Listed : Rank(f, Listed) \in Nat BY RanksAreNumbers DEF Listed
    <3> HIDE DEF got
    <3>5. CASE left \/ entered
      BY <3>1, <3>5, <2>3 DEF SeenIsBehind, WalkRepeatsNothing, NextPage, ListingsTypeOK
    <3>6. CASE ~left /\ ~entered
      <4>1. seen \subseteq {f \in Listed : Rank(f, Listed) <= page.from}
        BY <3>1, <3>6 DEF SeenIsBehind
      <4>2. got \cap seen = {} BY <3>2, <3>3, <3>4, <4>1
      <4>3. ~repeated' BY <3>1, <3>6, <4>2 DEF WalkRepeatsNothing
      <4>4. CASE page'.at = "walking"
        <5>1. page'.from = page.from + page.size
          BY <2>3, <4>4 DEF NextPage, ListingsTypeOK
        <5>2. seen' \subseteq {f \in Listed : Rank(f, Listed) <= page.from + page.size}
          BY <3>1, <3>2, <3>3, <3>4, <4>1
        <5> QED BY <3>1, <4>3, <4>4, <5>1, <5>2 DEF SeenIsBehind, WalkRepeatsNothing
      <4>5. CASE page'.at # "walking"
        <5>1. page'.at = "done" BY <2>3, <4>5 DEF NextPage, ListingsTypeOK
        <5> QED BY <4>3, <5>1 DEF SeenIsBehind, WalkRepeatsNothing
      <4> QED BY <4>4, <4>5
    <3> QED BY <3>5, <3>6
  <2>4. ASSUME NEW f \in Fact, NEW r, Write(f, r)
        PROVE  SeenIsBehind' /\ WalkRepeatsNothing'
    <3>1. /\ page' = page /\ seen' = seen /\ repeated' = repeated
          /\ left' = (left \/ (page.at = "walking" /\ ~(Listed \subseteq Listed')))
          /\ entered' = (entered \/ (page.at = "walking" /\ ~(Listed' \subseteq Listed)))
      BY <2>4 DEF Write, walk
    <3>2. CASE page.at = "walking" /\ ~left' /\ ~entered'
      <4>1. Listed' = Listed /\ ~left /\ ~entered BY <3>1, <3>2
      <4> QED BY <3>1, <3>2, <4>1 DEF SeenIsBehind, WalkRepeatsNothing
    <3>3. CASE ~(page.at = "walking" /\ ~left' /\ ~entered')
      BY <3>1, <3>3 DEF SeenIsBehind, WalkRepeatsNothing
    <3> QED BY <3>2, <3>3
  <2>5. CASE UNCHANGED vars
    BY <2>1, <2>5 DEF vars, walk, SeenIsBehind, WalkRepeatsNothing
  <2>6. ASSUME NEW f \in Fact,
               Create(f) \/ Update(f) \/ Trash(f) \/ Restore(f) \/ Purge(f) \/ TimePasses(f)
        PROVE  \E r : Write(f, r)
    BY <2>6, Zenon DEF Create, Update, Trash, Restore, Purge, TimePasses
  <2> QED BY <2>2, <2>3, <2>4, <2>5, <2>6 DEF Next
<1> QED BY <1>1, <1>2, TypeCorrect, PTL DEF Spec

\* A search bounded to namespaces asks the same of a fact.
LEMMA SearchIsScoped ==
  ASSUME ListingsTypeOK, NEW f \in Fact, Exists(f)
  PROVE  /\ SearchScoped(f, {}) <=> MayRead(f)
         /\ \A ns \in Namespace :
              SearchScoped(f, {ns}) <=> NamespaceOf[f] = ns /\ MayRead(f)
<1>1. MayRead(f) <=> Scoped(f) BY ReadIsScoped
<1>2. SearchScoped(f, {}) <=> Scoped(f) BY DEF SearchScoped, Scoped
<1>3. ASSUME NEW ns \in Namespace
      PROVE  SearchScoped(f, {ns}) <=> NamespaceOf[f] = ns /\ Scoped(f)
  <2> DEFINE perms == PermissionsOf[reader]
             key == FactsRead \o NamespaceOf[f]
  <2>1. /\ perms \in SUBSET Key /\ NamespaceOf[f] \in Name /\ reader \in Principal
        /\ NoDeeperWildcard(perms, FactsRead)
    BY ListingsAssumption DEF ListingsTypeOK
  <2>2. hasPermission(perms, key) <=> InScope(Scope(perms, FactsRead), NamespaceOf[f])
    BY <2>1, ScopeIsExact
  <2>3. InScope(ScopeOf[reader], NamespaceOf[f])
          <=> InScope(Scope(perms, FactsRead), NamespaceOf[f])
    BY <2>1 DEF ScopeOf, factNamespaceScope
  <2>4. SearchScoped(f, {ns})
          <=> Permitted(f) /\ NamespaceOf[f] \in {ns} /\ hasPermission(perms, key)
    BY DEF SearchScoped
  <2> HIDE DEF perms, key
  <2> QED BY <2>2, <2>3, <2>4 DEF Scoped
<1> QED BY <1>1, <1>2, <1>3

\* Every way to find a fact agrees with the lookup by its key, whatever was written:
\* the list of a namespace and a search return what the lookup answers and no more,
\* and a namespace is counted when something in it is answered.
THEOREM ReadsAlwaysAgree == Spec => []ReadsAgree
<1>1. ListingsTypeOK => ReadsAgree
  <2> SUFFICES ASSUME ListingsTypeOK PROVE ReadsAgree OBVIOUS
  <2> DEFINE all == Cardinality(Fact)
             answered == {f \in Fact : Answered(f)}
             within(ns) == {f \in answered : NamespaceOf[f] = ns}
  <2>1. /\ all \in Nat /\ CANDIDATE_MULTIPLE * all \in Nat /\ all <= CANDIDATE_MULTIPLE * all
        /\ IsFiniteSet(Fact) /\ PageSizes \subseteq Nat
    <3>1. all \in Nat BY ListingsAssumption, FS_CardinalityType
    <3> HIDE DEF all
    <3> QED BY <3>1, ListingsAssumption DEF CANDIDATE_MULTIPLE
  <2>2. \A f \in Fact : Active(f) => Exists(f) BY DEF Active, Kept
  <2>3. \A S, size, from : Limited(S, size, from) \subseteq S BY DEF Limited
  <2>4. ASSUME NEW narrowed, NEW T \in SUBSET answered,
               \A f \in Fact : Answered(f) /\ SearchScoped(f, narrowed) <=> f \in T
        PROVE  /\ searchFacts(narrowed, all) = T
               /\ \A size \in PageSizes : searchFacts(narrowed, size) \subseteq T
    <3> DEFINE matched == {f \in Fact : Active(f) /\ SearchScoped(f, narrowed)}
    <3>1. matched \in SUBSET Fact /\ T = {f \in matched : facts[f].current /\ MayRead(f)}
      BY <2>4 DEF Answered
    <3>2. \A size : Candidates(narrowed, size) = Limited(matched, CANDIDATE_MULTIPLE * size, 0)
      BY DEF Candidates
    <3> HIDE DEF matched, all
    <3>3. Candidates(narrowed, all) = matched BY <2>1, <3>1, <3>2, WholePages DEF all
    <3>4. searchFacts(narrowed, all) = Limited(T, all, 0) BY <3>1, <3>3 DEF searchFacts
    <3>5. Limited(T, all, 0) = T BY <2>1, WholePages DEF all
    <3>6. ASSUME NEW size \in PageSizes PROVE searchFacts(narrowed, size) \subseteq T
      BY <2>3, <3>1, <3>2 DEF searchFacts
    <3> QED BY <3>4, <3>5, <3>6
  <2>5. /\ searchFacts({}, all) = answered
        /\ \A size \in PageSizes : searchFacts({}, size) \subseteq answered
    <3>1. \A f \in Fact : Answered(f) /\ SearchScoped(f, {}) <=> f \in answered
      BY <2>2, SearchIsScoped DEF Answered
    <3> HIDE DEF answered, all
    <3> QED BY <2>4, <3>1
  <2>6. ASSUME NEW ns \in Namespace
        PROVE  /\ getFacts(ns, all, 0) = within(ns)
               /\ searchFacts({ns}, all) = within(ns)
               /\ \A size \in PageSizes, from \in 0..all : getFacts(ns, size, from) \subseteq within(ns)
               /\ within(ns) # {} => factCount(ns) > 0
               /\ factCount(ns) > 0 => \E f \in Fact : Exists(f) /\ NamespaceOf[f] = ns /\ MayRead(f)
    <3> DEFINE listed == {g \in Fact : NamespaceOf[g] = ns /\ Active(g)}
               counted == {f \in Fact : NamespaceOf[f] = ns /\ Active(f) /\ Scoped(f) /\ MayRead(f)}
    <3>1. within(ns) = {f \in listed : facts[f].current /\ MayRead(f)} BY DEF Answered
    <3>2. listed \in SUBSET Fact OBVIOUS
    <3>3. getFacts(ns, all, 0) = within(ns)
      <4>1. Limited(listed, all, 0) = listed
        <5> HIDE DEF listed
        <5> QED BY <2>1, <3>2, WholePages
      <4> QED BY <3>1, <4>1 DEF getFacts
    <3>4. searchFacts({ns}, all) = within(ns)
      <4>1. \A f \in Fact : Answered(f) /\ SearchScoped(f, {ns}) <=> f \in within(ns)
        BY <2>2, SearchIsScoped DEF Answered
      <4>2. within(ns) \in SUBSET answered OBVIOUS
      <4> HIDE DEF within, all
      <4> QED BY <2>4, <4>1, <4>2
    <3>5. \A size \in PageSizes, from \in 0..all : getFacts(ns, size, from) \subseteq within(ns)
      BY <2>3, <3>1 DEF getFacts
    <3>6. ASSUME NEW f \in within(ns) PROVE f \in counted /\ ~Blind
      BY <2>2, ReadIsScoped, TheBlindReadNothing DEF Answered
    <3>7. factCount(ns) = IF Blind THEN 0 ELSE Cardinality(counted) BY DEF factCount
    <3>8. IsFiniteSet(counted) BY <2>1, FS_Subset
    <3>9. Cardinality(counted) \in Nat /\ (Cardinality(counted) = 0 <=> counted = {})
      BY <3>8, FS_CardinalityType, FS_EmptySet
    <3>10. within(ns) # {} => factCount(ns) > 0 BY <3>6, <3>7, <3>9
    <3>11. factCount(ns) > 0 => \E f \in Fact : Exists(f) /\ NamespaceOf[f] = ns /\ MayRead(f)
      BY <2>2, <3>7, <3>9
    <3> QED BY <3>3, <3>4, <3>5, <3>10, <3>11
  <2> QED BY <2>5, <2>6 DEF ReadsAgree
<1> QED BY <1>1, TypeCorrect, PTL

\* While nothing leaves the listing, the client has seen what was listed at first
\* and is behind its offset: what is added only moves a fact further on.
WalkInv ==
  /\ Blind \/ ~MayListOf[reader] => start = {}
  /\ page.at = "walking" /\ ~left =>
       /\ start \subseteq Listed
       /\ \A f \in start : Rank(f, Listed) <= page.from => f \in seen

\* A fact among more has no smaller rank.
LEMMA RanksGrow ==
  ASSUME NEW S \in SUBSET Fact, NEW T \in SUBSET Fact, S \subseteq T, NEW f \in S
  PROVE  Rank(f, S) <= Rank(f, T)
<1> DEFINE below(U) == {g \in U : g <= f}
<1>1. below(S) \subseteq below(T) /\ IsFiniteSet(below(T))
  BY ListingsAssumption, FS_Subset
<1> HIDE DEF below
<1>2. Cardinality(below(S)) <= Cardinality(below(T)) BY <1>1, FS_Subset
<1> QED BY <1>2 DEF Rank, below

\* A client that walks the pages until one is short has seen everything that was
\* listed when it began, unless something left the listing: no page is short of
\* rows the caller may not see, and what is added meanwhile hides nothing.
THEOREM WalksAreComplete == Spec => []WalkIsComplete
<1>1. Init => WalkInv /\ WalkIsComplete BY DEF Init, WalkInv, WalkIsComplete
<1>2. ListingsTypeOK /\ WalkInv /\ WalkIsComplete /\ [Next]_vars => WalkInv' /\ WalkIsComplete'
  <2> SUFFICES ASSUME ListingsTypeOK, WalkInv, WalkIsComplete, [Next]_vars
               PROVE  WalkInv' /\ WalkIsComplete'
    OBVIOUS
  <2>1. facts' = facts /\ reader' = reader => Listed' = Listed
    BY DEF Listed, Kept, Exists, Scoped, Permitted
  <2>2. reader' = reader => Blind' = Blind /\ MayListOf' = MayListOf
    BY DEF Blind, MayListOf, TiersOf, ScopeOf
  <2>3. Listed \in SUBSET Fact /\ Listed' \in SUBSET Fact BY DEF Listed
  <2>4. \A f \in Listed : Rank(f, Listed) \in Nat
    <3>1. \A f \in Listed : Rank(f, Listed) \in 1..Cardinality(Listed) BY <2>3, RanksAreNumbers
    <3> QED BY <3>1
  <2>5. ASSUME NEW size \in PageSizes, WalkStart(size) PROVE WalkInv' /\ WalkIsComplete'
    <3>1. /\ UNCHANGED <<facts, reader, left>> /\ page'.at = "walking" /\ page'.from = 0
          /\ start' = IF Blind \/ ~MayListOf[reader] THEN {} ELSE Listed
      BY <2>5 DEF WalkStart
    <3>2. \A f \in Listed : ~(Rank(f, Listed) <= 0)
      <4>1. \A f \in Listed : Rank(f, Listed) \in 1..Cardinality(Listed) BY <2>3, RanksAreNumbers
      <4>2. Cardinality(Listed) \in Nat BY <2>3, ListingsAssumption, FS_Subset, FS_CardinalityType
      <4> QED BY <4>1, <4>2
    <3> QED BY <2>1, <2>2, <3>1, <3>2 DEF WalkInv, WalkIsComplete
  <2>6. CASE NextPage
    <3> DEFINE got == listFactsForAdmin(page.size, page.from)
    <3>1. /\ page.at = "walking" /\ seen' = seen \cup got
          /\ UNCHANGED <<facts, reader, start, left>>
          /\ \/ Cardinality(got) < page.size /\ page'.at = "done"
             \/ ~(Cardinality(got) < page.size) /\ page'.at = "walking"
                /\ page'.from = page.from + page.size
      BY <2>6 DEF NextPage, ListingsTypeOK
    <3>2. page.from \in Nat /\ page.size \in Nat BY DEF ListingsTypeOK
    <3>3. CASE left \/ start = {}
      BY <2>1, <2>2, <3>1, <3>3 DEF WalkInv, WalkIsComplete
    <3>4. CASE ~left /\ start # {}
      <4>1. /\ ~Blind /\ MayListOf[reader] /\ start \subseteq Listed
            /\ \A f \in start : Rank(f, Listed) <= page.from => f \in seen
        BY <3>1, <3>4 DEF WalkInv
      <4>2. \A f \in Listed : MayRead(f)
        BY ReadIsScoped DEF Listed, Kept
      <4>3. got = Limited(Listed, page.size, page.from)
        BY <4>1, <4>2 DEF listFactsForAdmin, Limited
      <4>4. \A f \in start : Rank(f, Listed) <= page.from + page.size => f \in seen'
        <5>1. \A f \in Listed : Rank(f, Listed) <= page.from + page.size =>
                f \in got \/ Rank(f, Listed) <= page.from
          BY <2>4, <3>2, <4>3 DEF Limited
        <5> HIDE DEF got
        <5> QED BY <3>1, <4>1, <5>1
      <4>5. ASSUME Cardinality(got) < page.size, NEW f \in start
            PROVE  Rank(f, Listed) <= page.from + page.size
        <5> SUFFICES ASSUME page.from + page.size < Rank(f, Listed) PROVE FALSE
          BY <2>4, <3>2, <4>1
        <5>1. page.size <= Cardinality(got) BY <2>3, <3>2, <4>1, <4>3, PagesAreFull
        <5>2. IsFiniteSet(got)
          BY <2>3, <4>3, ListingsAssumption, FS_Subset DEF Limited
        <5>3. Cardinality(got) \in Nat BY <5>2, FS_CardinalityType
        <5> HIDE DEF got
        <5> QED BY <3>2, <4>5, <5>1, <5>3
      <4> HIDE DEF got
      <4>6. CASE Cardinality(got) < page.size
        BY <2>2, <3>1, <4>1, <4>4, <4>5, <4>6 DEF WalkInv, WalkIsComplete
      <4>7. CASE ~(Cardinality(got) < page.size)
        BY <2>1, <2>2, <3>1, <4>1, <4>4, <4>7 DEF WalkInv, WalkIsComplete
      <4> QED BY <4>6, <4>7
    <3> QED BY <3>3, <3>4
  <2>7. ASSUME NEW f \in Fact, NEW r, Write(f, r) PROVE WalkInv' /\ WalkIsComplete'
    <3>1. /\ UNCHANGED <<reader, page, seen, start>>
          /\ left' = (left \/ (page.at = "walking" /\ ~(Listed \subseteq Listed')))
      BY <2>7 DEF Write, walk
    <3>2. CASE page.at = "walking" /\ ~left'
      <4>1. ~left /\ Listed \subseteq Listed' BY <3>1, <3>2
      <4>2. \A g \in start : g \in Listed /\ (Rank(g, Listed) <= page.from => g \in seen)
        BY <3>2, <4>1 DEF WalkInv
      <4>3. ASSUME NEW g \in start, Rank(g, Listed') <= page.from PROVE g \in seen
        <5>1. g \in Listed /\ g \in Listed' BY <4>1, <4>2
        <5>2. Rank(g, Listed) <= Rank(g, Listed') BY <2>3, <4>1, <5>1, RanksGrow
        <5>3. Rank(g, Listed) \in Nat /\ Rank(g, Listed') \in Nat /\ page.from \in Nat
          <6>1. Rank(g, Listed') \in 1..Cardinality(Listed') BY <2>3, <5>1, RanksAreNumbers
          <6> QED BY <2>4, <5>1, <6>1 DEF ListingsTypeOK
        <5> QED BY <4>2, <4>3, <5>2, <5>3
      <4> QED BY <2>2, <3>1, <3>2, <4>1, <4>2, <4>3 DEF WalkInv, WalkIsComplete
    <3>3. CASE ~(page.at = "walking" /\ ~left')
      <4>1. ~left' => ~left BY <3>1
      <4>2. WalkIsComplete' BY <3>1, <4>1 DEF WalkIsComplete
      <4>3. WalkInv' BY <2>2, <3>1, <3>3 DEF WalkInv
      <4> QED BY <4>2, <4>3
    <3> QED BY <3>2, <3>3
  <2>8. CASE UNCHANGED vars
    BY <2>1, <2>2, <2>8 DEF vars, walk, WalkInv, WalkIsComplete
  <2>9. ASSUME NEW f \in Fact,
               Create(f) \/ Update(f) \/ Trash(f) \/ Restore(f) \/ Purge(f) \/ TimePasses(f)
        PROVE  \E r : Write(f, r)
    BY <2>9, Zenon DEF Create, Update, Trash, Restore, Purge, TimePasses
  <2> QED BY <2>5, <2>6, <2>7, <2>8, <2>9 DEF Next
<1> QED BY <1>1, <1>2, TypeCorrect, PTL DEF Spec
=============================================================================
