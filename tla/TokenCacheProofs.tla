-------------------------- MODULE TokenCacheProofs --------------------------
(***************************************************************************)
(* What the cache of verified tokens promises, for any tokens, any number  *)
(* of interleaved calls, any TTL and any ceiling.                          *)
(***************************************************************************)
EXTENDS TokenCache, FiniteSetTheorems, TLAPS

\* No entry outlives the token, or by more than the TTL its revocation, whether
\* that has happened or happens now.
Remembered ==
  \A t \in Token : cache[t] # NoEntry =>
    /\ cache[t].notAfter <= Exp[t]
    /\ cache[t].notAfter <= now + MAX_TTL_MS
    /\ revokedAt[t] # Never => cache[t].notAfter <= revokedAt[t] + MAX_TTL_MS

\* Account's answer was true when the call began.
Verified ==
  \A c \in Call : pc[c] = "active" =>
    /\ token[c] \in Admitted
    /\ Exp[token[c]] > 0 => nowMs[c] < Exp[token[c]]
    /\ revokedAt[token[c]] # Never => nowMs[c] <= revokedAt[token[c]]

Inv == /\ TokenCacheTypeOK /\ Remembered /\ Verified
       /\ RevokedIsRefusedSoon /\ ExpiredIsRefused

-----------------------------------------------------------------------------
\* What a pruning keeps was there before.
LEMMA PrunedIsCached == ASSUME NEW x PROVE Pruned(x) \subseteq Cached
BY DEF Pruned, Fresh

\* An entry is never valid beyond the TTL, counted from the start of the call
\* that makes it, or beyond the token's expiry.
LEMMA NotAfterBound ==
  ASSUME TokenCacheTypeOK, NEW c \in Call, token[c] \in Token
  PROVE  /\ NotAfter(c) \in Nat
         /\ NotAfter(c) <= nowMs[c] + MAX_TTL_MS
         /\ NotAfter(c) > nowMs[c] => NotAfter(c) <= Exp[token[c]]
<1>1. nowMs[c] \in Nat /\ Exp[token[c]] \in Nat /\ MAX_TTL_MS \in Nat
  BY TokenCacheAssumption DEF TokenCacheTypeOK
<1> QED BY <1>1 DEF NotAfter, Smaller

LEMMA InitInv == Init => Inv
<1> SUFFICES ASSUME Init PROVE Inv OBVIOUS
<1> USE TokenCacheAssumption DEF Init
<1>1. \A t \in Token : cache[t] = NoEntry OBVIOUS
<1>2. TokenCacheTypeOK BY <1>1 DEF TokenCacheTypeOK, Cached
<1>3. Remembered BY <1>1 DEF Remembered
<1>4. Verified /\ RevokedIsRefusedSoon /\ ExpiredIsRefused
  BY DEF Verified, RevokedIsRefusedSoon, ExpiredIsRefused
<1> QED BY <1>2, <1>3, <1>4 DEF Inv

-----------------------------------------------------------------------------
(* One lemma for each action.                                               *)

\* A call begins at the present time.
LEMMA BeginInv == Inv /\ (\E c \in Call, t \in Token : Begin(c, t)) => Inv'
<1> SUFFICES ASSUME Inv, NEW c \in Call, NEW t \in Token, Begin(c, t) PROVE Inv'
  OBVIOUS
<1> USE TokenCacheAssumption DEF Inv, Begin, Goto
<1>1. TokenCacheTypeOK' BY DEF TokenCacheTypeOK, Cached
<1>2. Remembered' BY DEF Remembered
<1>3. \A d \in Call : pc'[d] # "hashing" =>
        pc'[d] = pc[d] /\ token'[d] = token[d] /\ nowMs'[d] = nowMs[d]
  BY DEF TokenCacheTypeOK
<1>4. Verified' /\ RevokedIsRefusedSoon' /\ ExpiredIsRefused'
  BY <1>3 DEF Verified, RevokedIsRefusedSoon, ExpiredIsRefused
<1> QED BY <1>1, <1>2, <1>4

\* A hit: the entry's bounds are the call's.
LEMMA LookupInv == Inv /\ (\E c \in Call : Lookup(c)) => Inv'
<1> SUFFICES ASSUME Inv, NEW c \in Call, Lookup(c) PROVE Inv'
  OBVIOUS
<1> USE TokenCacheAssumption DEF Inv, Lookup, Goto
<1>1. TokenCacheTypeOK' BY DEF TokenCacheTypeOK, Cached
<1>2. Remembered' BY DEF Remembered
<1>3. Verified' BY DEF Verified, TokenCacheTypeOK
<1>4. Reusable(c) =>
        /\ nowMs[c] < Exp[token[c]]
        /\ revokedAt[token[c]] # Never => nowMs[c] <= revokedAt[token[c]] + MAX_TTL_MS
  <2> SUFFICES ASSUME Reusable(c)
               PROVE  /\ nowMs[c] < Exp[token[c]]
                      /\ revokedAt[token[c]] # Never =>
                           nowMs[c] <= revokedAt[token[c]] + MAX_TTL_MS
    OBVIOUS
  <2> DEFINE t == token[c]
  <2>1. t \in Token /\ cache[t] # NoEntry /\ cache[t].notAfter > nowMs[c]
    BY DEF Reusable, Cached
  <2>2. cache[t].notAfter \in Nat /\ nowMs[c] \in Nat /\ Exp[t] \in Nat
    BY <2>1 DEF TokenCacheTypeOK, Entry
  <2>3. revokedAt[t] # Never => revokedAt[t] \in Nat BY <2>1 DEF TokenCacheTypeOK
  <2>4. /\ cache[t].notAfter <= Exp[t]
        /\ revokedAt[t] # Never => cache[t].notAfter <= revokedAt[t] + MAX_TTL_MS
    BY <2>1 DEF Remembered
  <2> HIDE DEF t
  <2>5. /\ nowMs[c] < Exp[t]
        /\ revokedAt[t] # Never => nowMs[c] <= revokedAt[t] + MAX_TTL_MS
    BY <2>1, <2>2, <2>3, <2>4
  <2> QED BY <2>5 DEF t
<1>5. RevokedIsRefusedSoon' BY <1>4 DEF RevokedIsRefusedSoon, TokenCacheTypeOK
<1>6. ExpiredIsRefused' BY <1>4 DEF ExpiredIsRefused, TokenCacheTypeOK
<1> QED BY <1>1, <1>2, <1>3, <1>5, <1>6

\* Account's positive answer: not revoked now, not expired now, and the call
\* began no later.
LEMMA IntrospectInv == Inv /\ (\E c \in Call : Introspect(c)) => Inv'
<1> SUFFICES ASSUME Inv, NEW c \in Call, Introspect(c) PROVE Inv'
  OBVIOUS
<1> USE TokenCacheAssumption DEF Inv, Introspect, Goto
<1>1. TokenCacheTypeOK' BY DEF TokenCacheTypeOK, Cached
<1>2. Remembered' BY DEF Remembered
<1>3. token[c] \in Token /\ nowMs[c] \in Nat /\ now \in Nat /\ nowMs[c] <= now
      /\ Exp[token[c]] \in Nat
  BY DEF TokenCacheTypeOK
<1>4. IsActive(token[c]) =>
        /\ revokedAt[token[c]] = Never
        /\ Exp[token[c]] > 0 => nowMs[c] < Exp[token[c]]
  BY <1>3 DEF IsActive
<1>5. Verified' BY <1>4 DEF Verified, TokenCacheTypeOK
<1>6. RevokedIsRefusedSoon' /\ ExpiredIsRefused'
  BY DEF RevokedIsRefusedSoon, ExpiredIsRefused, TokenCacheTypeOK
<1> QED BY <1>1, <1>2, <1>5, <1>6

LEMMA UnavailableInv == Inv /\ (\E c \in Call : Unavailable(c)) => Inv'
<1> SUFFICES ASSUME Inv, NEW c \in Call, Unavailable(c) PROVE Inv'
  OBVIOUS
<1> USE TokenCacheAssumption DEF Inv, Unavailable, Goto
<1>1. TokenCacheTypeOK' BY DEF TokenCacheTypeOK, Cached
<1>2. Remembered' BY DEF Remembered
<1>3. Verified' /\ RevokedIsRefusedSoon' /\ ExpiredIsRefused'
  BY DEF Verified, RevokedIsRefusedSoon, ExpiredIsRefused, TokenCacheTypeOK
<1> QED BY <1>1, <1>2, <1>3

\* The new entry is bounded by the start of its call, which Verified compares
\* with the revocation; the entries that stay are unchanged.
LEMMA StoreInv == Inv /\ (\E c \in Call : Store(c)) => Inv'
<1> SUFFICES ASSUME Inv, NEW c \in Call, Store(c) PROVE Inv'
  OBVIOUS
<1> USE TokenCacheAssumption DEF Inv
<1> DEFINE t    == token[c]
           kept == Pruned(nowMs[c])
<1>1. /\ pc[c] = "active" /\ pc' = [pc EXCEPT ![c] = "accepted"]
      /\ UNCHANGED <<now, revokedAt, token, nowMs>>
  BY DEF Store, Goto
<1>2. /\ t \in Token /\ nowMs[c] \in Nat /\ now \in Nat /\ nowMs[c] <= now
      /\ Exp[t] \in Nat /\ insertions \in Nat
      /\ revokedAt[t] # Never => revokedAt[t] \in Nat
  BY <1>1 DEF TokenCacheTypeOK
<1>3. /\ t \in Admitted
      /\ Exp[t] > 0 => nowMs[c] < Exp[t]
      /\ revokedAt[t] # Never => nowMs[c] <= revokedAt[t]
  BY <1>1 DEF Verified
<1>4. kept \subseteq Cached BY PrunedIsCached
<1>5. /\ NotAfter(c) \in Nat /\ NotAfter(c) <= nowMs[c] + MAX_TTL_MS
      /\ NotAfter(c) > nowMs[c] => NotAfter(c) <= Exp[t]
  BY <1>2, NotAfterBound
<1>6. CASE ~(NotAfter(c) > nowMs[c])
  <2>1. UNCHANGED <<cache, insertions>> BY <1>6 DEF Store
  <2>2. TokenCacheTypeOK' BY <1>1, <2>1 DEF TokenCacheTypeOK, Cached
  <2>3. Remembered' BY <1>1, <2>1 DEF Remembered
  <2>4. Verified' BY <1>1 DEF Verified, TokenCacheTypeOK
  <2>5. RevokedIsRefusedSoon'
    BY <1>1, <1>2, <1>3 DEF RevokedIsRefusedSoon, TokenCacheTypeOK
  <2>6. ExpiredIsRefused' BY <1>1, <1>3 DEF ExpiredIsRefused, TokenCacheTypeOK
  <2> QED BY <2>2, <2>3, <2>4, <2>5, <2>6
<1>7. CASE NotAfter(c) > nowMs[c]
  <2> DEFINE place == Place(t, kept)
             new   == [notAfter |-> NotAfter(c), since |-> place]
  <2>1. /\ cache' = [u \in Token |-> IF u = t THEN new
                                     ELSE IF u \in kept THEN cache[u] ELSE NoEntry]
        /\ insertions' = IF t \in kept THEN insertions ELSE insertions + 1
    BY <1>7 DEF Store
  <2>2. /\ place \in Nat /\ place <= insertions'
        /\ insertions' \in Nat /\ insertions <= insertions'
    <3>1. CASE t \in kept
      <4>1. t \in Cached /\ place = cache[t].since /\ insertions' = insertions
        BY <3>1, <1>4, <2>1 DEF Place
      <4>2. cache[t] \in Entry /\ cache[t].since <= insertions
        BY <4>1, <1>2 DEF TokenCacheTypeOK, Cached
      <4> QED BY <4>1, <4>2, <1>2 DEF Entry
    <3>2. CASE t \notin kept
      <4>1. place = insertions + 1 /\ insertions' = insertions + 1
        BY <3>2, <2>1 DEF Place
      <4> HIDE DEF place, kept, t
      <4> QED BY <4>1, <1>2
    <3> QED BY <3>1, <3>2
  <2>3. new \in Entry BY <1>5, <2>2 DEF Entry
  <2>4. /\ cache'[t] = new
        /\ \A u \in Token : u # t /\ cache'[u] # NoEntry =>
             u \in kept /\ cache[u] # NoEntry /\ cache'[u] = cache[u]
    BY <1>2, <1>4, <2>1 DEF Cached
  <2>5. cache' \in [Token -> Entry \cup {NoEntry}]
    BY <2>1, <2>3, <1>4 DEF TokenCacheTypeOK, Cached
  <2>6. \A u, v \in Cached' : cache'[u].since = cache'[v].since => u = v
    <3>1. \A u \in Cached' : u # t => u \in kept /\ cache'[u] = cache[u]
      BY <2>4 DEF Cached
    <3>2. \A u \in Cached' : u # t => cache'[u].since # place
      <4> SUFFICES ASSUME NEW u \in Cached', u # t PROVE cache[u].since # place
        BY <3>1
      <4>1. u \in Cached /\ cache[u].since <= insertions /\ cache[u] \in Entry
        BY <3>1, <1>4 DEF TokenCacheTypeOK, Cached
      <4>2. CASE t \in kept
        BY <4>1, <4>2, <1>4 DEF Place, TokenCacheTypeOK
      <4>3. CASE t \notin kept
        <5>1. place = insertions + 1 BY <4>3 DEF Place
        <5>2. cache[u].since \in Nat BY <4>1 DEF Entry
        <5> HIDE DEF place
        <5> QED BY <5>1, <5>2, <4>1, <1>2
      <4> QED BY <4>2, <4>3
    <3>3. cache'[t].since = place BY <2>4
    <3> SUFFICES ASSUME NEW u \in Cached', NEW v \in Cached',
                        cache'[u].since = cache'[v].since
                 PROVE  u = v
      OBVIOUS
    <3>4. CASE u = t \/ v = t BY <3>2, <3>3, <3>4
    <3>5. CASE u # t /\ v # t
      <4>1. u \in Cached /\ v \in Cached /\ cache[u].since = cache[v].since
        BY <3>1, <3>5, <1>4
      <4> QED BY <4>1 DEF TokenCacheTypeOK
    <3> QED BY <3>4, <3>5
  <2>7. \A u \in Cached' : u \in Admitted /\ cache'[u].since <= insertions'
    <3> SUFFICES ASSUME NEW u \in Cached'
                 PROVE  u \in Admitted /\ cache'[u].since <= insertions'
      OBVIOUS
    <3>1. CASE u = t BY <3>1, <1>3, <2>2, <2>4
    <3>2. CASE u # t
      <4>1. u \in Cached /\ cache'[u] = cache[u] /\ cache[u] \in Entry
        BY <3>2, <2>4, <1>4 DEF Cached, TokenCacheTypeOK
      <4>2. u \in Admitted /\ cache[u].since <= insertions
        BY <4>1 DEF TokenCacheTypeOK
      <4>3. cache[u].since \in Nat BY <4>1 DEF Entry
      <4> QED BY <4>1, <4>2, <4>3, <2>2, <1>2
    <3> QED BY <3>1, <3>2
  <2>8. TokenCacheTypeOK'
    BY <1>1, <2>2, <2>5, <2>6, <2>7 DEF TokenCacheTypeOK
  <2>9. Remembered'
    <3> SUFFICES ASSUME NEW u \in Token, cache'[u] # NoEntry
                 PROVE  /\ cache'[u].notAfter <= Exp[u]
                        /\ cache'[u].notAfter <= now + MAX_TTL_MS
                        /\ revokedAt[u] # Never =>
                             cache'[u].notAfter <= revokedAt[u] + MAX_TTL_MS
      BY <1>1 DEF Remembered
    <3>1. CASE u = t
      <4>1. cache'[u].notAfter = NotAfter(c) BY <3>1, <2>4
      <4> HIDE DEF t
      <4> QED BY <3>1, <4>1, <1>2, <1>3, <1>5, <1>7
    <3>2. CASE u # t BY <3>2, <2>4 DEF Remembered
    <3> QED BY <3>1, <3>2
  <2>10. Verified' BY <1>1 DEF Verified, TokenCacheTypeOK
  <2>11. RevokedIsRefusedSoon'
    BY <1>1, <1>2, <1>3 DEF RevokedIsRefusedSoon, TokenCacheTypeOK
  <2>12. ExpiredIsRefused' BY <1>1, <1>3 DEF ExpiredIsRefused, TokenCacheTypeOK
  <2> QED BY <2>8, <2>9, <2>10, <2>11, <2>12
<1> QED BY <1>6, <1>7

\* What was begun or remembered before a revocation is within its bounds.
LEMMA RevokeInv == Inv /\ (\E t \in Revocable : Revoke(t)) => Inv'
<1> SUFFICES ASSUME Inv, NEW t \in Revocable, Revoke(t) PROVE Inv'
  OBVIOUS
<1> USE TokenCacheAssumption DEF Inv, Revoke
<1>1. TokenCacheTypeOK' BY DEF TokenCacheTypeOK, Cached
<1>2. \A u \in Token : revokedAt'[u] = IF u = t THEN now ELSE revokedAt[u]
  BY DEF TokenCacheTypeOK
<1>3. Remembered' BY <1>2 DEF Remembered
<1>4. \A c \in Call : nowMs[c] \in Nat /\ now \in Nat /\ nowMs[c] <= now
                      /\ (pc[c] # "idle" => token[c] \in Token)
  BY DEF TokenCacheTypeOK
<1>5. Verified' BY <1>2, <1>4 DEF Verified
<1>6. RevokedIsRefusedSoon' BY <1>2, <1>4 DEF RevokedIsRefusedSoon
<1>7. ExpiredIsRefused' BY DEF ExpiredIsRefused
<1> QED BY <1>1, <1>3, <1>5, <1>6, <1>7

LEMMA TickInv == Inv /\ Tick => Inv'
<1> SUFFICES ASSUME Inv, Tick PROVE Inv'
  OBVIOUS
<1> USE TokenCacheAssumption DEF Inv, Tick
<1>1. now \in Nat /\ now' = now + 1 BY DEF TokenCacheTypeOK
<1>2. TokenCacheTypeOK' BY <1>1 DEF TokenCacheTypeOK, Cached
<1>3. Remembered' BY <1>1 DEF Remembered, TokenCacheTypeOK, Entry
<1>4. Verified' /\ RevokedIsRefusedSoon' /\ ExpiredIsRefused'
  BY DEF Verified, RevokedIsRefusedSoon, ExpiredIsRefused
<1> QED BY <1>2, <1>3, <1>4

LEMMA StutterInv == Inv /\ UNCHANGED vars => Inv'
<1> SUFFICES ASSUME Inv, UNCHANGED vars PROVE Inv' OBVIOUS
<1> USE DEF Inv, vars
<1>1. TokenCacheTypeOK' BY DEF TokenCacheTypeOK, Cached
<1>2. Remembered' BY DEF Remembered
<1>3. Verified' /\ RevokedIsRefusedSoon' /\ ExpiredIsRefused'
  BY DEF Verified, RevokedIsRefusedSoon, ExpiredIsRefused
<1> QED BY <1>1, <1>2, <1>3

\* The invariant holds in every reachable state.
THEOREM Invariance == Spec => []Inv
<1>1. Inv /\ [Next]_vars => Inv'
  BY BeginInv, LookupInv, IntrospectInv, UnavailableInv, StoreInv, RevokeInv,
     TickInv, StutterInv
  DEF Next, VerifyStep
<1> QED BY InitInv, <1>1, PTL DEF Spec

-----------------------------------------------------------------------------
\* The cache and its calls are well typed, places in the order of insertion are
\* never shared, and only tokens the scope gate lets through are remembered.
THEOREM TypeCorrect == Spec => []TokenCacheTypeOK
BY Invariance, PTL DEF Inv

\* A call that begins more than MAX_TTL_MS after a revocation is refused,
\* however many calls race and however late the answers come back.
THEOREM RevocationIsPrompt == Spec => []RevokedIsRefusedSoon
BY Invariance, PTL DEF Inv

\* A call that begins at or after a token's expiry is refused.
THEOREM ExpiryIsFinal == Spec => []ExpiredIsRefused
BY Invariance, PTL DEF Inv

-----------------------------------------------------------------------------
(* The ceiling.                                                             *)

\* The bound, and that what it counts is finite.
Bounded == IsFiniteSet(Cached) /\ CacheIsBounded

\* Of the entries that have not expired, a pruning keeps no more than the ceiling:
\* two that stay have different numbers of younger ones, all below the ceiling.
LEMMA PrunedIsBounded ==
  ASSUME TokenCacheTypeOK, IsFiniteSet(Cached), NEW time
  PROVE  IsFiniteSet(Pruned(time)) /\ Cardinality(Pruned(time)) <= MAX_CACHE_ENTRIES
<1> DEFINE F == Fresh(time)
           K == Pruned(time)
           Younger(t) == {u \in F : cache[u].since > cache[t].since}
           M == MAX_CACHE_ENTRIES
<1>1. F \subseteq Cached /\ K \subseteq F BY DEF Fresh, Pruned
<1>2. IsFiniteSet(F) /\ IsFiniteSet(K) BY <1>1, FS_Subset
<1>3. M \in Nat BY TokenCacheAssumption
<1>4. \A t \in F : cache[t].since \in Nat
  BY <1>1 DEF TokenCacheTypeOK, Cached, Entry
<1>5. \A t, u \in F : cache[t].since = cache[u].since => t = u
  BY <1>1 DEF TokenCacheTypeOK
<1>6. \A t \in F : /\ IsFiniteSet(Younger(t)) /\ Cardinality(Younger(t)) \in Nat
  <2> SUFFICES ASSUME NEW t \in F
               PROVE  IsFiniteSet(Younger(t)) /\ Cardinality(Younger(t)) \in Nat
    OBVIOUS
  <2>1. Younger(t) \in SUBSET F OBVIOUS
  <2> QED BY <1>2, <2>1, FS_Subset, FS_CardinalityType
<1>7. \A t \in K : Cardinality(Younger(t)) < M BY DEF Pruned
<1>8. ASSUME NEW t \in K, NEW u \in K, cache[t].since < cache[u].since
      PROVE  Cardinality(Younger(t)) # Cardinality(Younger(u))
  <2>1. u \in Younger(t) /\ u \notin Younger(u) BY <1>1, <1>4, <1>8
  <2>2. Younger(u) \in SUBSET Younger(t) BY <1>1, <1>4, <1>8
  <2>3. IsFiniteSet(Younger(t)) BY <1>1, <1>6
  <2> QED BY <2>1, <2>2, <2>3, FS_Subset
<1> DEFINE T == 0..(M - 1)
           f == [t \in K |-> Cardinality(Younger(t))]
<1>9. f \in [K -> T]
  <2>1. \A t \in K : Cardinality(Younger(t)) \in Nat /\ Cardinality(Younger(t)) < M
    BY <1>1, <1>6, <1>7
  <2> HIDE DEF Younger
  <2> QED BY <1>3, <2>1
<1>10. IsFiniteSet(T) /\ Cardinality(T) = M
  <2>1. 0 \in Int /\ M - 1 \in Int BY <1>3
  <2>2. IsFiniteSet(T) /\ Cardinality(T) = IF 0 > M - 1 THEN 0 ELSE M - 1 - 0 + 1
    BY <2>1, FS_Interval
  <2> HIDE DEF T
  <2> QED BY <1>3, <2>2
<1>11. Cardinality(K) <= M
  <2>1. SUFFICES ASSUME ~(Cardinality(K) <= M) PROVE FALSE OBVIOUS
  <2>2. Cardinality(K) \in Nat BY <1>2, FS_CardinalityType
  <2>3. Cardinality(T) < Cardinality(K) BY <1>3, <1>10, <2>1, <2>2
  <2>4. PICK x, y \in K : x # y /\ f[x] = f[y]
    <3> HIDE DEF K, T, f
    <3> QED BY <1>2, <1>9, <1>10, <2>3, FS_PigeonHole
  <2>5. Cardinality(Younger(x)) = Cardinality(Younger(y)) BY <2>4
  <2>6. cache[x].since < cache[y].since \/ cache[y].since < cache[x].since
    BY <1>1, <1>4, <1>5, <2>4
  <2> QED BY <1>8, <2>5, <2>6
<1> QED BY <1>2, <1>11

LEMMA BoundedNext == TokenCacheTypeOK /\ Bounded /\ [Next]_vars => Bounded'
<1> SUFFICES ASSUME TokenCacheTypeOK, Bounded, [Next]_vars PROVE Bounded' OBVIOUS
<1>1. CASE UNCHANGED cache BY <1>1 DEF Bounded, CacheIsBounded, Cached
<1>2. ASSUME NEW c \in Call, Store(c), cache' # cache PROVE Bounded'
  <2> DEFINE t    == token[c]
             kept == Pruned(nowMs[c])
  <2>1. Cached' \subseteq kept \cup {t}
    <3>1. cache' = [u \in Token |->
             IF u = t THEN [notAfter |-> NotAfter(c), since |-> Place(t, kept)]
             ELSE IF u \in kept THEN cache[u] ELSE NoEntry]
      BY <1>2 DEF Store
    <3> QED BY <3>1 DEF Cached
  <2>2. IsFiniteSet(kept) /\ Cardinality(kept) <= MAX_CACHE_ENTRIES
    BY PrunedIsBounded DEF Bounded
  <2> DEFINE E == kept \cup {t}
  <2>3. IsFiniteSet(E) /\ Cardinality(E) <= MAX_CACHE_ENTRIES + 1
    <3> HIDE DEF kept, t
    <3>1. /\ IsFiniteSet(E)
          /\ Cardinality(E) = IF t \in kept THEN Cardinality(kept) ELSE Cardinality(kept) + 1
      BY <2>2, FS_AddElement
    <3>2. Cardinality(kept) \in Nat BY <2>2, FS_CardinalityType
    <3> HIDE DEF E
    <3> QED BY <2>2, <3>1, <3>2, TokenCacheAssumption
  <2>4. /\ IsFiniteSet(Cached') /\ Cardinality(Cached') <= Cardinality(E)
        /\ Cardinality(Cached') \in Nat /\ Cardinality(E) \in Nat
    <3>1. Cached' \in SUBSET E BY <2>1
    <3> HIDE DEF E
    <3> QED BY <2>3, <3>1, FS_Subset, FS_CardinalityType
  <2>5. Cardinality(Cached') <= MAX_CACHE_ENTRIES + 1
    <3> HIDE DEF E
    <3> QED BY <2>3, <2>4, TokenCacheAssumption
  <2> QED BY <2>4, <2>5 DEF Bounded, CacheIsBounded
<1> QED BY <1>1, <1>2 DEF Next, VerifyStep, Begin, Lookup, Introspect, Unavailable, Revoke,
                          Tick, vars

\* The cache never holds more than the ceiling and the one entry just set,
\* however calls interleave and whichever tokens they bring (pruneCache, verify).
THEOREM CacheBounded == Spec => []CacheIsBounded
<1>1. Init => Bounded
  <2> SUFFICES ASSUME Init PROVE Bounded OBVIOUS
  <2>1. Cached = {} BY DEF Init, Cached
  <2>2. IsFiniteSet({}) /\ Cardinality({}) = 0 BY FS_EmptySet
  <2> QED BY <2>1, <2>2, TokenCacheAssumption DEF Bounded, CacheIsBounded
<1>2. Spec => []Bounded BY <1>1, BoundedNext, TypeCorrect, PTL DEF Spec
<1>3. Bounded => CacheIsBounded BY DEF Bounded
<1> QED BY <1>2, <1>3, PTL
=============================================================================
