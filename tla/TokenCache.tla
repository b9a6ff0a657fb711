----------------------------- MODULE TokenCache -----------------------------
(***************************************************************************)
(* Verification of Xfeatures Account tokens (auth/account-token.ts): the   *)
(* introspection call and the cache of its positive answers that one       *)
(* isolate keeps.  Calls interleave at every await, and the clock runs     *)
(* meanwhile; each call has read it once, at its start.                    *)
(*                                                                         *)
(* Time is counted in steps; the scope and the Developer Access exception  *)
(* decide by the token alone, so `Admitted` is the set of tokens they let  *)
(* through.                                                                *)
(***************************************************************************)
EXTENDS Naturals, FiniteSets

CONSTANTS
  Token, Admitted,
  Revocable,         \* those Account may revoke
  Call,              \* calls of verify; each is used once
  Exp,               \* `exp` of each token, 0 when Account gives none
  MAX_TTL_MS, MAX_CACHE_ENTRIES,
  Horizon,           \* the clock stops here
  NoEntry, NoToken, Never

\* An entry may be reused before `notAfter`; `since` is its place in the order
\* of insertion, which a Map keeps when a key is set again.
Entry == [notAfter : Nat, since : Nat]

ASSUME TokenCacheAssumption ==
  /\ Admitted \subseteq Token /\ Revocable \subseteq Token
  /\ Exp \in [Token -> Nat]
  /\ MAX_TTL_MS \in Nat /\ MAX_CACHE_ENTRIES \in Nat /\ Horizon \in Nat
  /\ NoEntry \notin Entry /\ NoToken \notin Token /\ Never \notin Nat

VARIABLES
  now,         \* the clock
  cache,       \* tokenCache, by token
  insertions,  \* how many keys have been inserted into it
  revokedAt,   \* when Account stopped calling the token active
  pc,          \* where each call is
  token,       \* what it verifies
  nowMs        \* the clock when it began

vars == <<now, cache, insertions, revokedAt, pc, token, nowMs>>

-----------------------------------------------------------------------------
Cached   == {t \in Token : cache[t] # NoEntry}
Smaller(m, n) == IF m < n THEN m ELSE n

\* What Account answers at this moment.
IsActive(t) == revokedAt[t] = Never /\ (Exp[t] = 0 \/ now < Exp[t])

Goto(c, l) == pc' = [pc EXCEPT ![c] = l]

Init ==
  /\ now = 0 /\ insertions = 0
  /\ cache = [t \in Token |-> NoEntry] /\ revokedAt = [t \in Token |-> Never]
  /\ pc = [c \in Call |-> "idle"]
  /\ token = [c \in Call |-> NoToken] /\ nowMs = [c \in Call |-> 0]

\* The clock is read, then the token is hashed, which is an await.
Begin(c, t) ==
  /\ pc[c] = "idle" /\ Goto(c, "hashing")
  /\ token' = [token EXCEPT ![c] = t] /\ nowMs' = [nowMs EXCEPT ![c] = now]
  /\ UNCHANGED <<now, cache, insertions, revokedAt>>

Reusable(c) == token[c] \in Cached /\ cache[token[c]].notAfter > nowMs[c]

Lookup(c) ==
  /\ pc[c] = "hashing"
  /\ Goto(c, IF Reusable(c) THEN "accepted" ELSE "asking")
  /\ UNCHANGED <<now, cache, insertions, revokedAt, token, nowMs>>

MutIntrospect(c) ==
  /\ pc[c] = "asking"
  /\ Goto(c, IF IsActive(token[c]) THEN "active" ELSE "rejected")
  /\ UNCHANGED <<now, cache, insertions, revokedAt, token, nowMs>>

\* The introspection call, at the moment Account answers it, and the scope gate.
Introspect(c) ==
  /\ pc[c] = "asking"
  /\ Goto(c, IF IsActive(token[c]) /\ token[c] \in Admitted THEN "active" ELSE "rejected")
  /\ UNCHANGED <<now, cache, insertions, revokedAt, token, nowMs>>

\* Unreachable, an error status, or no JSON: refused, and not remembered.
Unavailable(c) ==
  /\ pc[c] = "asking" /\ Goto(c, "rejected")
  /\ UNCHANGED <<now, cache, insertions, revokedAt, token, nowMs>>

MutNotAfter(c) ==
  LET expiryMs == IF Exp[token[c]] > 0 THEN Exp[token[c]] ELSE nowMs[c]
  IN Smaller(now + MAX_TTL_MS, expiryMs)
MutNotAfterTtl(c) == nowMs[c] + MAX_TTL_MS
NotAfter(c) ==
  LET expiryMs == IF Exp[token[c]] > 0 THEN Exp[token[c]] ELSE nowMs[c]
  IN Smaller(nowMs[c] + MAX_TTL_MS, expiryMs)

\* pruneCache: expired entries go, then the oldest beyond the ceiling.
Fresh(time) == {t \in Cached : cache[t].notAfter > time}
MutPruned(time) == Fresh(time)
Pruned(time) ==
  {t \in Fresh(time) :
     Cardinality({u \in Fresh(time) : cache[u].since > cache[t].since}) < MAX_CACHE_ENTRIES}

\* Map.set keeps the place of a key that is there.
Place(t, kept) == IF t \in kept THEN cache[t].since ELSE insertions + 1

Store(c) ==
  /\ pc[c] = "active" /\ Goto(c, "accepted")
  /\ LET t == token[c]
         kept == Pruned(nowMs[c])
     IN IF NotAfter(c) > nowMs[c]
        THEN /\ cache' = [u \in Token |->
                   IF u = t THEN [notAfter |-> NotAfter(c), since |-> Place(t, kept)]
                   ELSE IF u \in kept THEN cache[u] ELSE NoEntry]
             /\ insertions' = IF t \in kept THEN insertions ELSE insertions + 1
        ELSE UNCHANGED <<cache, insertions>>
  /\ UNCHANGED <<now, revokedAt, token, nowMs>>

\* The application or the user is revoked at Account.
Revoke(t) ==
  /\ revokedAt[t] = Never /\ revokedAt' = [revokedAt EXCEPT ![t] = now]
  /\ UNCHANGED <<now, cache, insertions, pc, token, nowMs>>

Tick == /\ now < Horizon /\ now' = now + 1
        /\ UNCHANGED <<cache, insertions, revokedAt, pc, token, nowMs>>

VerifyStep(c) == Lookup(c) \/ Introspect(c) \/ Unavailable(c) \/ Store(c)

Next == \/ \E c \in Call : VerifyStep(c) \/ \E t \in Token : Begin(c, t)
        \/ \E t \in Revocable : Revoke(t)
        \/ Tick

Spec == Init /\ [][Next]_vars

-----------------------------------------------------------------------------
(* Properties.                                                              *)

\* The cache, the clock and the calls hold values of their kind; no call began
\* in the future; what is remembered was let through, and no two entries share a
\* place, so that "the oldest" names one.
TokenCacheTypeOK ==
  /\ now \in Nat /\ insertions \in Nat
  /\ cache \in [Token -> Entry \cup {NoEntry}]
  /\ revokedAt \in [Token -> Nat \cup {Never}]
  /\ pc \in [Call -> {"idle", "hashing", "asking", "active", "accepted", "rejected"}]
  /\ token \in [Call -> Token \cup {NoToken}]
  /\ nowMs \in [Call -> Nat]
  /\ \A t, u \in Cached : cache[t].since = cache[u].since => t = u
  /\ \A t \in Cached : t \in Admitted /\ cache[t].since <= insertions
  /\ \A c \in Call : nowMs[c] <= now /\ (pc[c] # "idle" => token[c] \in Token)

\* "A revoked application stops working promptly": no call that begins more than
\* MAX_TTL_MS after the revocation is accepted, however slowly the answers that
\* filled the cache came back (notAfterMs counts from before the call).
RevokedIsRefusedSoon ==
  \A c \in Call : pc[c] = "accepted" /\ revokedAt[token[c]] # Never =>
    nowMs[c] <= revokedAt[token[c]] + MAX_TTL_MS

\* "Never past the token's own exp": no call that begins after a token's expiry
\* is accepted, from the cache or from Account.
ExpiredIsRefused ==
  \A c \in Call : pc[c] = "accepted" /\ Exp[token[c]] > 0 => nowMs[c] < Exp[token[c]]

\* The cache stays bounded.  pruneCache runs before the new entry is set, so the
\* ceiling is passed by the one entry.
CacheIsBounded == Cardinality(Cached) <= MAX_CACHE_ENTRIES + 1
=============================================================================
