\* Three calls, five tokens (one revocable, one not admitted), a cache of one entry and its overrun.
CONSTANTS
 t0 = t0
 t1 = t1
 t2 = t2
 t3 = t3
 t4 = t4
 Token = {t0, t1, t2, t3, t4}
 Admitted = {t0, t1, t2, t3}
 Revocable = {t2}
 Call = {c1, c2, c3}
 Exp <- MCExp
 MAX_TTL_MS = 2
 MAX_CACHE_ENTRIES = 1
 Horizon = 4
 NoEntry = NoEntry
 NoToken = NoToken
 Never = Never
SPECIFICATION Spec
SYMMETRY MCSymmetry
INVARIANTS TokenCacheTypeOK RevokedIsRefusedSoon ExpiredIsRefused CacheIsBounded
\* Every call may be answered and the clock stopped.
CHECK_DEADLOCK FALSE
