\* One thread making four calls on a two-cache package: the inductive
\* invariant of the serial link proofs holds in every reachable state.
CONSTANTS
    Threads = {t1}
    s1 = s1
    s2 = s2
    Sheets = {s1, s2}
    Invalid = Invalid
    MaxCalls = 4
    InitTables <- TwoCacheTables
    InitCaches <- TwoCacheCaches
    InitCacheOf <- TwoCacheCacheOf
    InitCacheIdOf <- TwoCacheCacheIdOf
    InitHostOf <- TwoCacheHostOf
SPECIFICATION Spec
INVARIANT LinkInv
CHECK_DEADLOCK FALSE
