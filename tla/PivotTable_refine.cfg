\* One thread making four calls on a two-cache package implements what
\* AddPivotTable promises (PivotTableAPI): one table per returned call, on
\* its sheet and fed by its own cache, nothing of a call in progress shown.
CONSTANTS
    Threads = {t1}
    s1 = s1
    s2 = s2
    Sheets = {s1, s2}
    Invalid = Invalid
    MaxCalls = 4
    InitTables <- TwoCacheTables
    InitCaches <- TwoCacheCaches
    InitCacheOf <- TwoCacheCacheOf
    InitCacheIdOf <- TwoCacheCacheIdOf
    InitHostOf <- TwoCacheHostOf
SPECIFICATION Spec
PROPERTY APISafety
CHECK_DEADLOCK FALSE
