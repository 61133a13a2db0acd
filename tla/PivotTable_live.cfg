\* Two goroutines each calling AddPivotTable once on the same File, their
\* steps interleaved, under the fairness of Spec.
CONSTANTS
    Threads = {t1, t2}
    Sheets = {s1}
    Invalid = Invalid
    MaxCalls = 2
    InitTables <- MCInitTables
    InitCaches <- MCInitCaches
    InitCacheOf <- MCInitCacheOf
    InitCacheIdOf <- MCInitCacheIdOf
    InitHostOf <- MCInitHostOf
SPECIFICATION Spec

PROPERTIES CallsReturn
CHECK_DEADLOCK FALSE
