\* Two goroutines each calling AddPivotTable once on the same File.
CONSTANTS
    Threads = {t1, t2}
    Sheets = {s1}
    Invalid = Invalid
    MaxCalls = 2
    InitTables <- MCInitTables
    InitCaches <- MCInitCaches
    InitCacheOf <- MCInitCacheOf
    InitCacheIdOf <- MCInitCacheIdOf
    InitHostOf <- MCInitHostOf
SPECIFICATION Spec
INVARIANTS LinkIntegrity
CHECK_DEADLOCK FALSE
