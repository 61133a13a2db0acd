\* One thread making three calls on a package excelize itself could have written.
CONSTANTS
    Threads = {t1}
    Sheets = {s1, s2}
    Invalid = Invalid
    MaxCalls = 3
    InitTables <- MCInitTables
    InitCaches <- MCInitCaches
    InitCacheOf <- MCInitCacheOf
    InitCacheIdOf <- MCInitCacheIdOf
    InitHostOf <- MCInitHostOf
SPECIFICATION Spec
INVARIANTS TypeOK LinkIntegrity NoLostTable
PROPERTIES NoOverwrite CallsReturn
CHECK_DEADLOCK FALSE
