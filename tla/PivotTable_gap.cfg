\* One thread, on a package whose pivot parts are numbered 1 and 3.
CONSTANTS
    Threads = {t1}
    Sheets = {s1}
    Invalid = Invalid
    MaxCalls = 2
    InitTables <- GapInitTables
    InitCaches <- GapInitCaches
    InitCacheOf <- GapInitCacheOf
    InitCacheIdOf <- GapInitCacheIdOf
    InitHostOf <- GapInitHostOf
SPECIFICATION Spec
PROPERTIES NoOverwrite
CHECK_DEADLOCK FALSE
