\* Every corner order on a 2x2 grid, with and without "$", plus the
\* error cases: empty string, missing or doubled "!", bad cells.
CONSTANTS
    MaxColumns = 2
    TotalRows = 2
    RangeStrs <- MCRangeStrs
SPECIFICATION Spec
INVARIANTS TypeOK CanonicalBox SwapInvariant
CHECK_DEADLOCK FALSE
