\* Named data and filter fields, some of which name no header column.
CONSTANTS
    Month = Month
    Year = Year
    Sales = Sales
    Bogus = Bogus
    MaxFieldLength = 2
    CharBytes <- MCCharBytes
    Headers <- MCHeaders
    RowsIn <- NoFields
    ColumnsIn <- NoFields
    FilterIn <- NamedFilter
    DataIn <- NamedData
SPECIFICATION Spec
INVARIANT AxisEntriesKeepDeclaration
CHECK_DEADLOCK FALSE
