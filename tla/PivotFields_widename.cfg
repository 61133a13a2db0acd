\* A data field named with one three-byte character, MaxFieldLength 2.
CONSTANTS
    Month = Month
    Year = Year
    Sales = Sales
    Bogus = Bogus
    MaxFieldLength = 2
    CharBytes <- MCCharBytes
    Headers <- MCHeaders
    RowsIn <- NoFields
    ColumnsIn <- NoFields
    FilterIn <- NoFields
    DataIn <- WideData
SPECIFICATION Spec
INVARIANT DataNameCharacters
CHECK_DEADLOCK FALSE
