\* Named filter fields.
CONSTANTS
    Month = Month
    Year = Year
    Sales = Sales
    Bogus = Bogus
    MaxFieldLength = 2
    CharBytes <- MCCharBytes
    Headers <- MCHeaders
    RowsIn <- NoFields
    ColumnsIn <- NoFields
    FilterIn <- NamedFilter
    DataIn <- NoFields
SPECIFICATION Spec
INVARIANT FilterCaption
CHECK_DEADLOCK FALSE
