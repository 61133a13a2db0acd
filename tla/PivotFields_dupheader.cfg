\* A data range whose header row repeats a name; one row field.
CONSTANTS
    Month = Month
    Year = Year
    Sales = Sales
    Bogus = Bogus
    MaxFieldLength = 2
    CharBytes <- MCCharBytes
    Headers <- DupHeaders
    RowsIn <- MCRows
    ColumnsIn <- NoFields
    FilterIn <- NoFields
    DataIn <- NoFields
SPECIFICATION Spec
INVARIANT AxisConsistency
CHECK_DEADLOCK FALSE
