\* Header rows with distinct names; up to two row, one column, one filter
\* and two data fields, each naming a header or not.
CONSTANTS
    Month = Month
    Year = Year
    Sales = Sales
    Bogus = Bogus
    MaxFieldLength = 2
    CharBytes <- MCCharBytes
    Headers <- MCHeaders
    RowsIn <- MCRows
    ColumnsIn <- MCColumns
    FilterIn <- MCFilter
    DataIn <- MCData
SPECIFICATION Spec
INVARIANTS TypeOK SharedItemsCover AxisConsistency
CHECK_DEADLOCK FALSE
