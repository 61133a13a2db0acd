----------------------------- MODULE PivotFields -----------------------------
(***************************************************************************)
(* The field lists that AddPivotTable writes into the two parts it builds *)
(* (src/pivotTable.go): the cache fields of pivotCacheDefinitionN.xml     *)
(* (addPivotCache) and the pivot fields and row / column / page / data    *)
(* field lists of pivotTableN.xml (addPivotTable and its helpers), all    *)
(* derived from the header row of the data range (getPivotFieldsOrder)    *)
(* and the caller's PivotTableOption.                                      *)
(*                                                                         *)
(* Field positions are 0-based, as in the code.  A display name the      *)
(* caller gives is a sequence of characters; a name the code writes is a  *)
(* Go string, the sequence of its UTF-8 bytes (Encode), so that the byte  *)
(* truncation to MaxFieldLength is real.                                   *)
(* A subtotal tag is given by its case fold: strings.EqualFold compares   *)
(* case folds, so every casing of a tag behaves like its fold.  Compact,  *)
(* Outline and the DefaultSubtotal attribute are copied verbatim from the *)
(* options into the XML and are left out; the item list that             *)
(* DefaultSubtotal selects is kept.                                        *)
(***************************************************************************)
EXTENDS Integers, Sequences, Functions, SequencesExt

CONSTANTS
    Headers,         \* header rows the data range may have (sequences of names)
    RowsIn,          \* the Rows lists a caller may pass
    ColumnsIn,       \* the Columns lists
    FilterIn,        \* the Filter lists
    DataIn,          \* the Data lists
    MaxFieldLength,  \* longest display name kept (255 in excelize)
    CharBytes        \* UTF-8 width in bytes of each character of a name

ASSUME MaxFieldLengthAssumption == MaxFieldLength \in Nat \ {0}
ASSUME CharBytesAssumption == CharBytes \in [DOMAIN CharBytes -> 1..4]
(* A header row is a Go []string: a finite sequence of its names. *)
ASSUME HeadersAssumption == \A h \in Headers : h \in Seq(Range(h))

VARIABLES
    order,        \* header names of the data range, left to right
    opts,         \* [rows, columns, filter, data]: the PivotTableOption lists
    cacheFields,  \* <cacheFields> of the cache definition
    table         \* field lists of the pivot table definition

vars == <<order, opts, cacheFields, table>>

(* The aggregation functions of a data field, and their case folds. *)
Enums == {"average", "count", "countNums", "max", "min", "product",
          "stdDev", "stdDevp", "sum", "var", "varp"}
Fold(e) == CASE e = "countNums" -> "countnums"
             [] e = "stdDev" -> "stddev"
             [] e = "stdDevp" -> "stddevp"
             [] OTHER -> e

(* The PivotTableField a caller has not given: Go's zero value. *)
ZeroField == [data |-> "", name |-> <<>>, subtotal |-> "", defaultSubtotal |-> FALSE]

(* Item of a pivot field: an index into the cache field's shared items,  *)
(* or the "default" subtotal item.                                         *)
IndexItem == [t |-> "data", x |-> 0]
DefaultItem == [t |-> "default", x |-> -1]

(* The Σ Values column field. *)
ValuesField == -2

(* The <colFields> element: absent (nil pointer), or present with a list. *)
NoColFields == [present |-> FALSE, fields |-> <<>>]
ColFields(l) == [present |-> TRUE, fields |-> l]

-----------------------------------------------------------------------------
(* inStrSlice: 0-based position of the first x in a, or -1. *)
inStrSlice(a, x) ==
    IF \E i \in 1..Len(a) : a[i] = x
    THEN (CHOOSE i \in 1..Len(a) : a[i] = x /\ \A j \in 1..(i - 1) : a[j] # x) - 1
    ELSE -1

(* The source names of a list of fields. *)
DataOf(fields) == [i \in 1..Len(fields) |-> fields[i].data]

(* inPivotTableField: position of the first field whose Data is x, or -1. *)
inPivotTableField(a, x) == inStrSlice(DataOf(a), x)

(* getPivotTableFieldOptions: the first field whose Data is name. *)
getPivotTableFieldOptions(name, fields) ==
    IF inPivotTableField(fields, name) # -1
    THEN [ok |-> TRUE, options |-> fields[inPivotTableField(fields, name) + 1]]
    ELSE [ok |-> FALSE, options |-> ZeroField]

(* The Go string of a name: byte j of character c is <<c, j>>. *)
Encode(n) == FlattenSeq([i \in 1..Len(n) |-> [j \in 1..CharBytes[n[i]] |-> <<n[i], j>>]])

(* getPivotTableFieldsName: every Name whose len(), a count of bytes, is  *)
(* above MaxFieldLength is cut to its first MaxFieldLength bytes.         *)
Truncate(n) == LET b == Encode(n) IN
               IF Len(b) > MaxFieldLength THEN SubSeq(b, 1, MaxFieldLength) ELSE b
getPivotTableFieldsName(fields) == [i \in 1..Len(fields) |-> Truncate(fields[i].name)]

(* getPivotTableFieldName: the display name of the field for name, or "". *)
getPivotTableFieldName(name, fields) ==
    IF inPivotTableField(fields, name) # -1
    THEN getPivotTableFieldsName(fields)[inPivotTableField(fields, name) + 1]
    ELSE <<>>

(* Mutant: an unmatched tag is kept as given instead of becoming "sum". *)
inEnumsKeepTag(val) == IF \E e \in Enums : Fold(e) = val
                       THEN CHOOSE e \in Enums : Fold(e) = val
                       ELSE val

(* getPivotTableFieldsSubtotal: each tag matched to Enums ignoring case, *)
(* "sum" when it matches none.                                             *)
inEnums(val) == IF \E e \in Enums : Fold(e) = val
                THEN CHOOSE e \in Enums : Fold(e) = val
                ELSE "sum"
getPivotTableFieldsSubtotal(fields) == [i \in 1..Len(fields) |-> inEnums(fields[i].subtotal)]

(* The fields of a list whose Data names a header column, in list order. *)
Resolved(hdr, fields) == SelectSeq(fields, LAMBDA f : inStrSlice(hdr, f.data) # -1)

(* getPivotFieldsIndex: the header position of every field that has one. *)
getPivotFieldsIndex(hdr, fields) ==
    LET r == Resolved(hdr, fields) IN [k \in 1..Len(r) |-> inStrSlice(hdr, r[k].data)]

-----------------------------------------------------------------------------
(* Mutant: only row fields get a shared item. *)
CacheFieldOfRowsOnly(o, name) ==
    LET row == getPivotTableFieldOptions(name, o.rows)
    IN [name |-> name,
        shared |-> IF row.ok /\ ~row.options.defaultSubtotal THEN 1 ELSE 0]

(***************************************************************************)
(* addPivotCache: one cache field per header column; it has one shared    *)
(* item when the column is a row or column field whose options turn the  *)
(* default subtotal off.                                                   *)
(***************************************************************************)
CacheFieldOf(o, name) ==
    LET row == getPivotTableFieldOptions(name, o.rows)
        col == getPivotTableFieldOptions(name, o.columns)
    IN [name |-> name,
        shared |-> IF \/ row.ok /\ ~row.options.defaultSubtotal
                      \/ col.ok /\ ~col.options.defaultSubtotal
                   THEN 1 ELSE 0]
addPivotCache(hdr, o) == [i \in 1..Len(hdr) |-> CacheFieldOf(o, hdr[i])]

(* The item list of a row or column field. *)
ItemsOf(opt) == IF ~opt.ok \/ ~opt.options.defaultSubtotal
                THEN <<IndexItem>> ELSE <<DefaultItem>>

(* Mutant: a row field's dataField flag is looked up in Rows, not Data. *)
PivotFieldOfRowsAsData(o, name) ==
    LET isData == inPivotTableField(o.data, name) # -1 IN
    IF inPivotTableField(o.rows, name) # -1 THEN
        [axis |-> "axisRow", dataField |-> inPivotTableField(o.rows, name) # -1,
         name |-> getPivotTableFieldName(name, o.rows),
         items |-> ItemsOf(getPivotTableFieldOptions(name, o.rows))]
    ELSE IF inPivotTableField(o.filter, name) # -1 THEN
        [axis |-> "axisPage", dataField |-> isData,
         name |-> getPivotTableFieldName(name, o.columns), items |-> <<DefaultItem>>]
    ELSE IF inPivotTableField(o.columns, name) # -1 THEN
        [axis |-> "axisCol", dataField |-> isData,
         name |-> getPivotTableFieldName(name, o.columns),
         items |-> ItemsOf(getPivotTableFieldOptions(name, o.columns))]
    ELSE [axis |-> "", dataField |-> isData, name |-> <<>>, items |-> <<>>]

(***************************************************************************)
(* addPivotFields: one pivot field per header column, classified by the   *)
(* first of Rows, Filter, Columns, Data that names it.                     *)
(***************************************************************************)
PivotFieldOf(o, name) ==
    LET isData == inPivotTableField(o.data, name) # -1 IN
    IF inPivotTableField(o.rows, name) # -1 THEN
        [axis |-> "axisRow", dataField |-> isData,
         name |-> getPivotTableFieldName(name, o.rows),
         items |-> ItemsOf(getPivotTableFieldOptions(name, o.rows))]
    ELSE IF inPivotTableField(o.filter, name) # -1 THEN
        [axis |-> "axisPage", dataField |-> isData,
         name |-> getPivotTableFieldName(name, o.columns), items |-> <<DefaultItem>>]
    ELSE IF inPivotTableField(o.columns, name) # -1 THEN
        [axis |-> "axisCol", dataField |-> isData,
         name |-> getPivotTableFieldName(name, o.columns),
         items |-> ItemsOf(getPivotTableFieldOptions(name, o.columns))]
    ELSE [axis |-> "", dataField |-> isData, name |-> <<>>, items |-> <<>>]
addPivotFields(hdr, o) == [i \in 1..Len(hdr) |-> PivotFieldOf(o, hdr[i])]

(***************************************************************************)
(* addPivotColFields: the declared columns, then the Σ Values field when  *)
(* more than one data field is declared; absent when there are neither    *)
(* declared columns nor several data fields.                               *)
(***************************************************************************)
addPivotColFields(hdr, o) ==
    IF Len(o.columns) = 0
    THEN IF Len(o.data) <= 1 THEN NoColFields ELSE ColFields(<<ValuesField>>)
    ELSE ColFields(getPivotFieldsIndex(hdr, o.columns)
                     \o (IF Len(o.data) > 1 THEN <<ValuesField>> ELSE <<>>))

(* addPivotPageFields: name k of the Filter list with resolved position k. *)
addPivotPageFields(hdr, o) ==
    LET idx == getPivotFieldsIndex(hdr, o.filter)
        names == getPivotTableFieldsName(o.filter)
    IN [k \in 1..Len(idx) |-> [name |-> names[k], fld |-> idx[k]]]

(* addPivotDataFields: name and subtotal k of the Data list with resolved *)
(* position k.                                                             *)
addPivotDataFields(hdr, o) ==
    LET idx == getPivotFieldsIndex(hdr, o.data)
        names == getPivotTableFieldsName(o.data)
        subtotals == getPivotTableFieldsSubtotal(o.data)
    IN [k \in 1..Len(idx) |-> [name |-> names[k], fld |-> idx[k], subtotal |-> subtotals[k]]]

(* addPivotTable: the field lists of the table definition. *)
addPivotTable(hdr, o) ==
    [pivotFields |-> addPivotFields(hdr, o),
     rowFields |-> getPivotFieldsIndex(hdr, o.rows),
     colFields |-> addPivotColFields(hdr, o),
     pageFields |-> addPivotPageFields(hdr, o),
     dataFields |-> addPivotDataFields(hdr, o)]

-----------------------------------------------------------------------------
Options == [rows : RowsIn, columns : ColumnsIn, filter : FilterIn, data : DataIn]

(* Before the call: no header read, no definition built. *)
Init ==
    /\ order = <<>>
    /\ opts = [rows |-> <<>>, columns |-> <<>>, filter |-> <<>>, data |-> <<>>]
    /\ cacheFields = <<>>
    /\ table = [pivotFields |-> <<>>, rowFields |-> <<>>, colFields |-> NoColFields,
                pageFields |-> <<>>, dataFields |-> <<>>]

(* One call of AddPivotTable: the header row of the data range is read   *)
(* and both definitions are built from it and the options.               *)
AddPivotTable ==
    /\ order = <<>>
    /\ \E hdr \in Headers, o \in Options :
           /\ order' = hdr
           /\ opts' = o
           /\ cacheFields' = addPivotCache(hdr, o)
           /\ table' = addPivotTable(hdr, o)

Next == AddPivotTable

Spec == Init /\ [][Next]_vars

-----------------------------------------------------------------------------
TypeOK ==
    /\ order \in Headers \cup {<<>>}
    /\ opts.rows \in RowsIn \cup {<<>>}
    /\ opts.columns \in ColumnsIn \cup {<<>>}
    /\ opts.filter \in FilterIn \cup {<<>>}
    /\ opts.data \in DataIn \cup {<<>>}
    /\ \A i \in 1..Len(cacheFields) : cacheFields[i].shared \in {0, 1}
    /\ \A i \in 1..Len(table.pivotFields) :
           /\ table.pivotFields[i].axis \in {"axisRow", "axisPage", "axisCol", ""}
           /\ table.pivotFields[i].dataField \in BOOLEAN
           /\ Len(table.pivotFields[i].name) <= MaxFieldLength
    /\ table.colFields.present \in BOOLEAN
    /\ \A k \in 1..Len(table.colFields.fields) :
           table.colFields.fields[k] \in {ValuesField} \cup 0..(Len(order) - 1)
    /\ \A k \in 1..Len(table.dataFields) :
           /\ table.dataFields[k].subtotal \in Enums
           /\ table.dataFields[k].fld \in 0..(Len(order) - 1)
           /\ Len(table.dataFields[k].name) <= MaxFieldLength

(***************************************************************************)
(* The cache definition and the table definition agree field by field:    *)
(* both have one entry per header column, in header order, and every item *)
(* index of a pivot field (written by addPivotFields) points at a shared  *)
(* item that addPivotCache created for the cache field at the same        *)
(* position.  The two functions decide this from the options separately,  *)
(* addPivotFields with the Rows > Filter > Columns precedence and         *)
(* addPivotCache by looking at Rows and Columns independently.            *)
(***************************************************************************)
SharedItemsCover ==
    /\ Len(cacheFields) = Len(order)
    /\ Len(table.pivotFields) = Len(order)
    /\ \A i \in 1..Len(order) :
           /\ cacheFields[i].name = order[i]
           /\ \A it \in Range(table.pivotFields[i].items) :
                  it.t = "data" => it.x < cacheFields[i].shared

(* The options respect AddPivotTable's documented rule that one field is *)
(* not in more than one of Columns, Rows and Filter.                       *)
DisjointAxes ==
    LET r == Range(DataOf(opts.rows))
        c == Range(DataOf(opts.columns))
        f == Range(DataOf(opts.filter))
    IN r \cap c = {} /\ r \cap f = {} /\ c \cap f = {}

(* The declared column positions, without the Σ Values field. *)
ColPositions == Range(table.colFields.fields) \ {ValuesField}

(***************************************************************************)
(* Axis consistency: when the documented rule holds, the axis that        *)
(* addPivotFields gives the pivot field at position i agrees with the     *)
(* position lists built by addPivotRowFields, addPivotColFields and       *)
(* addPivotPageFields, and its dataField flag agrees with the list of     *)
(* addPivotDataFields: a field is on the row axis iff its position is a   *)
(* row field, and so on.  The lists refer to pivot fields by position     *)
(* (getPivotFieldsIndex), the pivot fields are classified by name.        *)
(***************************************************************************)
AxisConsistency ==
    DisjointAxes =>
        \A i \in 0..(Len(order) - 1) :
            LET pf == table.pivotFields[i + 1] IN
            /\ pf.axis = "axisRow" <=> i \in Range(table.rowFields)
            /\ pf.axis = "axisCol" <=> i \in ColPositions
            /\ pf.axis = "axisPage" <=> i \in {e.fld : e \in Range(table.pageFields)}
            /\ pf.dataField <=> i \in {e.fld : e \in Range(table.dataFields)}

(***************************************************************************)
(* Every data field and every page field of the table carries the name   *)
(* (and, for a data field, the aggregation function) that the caller gave *)
(* for the source field it refers to: the k-th entry is built from the    *)
(* k-th declared field whose Data names a header column                   *)
(* (addPivotDataFields, addPivotPageFields).                              *)
(***************************************************************************)
AxisEntriesKeepDeclaration ==
    LET rd == Resolved(order, opts.data)
        rf == Resolved(order, opts.filter)
    IN /\ Len(table.dataFields) = Len(rd)
       /\ \A k \in 1..Len(rd) :
              table.dataFields[k] = [name |-> Truncate(rd[k].name),
                                    fld |-> inStrSlice(order, rd[k].data),
                                    subtotal |-> inEnums(rd[k].subtotal)]
       /\ Len(table.pageFields) = Len(rf)
       /\ \A k \in 1..Len(rf) :
              table.pageFields[k] = [name |-> Truncate(rf[k].name),
                                    fld |-> inStrSlice(order, rf[k].data)]

(***************************************************************************)
(* A pivot field on the page (filter) axis is named with the display name *)
(* the caller gave in Filter, as row and column fields are named from     *)
(* Rows and Columns (addPivotFields).                                      *)
(***************************************************************************)
FilterCaption ==
    \A i \in 1..Len(order) :
        table.pivotFields[i].axis = "axisPage" =>
            table.pivotFields[i].name = getPivotTableFieldName(order[i], opts.filter)

(***************************************************************************)
(* The documented limit on data field names (the comment on               *)
(* PivotTableField.Name): "Maximum 255 characters are allowed in data     *)
(* field name, excess characters will be truncated".  The name written    *)
(* for the k-th data field is the encoding of the first MaxFieldLength    *)
(* characters of the declared name, so a name within the limit is kept    *)
(* whole and a longer one loses whole characters (getPivotTableFieldsName *)
(* counts and cuts with len() and slicing).                                *)
(***************************************************************************)
DataNameCharacters ==
    LET rd == Resolved(order, opts.data) IN
    \A k \in 1..Len(table.dataFields) :
        table.dataFields[k].name =
            Encode(SubSeq(rd[k].name, 1, IF Len(rd[k].name) < MaxFieldLength
                                         THEN Len(rd[k].name) ELSE MaxFieldLength))

=============================================================================
