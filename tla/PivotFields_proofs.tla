-------------------------- MODULE PivotFields_proofs --------------------------
(***************************************************************************)
(* Proofs about the field lists AddPivotTable writes, for every header    *)
(* row and every option list: the cache fields and the pivot fields are   *)
(* built column by column from the same header row, and an item index of *)
(* a pivot field always has the shared item it points at.                  *)
(***************************************************************************)
EXTENDS PivotFields, TLAPS

(* The item an option lookup selects for a row or column field that the  *)
(* lookup found: an index exactly when the default subtotal is off.       *)
LEMMA ItemsOfFound ==
    ASSUME NEW opt, opt.ok
    PROVE  /\ Range(ItemsOf(opt)) \in {{IndexItem}, {DefaultItem}}
           /\ Range(ItemsOf(opt)) = {IndexItem} <=> ~opt.options.defaultSubtotal
BY DEF ItemsOf, Range, IndexItem, DefaultItem

(***************************************************************************)
(* addPivotFields and addPivotCache agree on column i: whenever the pivot *)
(* field lists an index item, the cache field has its shared item.  The   *)
(* pivot field is classified with the Rows > Filter > Columns precedence, *)
(* the cache field looks at Rows and Columns separately; when a name is a *)
(* row field its column options are never consulted for the items, and   *)
(* when it is a column field it is not a row field.                        *)
(***************************************************************************)
LEMMA ColumnCover ==
    ASSUME NEW o, NEW name
    PROVE  \A it \in Range(PivotFieldOf(o, name).items) :
               it.t = "data" => it.x < CacheFieldOf(o, name).shared
<1> DEFINE row == getPivotTableFieldOptions(name, o.rows)
           col == getPivotTableFieldOptions(name, o.columns)
           inRows == inPivotTableField(o.rows, name) # -1
           inFilter == inPivotTableField(o.filter, name) # -1
           inCols == inPivotTableField(o.columns, name) # -1
<1>1. row.ok = inRows /\ col.ok = inCols
    BY DEF getPivotTableFieldOptions
<1>2. CacheFieldOf(o, name).shared =
          IF (row.ok /\ ~row.options.defaultSubtotal) \/ (col.ok /\ ~col.options.defaultSubtotal)
          THEN 1 ELSE 0
    BY DEF CacheFieldOf
<1>3. CASE inRows
    <2>1. PivotFieldOf(o, name).items = ItemsOf(row)
        BY <1>3 DEF PivotFieldOf
    <2>2. Range(ItemsOf(row)) = {IndexItem} => CacheFieldOf(o, name).shared = 1
        BY <1>1, <1>2, <1>3, ItemsOfFound
    <2>3. Range(ItemsOf(row)) \in {{IndexItem}, {DefaultItem}}
        BY <1>1, <1>3, ItemsOfFound
    <2> QED BY <2>1, <2>2, <2>3 DEF IndexItem, DefaultItem
<1>4. CASE ~inRows /\ inFilter
    <2>1. PivotFieldOf(o, name).items = <<DefaultItem>>
        BY <1>4 DEF PivotFieldOf
    <2> QED BY <2>1 DEF Range, DefaultItem
<1>5. CASE ~inRows /\ ~inFilter /\ inCols
    <2>1. PivotFieldOf(o, name).items = ItemsOf(col)
        BY <1>5 DEF PivotFieldOf
    <2>2. Range(ItemsOf(col)) = {IndexItem} => CacheFieldOf(o, name).shared = 1
        BY <1>1, <1>2, <1>5, ItemsOfFound
    <2>3. Range(ItemsOf(col)) \in {{IndexItem}, {DefaultItem}}
        BY <1>1, <1>5, ItemsOfFound
    <2> QED BY <2>1, <2>2, <2>3 DEF IndexItem, DefaultItem
<1>6. CASE ~inRows /\ ~inFilter /\ ~inCols
    <2>1. PivotFieldOf(o, name).items = <<>>
        BY <1>6 DEF PivotFieldOf
    <2> QED BY <2>1 DEF Range
<1> QED BY <1>3, <1>4, <1>5, <1>6

(* The two definitions built from a header row cover each other. *)
LEMMA BuiltCover ==
    ASSUME NEW hdr \in Headers, NEW o
    PROVE  LET cf == addPivotCache(hdr, o)
               pf == addPivotFields(hdr, o)
           IN /\ Len(cf) = Len(hdr)
              /\ Len(pf) = Len(hdr)
              /\ \A i \in 1..Len(hdr) :
                     /\ cf[i].name = hdr[i]
                     /\ \A it \in Range(pf[i].items) : it.t = "data" => it.x < cf[i].shared
<1>1. Len(hdr) \in Nat
    BY HeadersAssumption
<1>2. Len(addPivotCache(hdr, o)) = Len(hdr) /\ Len(addPivotFields(hdr, o)) = Len(hdr)
    BY <1>1 DEF addPivotCache, addPivotFields
<1>3. ASSUME NEW i \in 1..Len(hdr)
      PROVE  /\ addPivotCache(hdr, o)[i].name = hdr[i]
             /\ \A it \in Range(addPivotFields(hdr, o)[i].items) :
                    it.t = "data" => it.x < addPivotCache(hdr, o)[i].shared
    <2>1. addPivotCache(hdr, o)[i] = CacheFieldOf(o, hdr[i])
          /\ addPivotFields(hdr, o)[i] = PivotFieldOf(o, hdr[i])
        BY DEF addPivotCache, addPivotFields
    <2>2. CacheFieldOf(o, hdr[i]).name = hdr[i]
        BY DEF CacheFieldOf
    <2> QED BY <2>1, <2>2, ColumnCover
<1> QED BY <1>2, <1>3

-----------------------------------------------------------------------------
(* Before the call every list is empty; after it, the cache fields and   *)
(* the table are what addPivotCache and addPivotTable build from the     *)
(* header row read and the options given.                                  *)
Inv ==
    \/ /\ order = <<>> /\ cacheFields = <<>>
       /\ table.pivotFields = <<>>
    \/ /\ order \in Headers
       /\ cacheFields = addPivotCache(order, opts)
       /\ table = addPivotTable(order, opts)

LEMMA InvInit == Init => Inv
BY DEF Init, Inv

LEMMA InvStep == Inv /\ [Next]_vars => Inv'
<1> SUFFICES ASSUME Inv, [Next]_vars PROVE Inv'
    OBVIOUS
<1>1. CASE AddPivotTable
    BY <1>1 DEF AddPivotTable, Inv
<1>2. CASE UNCHANGED vars
    BY <1>2 DEF vars, Inv
<1> QED BY <1>1, <1>2 DEF Next

LEMMA InvCover == Inv => SharedItemsCover
<1> SUFFICES ASSUME Inv PROVE SharedItemsCover
    OBVIOUS
<1>1. CASE order = <<>> /\ cacheFields = <<>> /\ table.pivotFields = <<>>
    BY <1>1 DEF SharedItemsCover
<1>2. CASE order \in Headers /\ cacheFields = addPivotCache(order, opts)
           /\ table = addPivotTable(order, opts)
    <2>1. table.pivotFields = addPivotFields(order, opts)
        BY <1>2 DEF addPivotTable
    <2> QED BY <1>2, <2>1, BuiltCover DEF SharedItemsCover
<1> QED BY <1>1, <1>2 DEF Inv

(***************************************************************************)
(* AddPivotTable writes one cache field and one pivot field per header    *)
(* column, in header order, and every index item of a pivot field points *)
(* at a shared item of the cache field at the same position, whatever    *)
(* header row and option lists the caller passes.                         *)
(***************************************************************************)
THEOREM SharedItemsCoverHolds == Spec => []SharedItemsCover
BY InvInit, InvStep, InvCover, PTL DEF Spec

=============================================================================
