---------------------------- MODULE MC_PivotTable ----------------------------
(* Instances of PivotTable for TLC. *)
EXTENDS PivotTable, TLC

(* A package as excelize writes it: pivotTable1 and pivotTable2 on Sheet1 *)
(* share pivotCacheDefinition1, registered under cacheId 3.               *)
MCInitTables == {1, 2}
MCInitCaches == {1}
MCInitCacheOf == [t \in {1, 2} |-> 1]
MCInitCacheIdOf == (1 :> 3)
MCInitHostOf == [t \in {1, 2} |-> CHOOSE s \in Sheets : TRUE]

(* A package with a hole in the numbering: pivotTable1 and pivotTable3,  *)
(* each with its own cache, pivotCacheDefinition1 and 3.                  *)
GapInitTables == {1, 3}
GapInitCaches == {1, 3}
GapInitCacheOf == [t \in {1, 3} |-> t]
GapInitCacheIdOf == [c \in {1, 3} |-> c]
GapInitHostOf == [t \in {1, 3} |-> CHOOSE s \in Sheets : TRUE]
=============================================================================
