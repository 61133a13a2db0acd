------------------------- MODULE MC_PivotTableLinks -------------------------
(* An instance for TLC of the inductive invariant behind the serial link  *)
(* theorems of PivotTable_link_proofs, on a package with two caches under *)
(* cacheIds 5 and 2 (not in part order), pivotTable1 and pivotTable3      *)
(* sharing cache 1 and pivotTable2 on the other worksheet with cache 2.   *)
EXTENDS PivotTable_refinement, TLC

CONSTANTS s1, s2

TwoCacheTables == {1, 2, 3}
TwoCacheCaches == {1, 2}
TwoCacheCacheOf == [t \in {1, 2, 3} |-> IF t = 2 THEN 2 ELSE 1]
TwoCacheCacheIdOf == [c \in {1, 2} |-> IF c = 1 THEN 5 ELSE 2]
TwoCacheHostOf == [t \in {1, 2, 3} |-> IF t = 2 THEN s2 ELSE s1]
=============================================================================
