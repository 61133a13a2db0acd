-------------------------- MODULE PivotTable_proofs --------------------------
(***************************************************************************)
(* Proofs about the AddPivotTable pipeline of module PivotTable, for      *)
(* every value of the constants that satisfies ConstantsAssumption.       *)
(***************************************************************************)
EXTENDS PivotTable, FiniteSetTheorems, WellFoundedInduction, TLAPS

(***************************************************************************)
(* A finite non-empty set of integers has a largest element.  The         *)
(* witness is the x whose set of elements >= x is minimal for strict       *)
(* inclusion (the strict-subset ordering of a finite set is well founded). *)
(***************************************************************************)
LEMMA MaxIsLargest ==
    ASSUME NEW S \in SUBSET Int, IsFiniteSet(S), S # {}
    PROVE  /\ Max(S) \in S
           /\ \A y \in S : y <= Max(S)
<1> DEFINE Above(x) == {y \in S : y >= x}
           Family == {Above(x) : x \in S}
<1>1. IsWellFoundedOn(StrictSubsetOrdering(S), SUBSET S)
  BY FS_StrictSubsetOrderingWellFounded, FS_FiniteSubsetsOfFinite
<1>2. Family \subseteq SUBSET S /\ Family # {}
  BY DEF Above, Family
<1>3. PICK u \in Family : \A v \in Family : ~(<<v, u>> \in StrictSubsetOrdering(S))
  <2> HIDE DEF Family
  <2> QED BY <1>1, <1>2, WFMin
<1>4. PICK x \in S : u = Above(x)
  BY DEF Family
<1>5. \A y \in S : y <= x
  <2> SUFFICES ASSUME NEW y \in S, y > x PROVE FALSE
    OBVIOUS
  <2>1. Above(y) \in Family
    BY DEF Family
  <2>2. Above(y) \subseteq Above(x) /\ x \in Above(x) /\ x \notin Above(y)
    <3>1. \A z \in S : z >= y => z >= x
      OBVIOUS
    <3>2. x >= x /\ ~(x >= y)
      OBVIOUS
    <3> QED
      BY <3>1, <3>2 DEF Above
  <2>3. <<Above(y), Above(x)>> \in StrictSubsetOrdering(S)
    BY <2>2 DEF StrictSubsetOrdering
  <2> QED
    BY <1>3, <1>4, <2>1, <2>3
<1>6. \E m \in S : \A y \in S : m >= y
  BY <1>5
<1> QED
  BY <1>6 DEF Max

(* The number after the largest of a finite set of naturals and 0 is a  *)
(* part number above every element: what addRels and                    *)
(* addWorkbookPivotCache allocate.                                        *)
LEMMA NextAboveAll ==
    ASSUME NEW S \in SUBSET Nat, IsFiniteSet(S)
    PROVE  /\ Max(S \cup {0}) + 1 \in PartNo
           /\ \A y \in S : y < Max(S \cup {0}) + 1
<1>1. /\ S \cup {0} \in SUBSET Int
      /\ IsFiniteSet(S \cup {0})
      /\ S \cup {0} # {}
  BY FS_AddElement
<1>2. /\ Max(S \cup {0}) \in S \cup {0}
      /\ \A y \in S \cup {0} : y <= Max(S \cup {0})
  <2> DEFINE T == S \cup {0}
  <2>1. T \in SUBSET Int /\ IsFiniteSet(T) /\ T # {}
    BY <1>1
  <2> HIDE DEF T
  <2>2. Max(T) \in T /\ \A y \in T : y <= Max(T)
    BY <2>1, MaxIsLargest
  <2> QED
    BY <2>2 DEF T
<1>3. Max(S \cup {0}) \in Nat
  <2>1. S \cup {0} \subseteq Nat
    OBVIOUS
  <2> HIDE DEF Max
  <2> QED
    BY <1>2, <2>1
<1> QED
  BY <1>2, <1>3 DEF PartNo

(* saveFileList: the saved part is added to the part numbers, holds the  *)
(* new content, and every other part keeps its content.                    *)
LEMMA SaveFileFacts ==
    ASSUME NEW parts, NEW n, NEW v
    PROVE  /\ DOMAIN SaveFile(parts, n, v) = {n} \cup DOMAIN parts
           /\ SaveFile(parts, n, v)[n] = v
           /\ \A p \in DOMAIN parts \ {n} : SaveFile(parts, n, v)[p] = parts[p]
  BY DEF SaveFile

(* addRels keeps a relationship file finite and well-formed when the new  *)
(* target is a part number.                                                *)
LEMMA AddRelsType ==
    ASSUME NEW r, IsRelsFile(r), NEW target \in PartNo
    PROVE  IsRelsFile(AddRels(r, target))
<1>1. /\ Max(DOMAIN r \cup {0}) + 1 \in PartNo
      /\ IsFiniteSet(DOMAIN r \cup {Max(DOMAIN r \cup {0}) + 1})
  <2>1. DOMAIN r \in SUBSET Nat /\ IsFiniteSet(DOMAIN r)
    BY DEF IsRelsFile, IsRels, PartNo
  <2> QED
    BY <2>1, NextAboveAll, FS_AddElement
<1>2. DOMAIN AddRels(r, target) = {Max(DOMAIN r \cup {0}) + 1} \cup DOMAIN r
  BY DEF AddRels, NextRId
<1> QED
  BY <1>1, <1>2 DEF AddRels, NextRId, IsRelsFile, IsRels

(* The cacheIds of a finite registry form a finite set. *)
LEMMA CacheIdsFinite ==
    ASSUME NEW R, IsFiniteSet(R)
    PROVE  IsFiniteSet({e.cacheId : e \in R})
<1> DEFINE f == [e \in R |-> e.cacheId]
<1>1. f \in Surjection(R, {e.cacheId : e \in R})
  BY DEF Surjection
<1> QED
  BY <1>1, FS_Surjection

(* addWorkbookPivotCache allocates a cacheId in PartNo. *)
LEMMA NextCacheIdType ==
    ASSUME NEW R \in SUBSET [cacheId : PartNo, rid : PartNo], IsFiniteSet(R)
    PROVE  NextCacheId(R) \in PartNo
<1> DEFINE Ids == {e.cacheId : e \in R}
<1>1. Ids \in SUBSET Nat /\ IsFiniteSet(Ids)
  BY CacheIdsFinite DEF PartNo
<1>3. Max({1} \cup Ids) \in Nat
  <2>1. /\ {1} \cup Ids \in SUBSET Int
        /\ IsFiniteSet({1} \cup Ids)
        /\ {1} \cup Ids # {}
    BY <1>1, FS_AddElement
  <2> HIDE DEF Ids
  <2>2. Max({1} \cup Ids) \in {1} \cup Ids
    BY <2>1, MaxIsLargest
  <2>3. {1} \cup Ids \subseteq Nat
    BY <1>1
  <2> HIDE DEF Max
  <2> QED
    BY <2>2, <2>3
<1> QED
  BY <1>3 DEF NextCacheId, PartNo
(* The relationships of a part, present or not, form a relationship file. *)
LEMMA RelsOfType ==
    ASSUME NEW files, \A p \in DOMAIN files : IsRelsFile(files[p]), NEW n
    PROVE  IsRelsFile(RelsOf(files, n))
<1>1. CASE n \in DOMAIN files
  BY <1>1 DEF RelsOf
<1>2. CASE n \notin DOMAIN files
  <2>1. IsFiniteSet(DOMAIN <<>>)
    BY FS_EmptySet
  <2> QED
    BY <1>2, <2>1 DEF RelsOf, IsRelsFile, IsRels
<1> QED
  BY <1>1, <1>2

-----------------------------------------------------------------------------
(* Part numbers 1..n with no hole, as excelize numbers the parts it writes. *)
Contiguous(D) == D = 1..Cardinality(D)

(* A call that has not yet saved its parts holds count + 1 for them. *)
CallInv(t) ==
    /\ pc[t] \in {"cache", "wbcache", "tablerels", "table"} => tid[t] = countPivotTables + 1
    /\ pc[t] = "cache" => pcid[t] = countPivotCache + 1

(***************************************************************************)
(* The inductive invariant behind NoOverwrite for serial calls: the table *)
(* and cache parts are numbered without holes, and a call that has not    *)
(* yet saved a part still holds count + 1 for it, a number no part has.   *)
(***************************************************************************)
SerialInv ==
    /\ TypeOK
    /\ Contiguous(DOMAIN tables)
    /\ Contiguous(DOMAIN caches)
    /\ \A t \in Threads : CallInv(t)

(* One goroutine calls AddPivotTable, on a package numbered without holes. *)
SerialPackage ==
    /\ \E T : Threads = {T}
    /\ Contiguous(InitTables)
    /\ Contiguous(InitCaches)

-----------------------------------------------------------------------------
(* The package and the call-local state start well-typed. *)
LEMMA InitTypeOK == Init => TypeOK
<1> SUFFICES ASSUME Init PROVE TypeOK
  OBVIOUS
<1> USE ConstantsAssumption DEF ConstantsAssumption
<1>1. /\ DOMAIN tables \subseteq PartNo /\ IsFiniteSet(DOMAIN tables)
      /\ \A p \in DOMAIN tables : tables[p] \in [owner : 0..MaxCalls, cacheId : PartNo]
      /\ DOMAIN caches \subseteq PartNo /\ IsFiniteSet(DOMAIN caches)
      /\ \A c \in DOMAIN caches : caches[c] \in 0..MaxCalls
  BY DEF Init
<1>2. IsRelsFile(wbRels)
  BY DEF Init, IsRelsFile, IsRels
<1>3. registry \subseteq [cacheId : PartNo, rid : PartNo] /\ IsFiniteSet(registry)
  <2> DEFINE f == [c \in InitCaches |-> [cacheId |-> InitCacheIdOf[c], rid |-> c]]
  <2>1. f \in Surjection(InitCaches, registry)
    BY DEF Init, Surjection
  <2> QED
    BY <2>1, FS_Surjection DEF Init
<1>4. DOMAIN tableRels \subseteq PartNo /\ \A p \in DOMAIN tableRels : IsRelsFile(tableRels[p])
  <2>1. DOMAIN tableRels = InitTables
    BY DEF Init
  <2>2. ASSUME NEW p \in InitTables PROVE IsRelsFile(tableRels[p])
    <3>1. tableRels[p] = [i \in {1} |-> InitCacheOf[p]]
      BY DEF Init
    <3>2. IsFiniteSet({1})
      BY FS_Singleton
    <3>3. 1 \in PartNo
      BY DEF PartNo
    <3>4. InitCacheOf[p] \in PartNo
      BY ConstantsAssumption
    <3> QED
      BY <3>1, <3>2, <3>3, <3>4 DEF IsRelsFile, IsRels
  <2> QED
    BY <2>1, <2>2
<1>5. DOMAIN sheetRels = Sheets /\ \A s \in Sheets : IsRelsFile(sheetRels[s])
  <2>1. \A s \in Sheets : IsFiniteSet({u \in InitTables : InitHostOf[u] = s})
    BY FS_Subset
  <2> QED
    BY <2>1 DEF Init, IsRelsFile, IsRels
<1>6. contentTypes \subseteq {"pivotTable", "pivotCache"} \X PartNo
  BY DEF Init
<1>7. /\ pc \in [Threads -> Steps]
      /\ tid \in [Threads -> Nat] /\ pcid \in [Threads -> Nat] /\ cid \in [Threads -> Nat]
      /\ host \in [Threads -> Sheets \cup {Invalid}]
      /\ call \in [Threads -> 0..MaxCalls]
      /\ \A t \in Threads : pc[t] = "idle"
      /\ calls \in 0..MaxCalls
      /\ done \subseteq 1..MaxCalls
  BY DEF Init, Steps
<1> QED
  BY <1>1, <1>2, <1>3, <1>4, <1>5, <1>6, <1>7 DEF TypeOK, PackageTypeOK, CallTypeOK

(* Every step of every thread keeps the package and its locals well-typed. *)
LEMMA NextTypeOK == TypeOK /\ [Next]_vars => TypeOK'
<1> SUFFICES ASSUME TypeOK, [Next]_vars PROVE TypeOK'
  OBVIOUS
<1> USE ConstantsAssumption DEF ConstantsAssumption
<1>1. ASSUME NEW t \in Threads, Reject(t) PROVE TypeOK'
  <2>1. PackageTypeOK'
    BY <1>1 DEF Reject, TypeOK, PackageTypeOK, pkgVars
  <2>2. \A u \in Threads : CallTypeOK(u)'
    BY <1>1 DEF Reject, TypeOK, CallTypeOK, localVars
  <2> QED
    BY <1>1, <2>1, <2>2 DEF Reject, TypeOK, localVars
<1>2. ASSUME NEW t \in Threads, NEW s \in Sheets, Start(t, s) PROVE TypeOK'
  <2>1. countPivotTables + 1 \in PartNo /\ countPivotCache + 1 \in PartNo
    BY FS_CardinalityType DEF TypeOK, PackageTypeOK, countPivotTables, countPivotCache, PartNo
  <2>2. PackageTypeOK'
    BY <1>2 DEF Start, TypeOK, PackageTypeOK, pkgVars
  <2>3. ASSUME NEW u \in Threads PROVE CallTypeOK(u)'
    <3>1. CASE u = t
      BY <1>2, <2>1, <3>1 DEF Start, TypeOK, CallTypeOK
    <3>2. CASE u # t
      BY <1>2, <3>2 DEF Start, TypeOK, CallTypeOK
    <3> QED
      BY <3>1, <3>2
  <2>4. /\ pc' \in [Threads -> Steps]
        /\ tid' \in [Threads -> Nat] /\ pcid' \in [Threads -> Nat] /\ cid' \in [Threads -> Nat]
        /\ host' \in [Threads -> Sheets \cup {Invalid}]
        /\ call' \in [Threads -> 0..MaxCalls]
        /\ calls' \in 0..MaxCalls
        /\ done' \subseteq 1..MaxCalls
    BY <1>2, <2>1 DEF Start, TypeOK, Steps, PartNo
  <2> QED
    BY <2>2, <2>3, <2>4 DEF TypeOK
<1>3. ASSUME NEW t \in Threads, AddPivotCache(t) PROVE TypeOK'
  <2>0. pcid[t] \in PartNo /\ call[t] \in 1..MaxCalls
    BY <1>3 DEF AddPivotCache, TypeOK, CallTypeOK
  <2>1. /\ DOMAIN caches' = DOMAIN caches \cup {pcid[t]}
        /\ \A c \in DOMAIN caches' : caches'[c] \in 0..MaxCalls
    BY <1>3, <2>0 DEF AddPivotCache, SaveFile, TypeOK, PackageTypeOK
  <2>2. IsFiniteSet(DOMAIN caches')
    <3>1. IsFiniteSet(DOMAIN caches \cup {pcid[t]})
      BY FS_AddElement DEF TypeOK, PackageTypeOK
    <3> QED
      BY <2>1, <3>1
  <2>3. PackageTypeOK'
    BY <1>3, <2>1, <2>2 DEF AddPivotCache, TypeOK, PackageTypeOK, CallTypeOK, PartNo
  <2>4. ASSUME NEW u \in Threads PROVE CallTypeOK(u)'
    <3>1. CASE u = t
      BY <1>3, <3>1 DEF AddPivotCache, TypeOK, CallTypeOK
    <3>2. CASE u # t
      BY <1>3, <3>2 DEF AddPivotCache, TypeOK, CallTypeOK
    <3> QED
      BY <3>1, <3>2
  <2>5. /\ pc' \in [Threads -> Steps]
        /\ tid' \in [Threads -> Nat] /\ pcid' \in [Threads -> Nat] /\ cid' \in [Threads -> Nat]
        /\ host' \in [Threads -> Sheets \cup {Invalid}]
        /\ call' \in [Threads -> 0..MaxCalls]
        /\ calls' \in 0..MaxCalls
        /\ done' \subseteq 1..MaxCalls
    BY <1>3 DEF AddPivotCache, TypeOK, CallTypeOK, Steps, PartNo
  <2> QED
    BY <2>3, <2>4, <2>5 DEF TypeOK
<1>4. ASSUME NEW t \in Threads, AddWorkbookPivotCache(t) PROVE TypeOK'
  <2>1. NextRId(wbRels) \in PartNo /\ NextCacheId(registry) \in PartNo
    <3>1. DOMAIN wbRels \in SUBSET Nat /\ IsFiniteSet(DOMAIN wbRels)
      BY DEF TypeOK, PackageTypeOK, IsRelsFile, IsRels, PartNo
    <3>2. registry \in SUBSET [cacheId : PartNo, rid : PartNo] /\ IsFiniteSet(registry)
      BY DEF TypeOK, PackageTypeOK
    <3> QED
      BY <3>1, <3>2, NextAboveAll, NextCacheIdType DEF NextRId
  <2>2. pcid[t] \in PartNo
    BY <1>4 DEF AddWorkbookPivotCache, TypeOK, CallTypeOK
  <2>3. IsRelsFile(wbRels')
    BY <1>4, <2>2, AddRelsType DEF AddWorkbookPivotCache, TypeOK, PackageTypeOK
  <2>4. registry' \subseteq [cacheId : PartNo, rid : PartNo] /\ IsFiniteSet(registry')
    <3> DEFINE e == [cacheId |-> NextCacheId(registry), rid |-> NextRId(wbRels)]
    <3>1. registry' = registry \cup {e}
      BY <1>4 DEF AddWorkbookPivotCache
    <3>2. IsFiniteSet(registry \cup {e})
      BY FS_AddElement DEF TypeOK, PackageTypeOK
    <3>3. e \in [cacheId : PartNo, rid : PartNo]
      BY <2>1
    <3> QED
      BY <3>1, <3>2, <3>3 DEF TypeOK, PackageTypeOK
  <2>5. PackageTypeOK'
    BY <1>4, <2>3, <2>4 DEF AddWorkbookPivotCache, TypeOK, PackageTypeOK
  <2>6. ASSUME NEW u \in Threads PROVE CallTypeOK(u)'
    <3>1. CASE u = t
      BY <1>4, <3>1, <2>1 DEF AddWorkbookPivotCache, TypeOK, CallTypeOK
    <3>2. CASE u # t
      BY <1>4, <3>2 DEF AddWorkbookPivotCache, TypeOK, CallTypeOK
    <3> QED
      BY <3>1, <3>2
  <2>7. /\ pc' \in [Threads -> Steps]
        /\ tid' \in [Threads -> Nat] /\ pcid' \in [Threads -> Nat] /\ cid' \in [Threads -> Nat]
        /\ host' \in [Threads -> Sheets \cup {Invalid}]
        /\ call' \in [Threads -> 0..MaxCalls]
        /\ calls' \in 0..MaxCalls
        /\ done' \subseteq 1..MaxCalls
    BY <1>4, <2>1 DEF AddWorkbookPivotCache, TypeOK, CallTypeOK, Steps, PartNo
  <2> QED
    BY <2>5, <2>6, <2>7 DEF TypeOK
<1>5. ASSUME NEW t \in Threads, AddTableCacheRels(t) PROVE TypeOK'
  <2>1. tid[t] \in PartNo /\ pcid[t] \in PartNo
    BY <1>5 DEF AddTableCacheRels, TypeOK, CallTypeOK
  <2>2. IsRelsFile(RelsOf(tableRels, tid[t]))
    BY RelsOfType DEF TypeOK, PackageTypeOK
  <2>3. IsRelsFile(AddRels(RelsOf(tableRels, tid[t]), pcid[t]))
    BY <2>1, <2>2, AddRelsType
  <2>4. /\ DOMAIN tableRels' \subseteq PartNo
        /\ \A p \in DOMAIN tableRels' : IsRelsFile(tableRels'[p])
    BY <1>5, <2>1, <2>3 DEF AddTableCacheRels, SaveFile, TypeOK, PackageTypeOK
  <2>5. PackageTypeOK'
    BY <1>5, <2>4 DEF AddTableCacheRels, TypeOK, PackageTypeOK
  <2>6. ASSUME NEW u \in Threads PROVE CallTypeOK(u)'
    <3>1. CASE u = t
      BY <1>5, <3>1 DEF AddTableCacheRels, TypeOK, CallTypeOK
    <3>2. CASE u # t
      BY <1>5, <3>2 DEF AddTableCacheRels, TypeOK, CallTypeOK
    <3> QED
      BY <3>1, <3>2
  <2>7. /\ pc' \in [Threads -> Steps]
        /\ tid' \in [Threads -> Nat] /\ pcid' \in [Threads -> Nat] /\ cid' \in [Threads -> Nat]
        /\ host' \in [Threads -> Sheets \cup {Invalid}]
        /\ call' \in [Threads -> 0..MaxCalls]
        /\ calls' \in 0..MaxCalls
        /\ done' \subseteq 1..MaxCalls
    BY <1>5 DEF AddTableCacheRels, TypeOK, CallTypeOK, Steps, PartNo
  <2> QED
    BY <2>5, <2>6, <2>7 DEF TypeOK
<1>6. ASSUME NEW t \in Threads, AddPivotTablePart(t) PROVE TypeOK'
  <2>0. tid[t] \in PartNo /\ call[t] \in 1..MaxCalls /\ cid[t] \in PartNo
    BY <1>6 DEF AddPivotTablePart, TypeOK, CallTypeOK
  <2>1. /\ DOMAIN tables' = DOMAIN tables \cup {tid[t]}
        /\ \A p \in DOMAIN tables' : tables'[p] \in [owner : 0..MaxCalls, cacheId : PartNo]
    BY <1>6, <2>0 DEF AddPivotTablePart, SaveFile, TypeOK, PackageTypeOK
  <2>2. IsFiniteSet(DOMAIN tables')
    <3>1. IsFiniteSet(DOMAIN tables \cup {tid[t]})
      BY FS_AddElement DEF TypeOK, PackageTypeOK
    <3> QED
      BY <2>1, <3>1
  <2>3. PackageTypeOK'
    <3>1. UNCHANGED <<caches, wbRels, registry, tableRels, sheetRels, contentTypes>>
      BY <1>6 DEF AddPivotTablePart
    <3>2. DOMAIN tables' \subseteq PartNo
      BY <2>0, <2>1 DEF TypeOK, PackageTypeOK
    <3> QED
      BY <2>1, <2>2, <3>1, <3>2 DEF TypeOK, PackageTypeOK
  <2>4. ASSUME NEW u \in Threads PROVE CallTypeOK(u)'
    <3>1. CASE u = t
      BY <1>6, <3>1 DEF AddPivotTablePart, TypeOK, CallTypeOK
    <3>2. CASE u # t
      BY <1>6, <3>2 DEF AddPivotTablePart, TypeOK, CallTypeOK
    <3> QED
      BY <3>1, <3>2
  <2>5. /\ pc' \in [Threads -> Steps]
        /\ tid' \in [Threads -> Nat] /\ pcid' \in [Threads -> Nat] /\ cid' \in [Threads -> Nat]
        /\ host' \in [Threads -> Sheets \cup {Invalid}]
        /\ call' \in [Threads -> 0..MaxCalls]
        /\ calls' \in 0..MaxCalls
        /\ done' \subseteq 1..MaxCalls
    BY <1>6 DEF AddPivotTablePart, TypeOK, CallTypeOK, Steps, PartNo
  <2> QED
    BY <2>3, <2>4, <2>5 DEF TypeOK
<1>7. ASSUME NEW t \in Threads, LinkSheet(t) PROVE TypeOK'
  <2>1. host[t] \in Sheets /\ tid[t] \in PartNo /\ pcid[t] \in PartNo /\ call[t] \in 1..MaxCalls
    BY <1>7 DEF LinkSheet, TypeOK, CallTypeOK
  <2>2. IsRelsFile(AddRels(sheetRels[host[t]], tid[t]))
    BY <2>1, AddRelsType DEF TypeOK, PackageTypeOK
  <2>3. DOMAIN sheetRels' = Sheets /\ \A s \in Sheets : IsRelsFile(sheetRels'[s])
    BY <1>7, <2>1, <2>2 DEF LinkSheet, TypeOK, PackageTypeOK
  <2>4. PackageTypeOK'
    BY <1>7, <2>1, <2>3 DEF LinkSheet, TypeOK, PackageTypeOK
  <2>5. ASSUME NEW u \in Threads PROVE CallTypeOK(u)'
    <3>1. CASE u = t
      BY <1>7, <3>1 DEF LinkSheet, TypeOK, CallTypeOK
    <3>2. CASE u # t
      BY <1>7, <3>2 DEF LinkSheet, TypeOK, CallTypeOK
    <3> QED
      BY <3>1, <3>2
  <2>6. /\ pc' \in [Threads -> Steps]
        /\ tid' \in [Threads -> Nat] /\ pcid' \in [Threads -> Nat] /\ cid' \in [Threads -> Nat]
        /\ host' \in [Threads -> Sheets \cup {Invalid}]
        /\ call' \in [Threads -> 0..MaxCalls]
        /\ calls' \in 0..MaxCalls
        /\ done' \subseteq 1..MaxCalls
    BY <1>7, <2>1 DEF LinkSheet, TypeOK, CallTypeOK, Steps, PartNo
  <2> QED
    BY <2>4, <2>5, <2>6 DEF TypeOK
<1>8. CASE UNCHANGED vars
  BY <1>8 DEF vars, pkgVars, localVars, TypeOK, PackageTypeOK, CallTypeOK
<1> QED
  BY <1>1, <1>2, <1>3, <1>4, <1>5, <1>6, <1>7, <1>8 DEF Next

(* Type correctness of AddPivotTable's pipeline, for every package the    *)
(* constants describe and any number of concurrent callers.               *)
THEOREM TypeCorrect == Spec => []TypeOK
  BY InitTypeOK, NextTypeOK, PTL DEF Spec

-----------------------------------------------------------------------------
(* Saving part Cardinality(D) + 1 keeps a hole-free numbering hole-free,  *)
(* and that number is not yet taken.                                       *)
LEMMA ContiguousExtend ==
    ASSUME NEW D, IsFiniteSet(D), Contiguous(D)
    PROVE  /\ Cardinality(D) + 1 \notin D
           /\ Contiguous(D \cup {Cardinality(D) + 1})
<1> DEFINE n == Cardinality(D)
<1>1. n \in Nat
  BY FS_CardinalityType
<1>2. D = 1..n
  BY DEF Contiguous
<1> HIDE DEF n
<1>3. D \cup {n + 1} = 1..(n + 1) /\ n + 1 \notin D
  BY <1>1, <1>2
<1>4. Cardinality(1..(n + 1)) = n + 1
  BY <1>1, FS_Interval
<1> QED
  BY <1>3, <1>4 DEF Contiguous, n

(* The initial package of a serial caller satisfies SerialInv. *)
LEMMA SerialInit == SerialPackage /\ Init => SerialInv
<1> SUFFICES ASSUME SerialPackage, Init PROVE SerialInv
  OBVIOUS
<1>1. TypeOK
  BY InitTypeOK
<1>2. DOMAIN tables = InitTables /\ DOMAIN caches = InitCaches
  BY DEF Init
<1>3. \A t \in Threads : CallInv(t)
  BY DEF Init, CallInv
<1> QED
  BY <1>1, <1>2, <1>3 DEF SerialInv, SerialPackage

(* A step of a serial caller keeps SerialInv and every existing part. *)
LEMMA SerialStep == SerialPackage /\ SerialInv /\ [Next]_vars => SerialInv' /\ PartsKept
<1> SUFFICES ASSUME SerialPackage, SerialInv, [Next]_vars PROVE SerialInv' /\ PartsKept
  OBVIOUS
<1>0. TypeOK'
  BY NextTypeOK DEF SerialInv
<1>9. PICK T : Threads = {T}
  BY DEF SerialPackage
<1>1. ASSUME NEW t \in Threads, Reject(t) PROVE SerialInv' /\ PartsKept
  <2>1. tables' = tables /\ caches' = caches /\ pc' = pc /\ tid' = tid /\ pcid' = pcid
    BY <1>1 DEF Reject, pkgVars, localVars
  <2>2. countPivotTables' = countPivotTables /\ countPivotCache' = countPivotCache
    BY <2>1 DEF countPivotTables, countPivotCache
  <2> QED
    BY <1>0, <2>1, <2>2 DEF SerialInv, CallInv, PartsKept
<1>2. ASSUME NEW t \in Threads, NEW s \in Sheets, Start(t, s) PROVE SerialInv' /\ PartsKept
  <2>1. tables' = tables /\ caches' = caches
    BY <1>2 DEF Start, pkgVars
  <2>2. countPivotTables' = countPivotTables /\ countPivotCache' = countPivotCache
    BY <2>1 DEF countPivotTables, countPivotCache
  <2>3. CallInv(t)'
    BY <1>2, <2>2 DEF Start, CallInv, SerialInv, TypeOK
  <2> QED
    BY <1>0, <1>9, <2>1, <2>3 DEF SerialInv, PartsKept
<1>3. ASSUME NEW t \in Threads, AddPivotCache(t) PROVE SerialInv' /\ PartsKept
  <2>1. pcid[t] = countPivotCache + 1 /\ tid[t] = countPivotTables + 1
    BY <1>3 DEF AddPivotCache, SerialInv, CallInv
  <2>2. IsFiniteSet(DOMAIN caches) /\ Contiguous(DOMAIN caches)
    BY DEF SerialInv, TypeOK, PackageTypeOK
  <2>3. pcid[t] \notin DOMAIN caches /\ Contiguous(DOMAIN caches \cup {pcid[t]})
    BY <2>1, <2>2, ContiguousExtend DEF countPivotCache
  <2>4. /\ DOMAIN caches' = DOMAIN caches \cup {pcid[t]}
        /\ \A c \in DOMAIN caches : caches'[c] = caches[c]
    BY <1>3, <2>3 DEF AddPivotCache, SaveFile
  <2>5. tables' = tables /\ countPivotTables' = countPivotTables
    BY <1>3 DEF AddPivotCache, countPivotTables
  <2>6. CallInv(t)'
    BY <1>3, <2>1, <2>5 DEF AddPivotCache, CallInv, SerialInv, TypeOK
  <2> QED
    BY <1>0, <1>9, <2>3, <2>4, <2>5, <2>6 DEF SerialInv, PartsKept
<1>4. ASSUME NEW t \in Threads, AddWorkbookPivotCache(t) PROVE SerialInv' /\ PartsKept
  <2>1. tables' = tables /\ caches' = caches
    BY <1>4 DEF AddWorkbookPivotCache
  <2>2. countPivotTables' = countPivotTables /\ countPivotCache' = countPivotCache
    BY <2>1 DEF countPivotTables, countPivotCache
  <2>3. CallInv(t)'
    BY <1>4, <2>2 DEF AddWorkbookPivotCache, SerialInv, CallInv
  <2> QED
    BY <1>0, <1>9, <2>1, <2>3 DEF SerialInv, PartsKept
<1>5. ASSUME NEW t \in Threads, AddTableCacheRels(t) PROVE SerialInv' /\ PartsKept
  <2>1. tables' = tables /\ caches' = caches
    BY <1>5 DEF AddTableCacheRels
  <2>2. countPivotTables' = countPivotTables /\ countPivotCache' = countPivotCache
    BY <2>1 DEF countPivotTables, countPivotCache
  <2>3. CallInv(t)'
    BY <1>5, <2>2 DEF AddTableCacheRels, SerialInv, CallInv
  <2> QED
    BY <1>0, <1>9, <2>1, <2>3 DEF SerialInv, PartsKept
<1>6. ASSUME NEW t \in Threads, AddPivotTablePart(t) PROVE SerialInv' /\ PartsKept
  <2>1. tid[t] = countPivotTables + 1
    BY <1>6 DEF AddPivotTablePart, SerialInv, CallInv
  <2>2. IsFiniteSet(DOMAIN tables) /\ Contiguous(DOMAIN tables)
    BY DEF SerialInv, TypeOK, PackageTypeOK
  <2>3. tid[t] \notin DOMAIN tables /\ Contiguous(DOMAIN tables \cup {tid[t]})
    BY <2>1, <2>2, ContiguousExtend DEF countPivotTables
  <2>4. /\ DOMAIN tables' = DOMAIN tables \cup {tid[t]}
        /\ \A p \in DOMAIN tables : tables'[p] = tables[p]
    BY <1>6, <2>3 DEF AddPivotTablePart, SaveFile
  <2>5. caches' = caches
    BY <1>6 DEF AddPivotTablePart
  <2>6. CallInv(t)'
    BY <1>6 DEF AddPivotTablePart, CallInv, SerialInv, TypeOK
  <2> QED
    BY <1>0, <1>9, <2>3, <2>4, <2>5, <2>6 DEF SerialInv, PartsKept
<1>7. ASSUME NEW t \in Threads, LinkSheet(t) PROVE SerialInv' /\ PartsKept
  <2>1. tables' = tables /\ caches' = caches
    BY <1>7 DEF LinkSheet
  <2>2. CallInv(t)'
    BY <1>7 DEF LinkSheet, CallInv, TypeOK
  <2> QED
    BY <1>0, <1>9, <2>1, <2>2 DEF SerialInv, PartsKept
<1>8. CASE UNCHANGED vars
  <2>1. tables' = tables /\ caches' = caches /\ pc' = pc /\ tid' = tid /\ pcid' = pcid
    BY <1>8 DEF vars, pkgVars, localVars
  <2>2. countPivotTables' = countPivotTables /\ countPivotCache' = countPivotCache
    BY <2>1 DEF countPivotTables, countPivotCache
  <2> QED
    BY <1>0, <2>1, <2>2 DEF SerialInv, CallInv, PartsKept
<1> QED
  BY <1>1, <1>2, <1>3, <1>4, <1>5, <1>6, <1>7, <1>8 DEF Next

(***************************************************************************)
(* When one goroutine calls AddPivotTable on a package whose table and    *)
(* cache parts are numbered 1..n without holes, no call ever replaces or  *)
(* removes an existing pivotTable or pivotCacheDefinition part: the       *)
(* count + 1 numbering of AddPivotTable is then always a fresh number.    *)
(***************************************************************************)
THEOREM SerialNoOverwrite == SerialPackage => (Spec => NoOverwrite)
<1> SUFFICES ASSUME SerialPackage PROVE Spec => NoOverwrite
  OBVIOUS
<1>1. Init => SerialInv
  BY SerialInit
<1>2. SerialInv /\ [Next]_vars => SerialInv'
  BY SerialStep
<1>3. SerialInv /\ [Next]_vars => [PartsKept]_vars
  BY SerialStep
<1> QED
  BY <1>1, <1>2, <1>3, PTL DEF Spec, NoOverwrite
=============================================================================
