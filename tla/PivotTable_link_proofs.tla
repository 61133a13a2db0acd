------------------------ MODULE PivotTable_link_proofs ------------------------
(***************************************************************************)
(* Proofs of the link properties of module PivotTable for one goroutine:  *)
(* on a package excelize can have written (parts numbered without holes, *)
(* distinct cacheIds in workbook.xml), every pivot table part stays       *)
(* linked to the cache built with it along all three ID spaces, and every *)
(* call that returned nil has left a table linked from a worksheet.       *)
(***************************************************************************)
EXTENDS PivotTable_proofs

(* The workbook's <pivotCaches> names each cache part under its own       *)
(* cacheId (excelize allocates a cacheId one above the largest in use).   *)
DistinctCacheIds ==
    \A c1, c2 \in InitCaches : InitCacheIdOf[c1] = InitCacheIdOf[c2] => c1 = c2

(* A registry entry with cacheId id leads, through the workbook          *)
(* relationships, to cache part c.                                         *)
Registers(id, c) == \E e \in registry : e.cacheId = id /\ wbRels[e.rid] = c

(* Table part p reaches, through its cacheId and through its own          *)
(* relationship file, one cache part, built by the same call.              *)
TableLinked(p) ==
    \E c \in DOMAIN caches :
        /\ Registers(tables[p].cacheId, c)
        /\ p \in DOMAIN tableRels /\ Range(tableRels[p]) = {c}
        /\ caches[c] = tables[p].owner

(* Every registered rId is a workbook relationship; no two entries share  *)
(* a cacheId.                                                              *)
RegistryInv ==
    /\ \A e \in registry : e.rid \in DOMAIN wbRels
    /\ \A e1, e2 \in registry : e1.cacheId = e2.cacheId => e1 = e2

(* A worksheet relationship targets a saved table part, never the one a  *)
(* call is about to link, and no two of them target the same part.        *)
SheetInv ==
    /\ \A s \in Sheets : \A r \in DOMAIN sheetRels[s] :
           /\ sheetRels[s][r] \in DOMAIN tables
           /\ \A t \in Threads : pc[t] = "link" => sheetRels[s][r] # tid[t]
    /\ \A s1, s2 \in Sheets : \A r1 \in DOMAIN sheetRels[s1], r2 \in DOMAIN sheetRels[s2] :
           sheetRels[s1][r1] = sheetRels[s2][r2] => s1 = s2 /\ r1 = r2

(* A table relationship file exists for a saved table part or for the    *)
(* one a call saves next.                                                  *)
TableRelsInv ==
    DOMAIN tableRels \subseteq DOMAIN tables \cup {tid[t] : t \in {u \in Threads : pc[u] = "table"}}

(* What a call in progress has built so far, step by step. *)
CallLinkInv(t) ==
    /\ pc[t] \in {"wbcache", "tablerels", "table", "link"} =>
           pcid[t] \in DOMAIN caches /\ caches[pcid[t]] = call[t]
    /\ pc[t] \in {"tablerels", "table", "link"} => Registers(cid[t], pcid[t])
    /\ pc[t] \in {"table", "link"} =>
           tid[t] \in DOMAIN tableRels /\ Range(tableRels[tid[t]]) = {pcid[t]}
    /\ pc[t] = "link" =>
           tid[t] \in DOMAIN tables /\ tables[tid[t]] = [owner |-> call[t], cacheId |-> cid[t]]

(***************************************************************************)
(* The inductive invariant behind LinkIntegrity and NoLostTable for       *)
(* serial calls.  The three ID spaces are kept apart by freshness: the    *)
(* part numbers by the hole-free numbering of SerialInv, the rIds and the *)
(* cacheIds by the max + 1 allocation; the call facts record what each    *)
(* step of AddPivotTable has added, so that the last two steps close the  *)
(* links of the new table.                                                 *)
(***************************************************************************)
LinkInv ==
    /\ SerialInv
    /\ RegistryInv
    /\ \A p \in DOMAIN tables : TableLinked(p)
    /\ SheetInv
    /\ TableRelsInv
    /\ \A t \in Threads : CallLinkInv(t)
    /\ NoLostTable

-----------------------------------------------------------------------------
(* addRels files the new relationship under a fresh rId and keeps every  *)
(* relationship the file had.                                              *)
LEMMA AddRelsFacts ==
    ASSUME NEW r, IsRelsFile(r), NEW x
    PROVE  /\ NextRId(r) \in PartNo
           /\ NextRId(r) \notin DOMAIN r
           /\ DOMAIN AddRels(r, x) = DOMAIN r \cup {NextRId(r)}
           /\ AddRels(r, x)[NextRId(r)] = x
           /\ \A i \in DOMAIN r : AddRels(r, x)[i] = r[i]
<1>1. DOMAIN r \in SUBSET Nat /\ IsFiniteSet(DOMAIN r)
  BY DEF IsRelsFile, IsRels, PartNo
<1>2. NextRId(r) \in PartNo /\ \A y \in DOMAIN r : y < NextRId(r)
  BY <1>1, NextAboveAll DEF NextRId
<1>3. NextRId(r) \notin DOMAIN r
  BY <1>1, <1>2 DEF PartNo
<1> QED
  BY <1>2, <1>3 DEF AddRels

(* The first relationship of a file that did not exist: one target. *)
LEMMA AddRelsFirst ==
    ASSUME NEW x
    PROVE  Range(AddRels(<<>>, x)) = {x}
<1>1. IsRelsFile(<<>>)
  BY FS_EmptySet DEF IsRelsFile, IsRels
<1>2. /\ DOMAIN AddRels(<<>>, x) = DOMAIN <<>> \cup {NextRId(<<>>)}
      /\ AddRels(<<>>, x)[NextRId(<<>>)] = x
  BY <1>1, AddRelsFacts
<1>3. DOMAIN <<>> = {}
  OBVIOUS
<1> QED
  BY <1>2, <1>3 DEF Range

(* addRels keeps every target of the file and adds the new one. *)
LEMMA AddRelsRange ==
    ASSUME NEW r, IsRelsFile(r), NEW x
    PROVE  Range(AddRels(r, x)) = Range(r) \cup {x}
<1> DEFINE a == AddRels(r, x)
<1>1. /\ DOMAIN a = DOMAIN r \cup {NextRId(r)}
      /\ a[NextRId(r)] = x
      /\ \A i \in DOMAIN r : a[i] = r[i]
  BY AddRelsFacts
<1> HIDE DEF a
<1>2. Range(a) = {a[i] : i \in DOMAIN r} \cup {a[NextRId(r)]}
  BY <1>1 DEF Range
<1>3. {a[i] : i \in DOMAIN r} = Range(r)
  BY <1>1 DEF Range
<1> QED
  BY <1>1, <1>2, <1>3 DEF a

(* addWorkbookPivotCache allocates a cacheId above every registered one. *)
LEMMA NextCacheIdFresh ==
    ASSUME NEW R \in SUBSET [cacheId : PartNo, rid : PartNo], IsFiniteSet(R)
    PROVE  \A e \in R : e.cacheId < NextCacheId(R)
<1> DEFINE Ids == {e.cacheId : e \in R}
<1>1. Ids \in SUBSET Nat /\ IsFiniteSet(Ids)
  BY CacheIdsFinite DEF PartNo
<1>2. /\ {1} \cup Ids \in SUBSET Int
      /\ IsFiniteSet({1} \cup Ids)
      /\ {1} \cup Ids # {}
  BY <1>1, FS_AddElement
<1> HIDE DEF Ids
<1>3. \A y \in {1} \cup Ids : y <= Max({1} \cup Ids)
  BY <1>2, MaxIsLargest
<1>4. Max({1} \cup Ids) \in Int
  BY <1>2, MaxIsLargest
<1> HIDE DEF Max
<1>5. SUFFICES ASSUME NEW e \in R PROVE e.cacheId < Max({1} \cup Ids) + 1
  BY DEF NextCacheId, Ids
<1>6. e.cacheId \in {1} \cup Ids /\ e.cacheId \in Int
  BY DEF Ids, PartNo
<1>7. e.cacheId <= Max({1} \cup Ids)
  BY <1>3, <1>6
<1> QED
  BY <1>4, <1>6, <1>7

(* A set whose elements are all equal has at most one element. *)
LEMMA AtMostOne ==
    ASSUME NEW S, \A x, y \in S : x = y
    PROVE  Cardinality(S) <= 1
<1>1. CASE S = {}
  BY <1>1, FS_EmptySet
<1>2. CASE S # {}
  <2>1. PICK x \in S : TRUE
    BY <1>2
  <2>2. S = {x}
    BY <2>1
  <2> QED
    BY <2>2, FS_Singleton
<1> QED
  BY <1>1, <1>2

-----------------------------------------------------------------------------
(* A package excelize can have written satisfies the invariant. *)
LEMMA LinkInit == SerialPackage /\ DistinctCacheIds /\ Init => LinkInv
<1> SUFFICES ASSUME SerialPackage, DistinctCacheIds, Init PROVE LinkInv
  OBVIOUS
<1> USE ConstantsAssumption DEF ConstantsAssumption
<1>1. SerialInv
  BY SerialInit
<1>2. RegistryInv
  BY DEF Init, RegistryInv, DistinctCacheIds
<1>3. ASSUME NEW p \in DOMAIN tables PROVE TableLinked(p)
  <2> DEFINE c == InitCacheOf[p]
  <2>1. p \in InitTables /\ c \in InitCaches
    BY DEF Init
  <2>2. Registers(tables[p].cacheId, c)
    <3>1. [cacheId |-> InitCacheIdOf[c], rid |-> c] \in registry
      BY <2>1 DEF Init
    <3>2. tables[p].cacheId = InitCacheIdOf[c] /\ wbRels[c] = c
      BY <2>1 DEF Init
    <3> QED
      BY <3>1, <3>2 DEF Registers
  <2>3. p \in DOMAIN tableRels /\ Range(tableRels[p]) = {c}
    BY <2>1 DEF Init, Range
  <2>4. c \in DOMAIN caches /\ caches[c] = tables[p].owner
    BY <2>1 DEF Init
  <2> QED
    BY <2>2, <2>3, <2>4 DEF TableLinked
<1>4. SheetInv
  BY DEF Init, SheetInv
<1>5. TableRelsInv
  BY DEF Init, TableRelsInv
<1>6. \A t \in Threads : CallLinkInv(t)
  BY DEF Init, CallLinkInv
<1>7. NoLostTable
  BY DEF Init, NoLostTable
<1> QED
  BY <1>1, <1>2, <1>3, <1>4, <1>5, <1>6, <1>7 DEF LinkInv

(* The invariant gives both properties the runs check. *)
LEMMA LinkInvIntegrity == LinkInv => LinkIntegrity /\ NoLostTable
<1> SUFFICES ASSUME LinkInv PROVE LinkIntegrity
  BY DEF LinkInv
<1> SUFFICES ASSUME NEW p \in DOMAIN tables
             PROVE  /\ Cardinality(RegistryEntries(p)) = 1
                    /\ \E c \in DOMAIN caches :
                           /\ RegisteredCaches(p) = {c}
                           /\ Range(RelsOf(tableRels, p)) = {c}
                           /\ caches[c] = tables[p].owner
                    /\ Cardinality(SheetLinks(p)) <= 1
  BY DEF LinkIntegrity
<1>1. PICK c \in DOMAIN caches :
          /\ Registers(tables[p].cacheId, c)
          /\ p \in DOMAIN tableRels /\ Range(tableRels[p]) = {c}
          /\ caches[c] = tables[p].owner
  BY DEF LinkInv, TableLinked
<1>2. PICK e \in registry : e.cacheId = tables[p].cacheId /\ wbRels[e.rid] = c
  BY <1>1 DEF Registers
<1>3. RegistryEntries(p) = {e}
  BY <1>2 DEF LinkInv, RegistryInv, RegistryEntries
<1>4. Cardinality(RegistryEntries(p)) = 1
  BY <1>3, FS_Singleton
<1>5. RegisteredCaches(p) = {c}
  BY <1>2, <1>3 DEF LinkInv, RegistryInv, RegisteredCaches
<1>6. Range(RelsOf(tableRels, p)) = {c}
  BY <1>1 DEF RelsOf
<1>7. Cardinality(SheetLinks(p)) <= 1
  <2>1. \A x, y \in SheetLinks(p) : x = y
    BY DEF LinkInv, SheetInv, SheetLinks
  <2> QED
    BY <2>1, AtMostOne
<1> QED
  BY <1>1, <1>4, <1>5, <1>6, <1>7

(* The invariant speaks only of the package, the locals and the set of   *)
(* completed calls: a step that changes none of them keeps it.             *)
LEMMA LinkInvFrame ==
    ASSUME LinkInv, SerialInv',
           tables' = tables, caches' = caches, wbRels' = wbRels,
           registry' = registry, tableRels' = tableRels, sheetRels' = sheetRels,
           contentTypes' = contentTypes, pc' = pc, tid' = tid, pcid' = pcid,
           cid' = cid, call' = call, done' = done
    PROVE  LinkInv'
<1>1. RegistryInv'
  BY DEF LinkInv, RegistryInv
<1>2. \A p \in DOMAIN tables' : TableLinked(p)'
  BY DEF LinkInv, TableLinked, Registers
<1>3. SheetInv'
  BY DEF LinkInv, SheetInv
<1>4. TableRelsInv'
  BY DEF LinkInv, TableRelsInv
<1>5. \A t \in Threads : CallLinkInv(t)'
  BY DEF LinkInv, CallLinkInv, Registers
<1>6. NoLostTable'
  BY DEF LinkInv, NoLostTable
<1> QED
  BY <1>1, <1>2, <1>3, <1>4, <1>5, <1>6 DEF LinkInv

-----------------------------------------------------------------------------
(***************************************************************************)
(* Every step of the one goroutine keeps the invariant.  Each step of     *)
(* AddPivotTable writes under a number nothing else holds (a part number *)
(* count + 1, an rId or a cacheId max + 1), so the links already in place *)
(* are untouched, and the step adds the link its call facts announce.     *)
(***************************************************************************)
LEMMA LinkStep == SerialPackage /\ LinkInv /\ [Next]_vars => LinkInv'
<1> SUFFICES ASSUME SerialPackage, LinkInv, [Next]_vars PROVE LinkInv'
  OBVIOUS
<1>0. SerialInv' /\ PartsKept
  BY SerialStep DEF LinkInv
<1>9. PICK T : Threads = {T}
  BY DEF SerialPackage
<1>1. ASSUME NEW t \in Threads, Reject(t) PROVE LinkInv'
  <2>1. UNCHANGED <<pkgVars, localVars, done>>
    BY <1>1 DEF Reject
  <2> QED
    BY <1>0, <2>1, LinkInvFrame DEF pkgVars, localVars
<1>2. ASSUME NEW t \in Threads, NEW s \in Sheets, Start(t, s) PROVE LinkInv'
  <2>1. UNCHANGED <<pkgVars, cid, done>> /\ pc[t] = "idle" /\ pc'[t] = "cache"
    BY <1>2 DEF Start, TypeOK, LinkInv, SerialInv
  <2>2. \A u \in Threads : u = t /\ pc'[u] = "cache"
    BY <1>9, <2>1
  <2>3. /\ RegistryInv' /\ \A p \in DOMAIN tables' : TableLinked(p)'
        /\ NoLostTable'
    BY <2>1 DEF LinkInv, RegistryInv, TableLinked, Registers, NoLostTable, pkgVars
  <2>4. SheetInv'
    BY <2>1, <2>2 DEF LinkInv, SheetInv, pkgVars
  <2>5. TableRelsInv'
    BY <1>9, <2>1, <2>2 DEF LinkInv, TableRelsInv, pkgVars
  <2>6. \A u \in Threads : CallLinkInv(u)'
    BY <2>2 DEF CallLinkInv
  <2> QED
    BY <1>0, <2>3, <2>4, <2>5, <2>6 DEF LinkInv
<1>3. ASSUME NEW t \in Threads, AddPivotCache(t) PROVE LinkInv'
  <2>1. pcid[t] \notin DOMAIN caches
    <3>1. pcid[t] = countPivotCache + 1
      BY <1>3 DEF AddPivotCache, LinkInv, SerialInv, CallInv
    <3>2. IsFiniteSet(DOMAIN caches) /\ Contiguous(DOMAIN caches)
      BY DEF LinkInv, SerialInv, TypeOK, PackageTypeOK
    <3> QED
      BY <3>1, <3>2, ContiguousExtend DEF countPivotCache
  <2>2. /\ DOMAIN caches' = DOMAIN caches \cup {pcid[t]}
        /\ caches'[pcid[t]] = call[t]
    BY <1>3 DEF AddPivotCache, SaveFile
  <2>3. UNCHANGED <<tables, wbRels, registry, tableRels, sheetRels, contentTypes,
                    tid, pcid, cid, call, done>>
    BY <1>3 DEF AddPivotCache
  <2>4. pc[t] = "cache" /\ pc'[t] = "wbcache" /\ \A u \in Threads : u = t
    BY <1>3, <1>9 DEF AddPivotCache, LinkInv, SerialInv, TypeOK
  <2>5. RegistryInv' /\ NoLostTable'
    BY <2>3 DEF LinkInv, RegistryInv, NoLostTable
  <2>6. ASSUME NEW p \in DOMAIN tables' PROVE TableLinked(p)'
    <3>1. PICK c \in DOMAIN caches :
              /\ Registers(tables[p].cacheId, c)
              /\ p \in DOMAIN tableRels /\ Range(tableRels[p]) = {c}
              /\ caches[c] = tables[p].owner
      BY <2>3 DEF LinkInv, TableLinked
    <3>2. c \in DOMAIN caches' /\ caches'[c] = caches[c]
      BY <1>0, <3>1 DEF PartsKept
    <3> QED
      BY <2>3, <3>1, <3>2 DEF TableLinked, Registers
  <2>7. SheetInv' /\ TableRelsInv'
    BY <2>3, <2>4 DEF LinkInv, SheetInv, TableRelsInv
  <2>8. CallLinkInv(t)'
    BY <2>2, <2>3, <2>4 DEF CallLinkInv
  <2> QED
    BY <1>0, <2>4, <2>5, <2>6, <2>7, <2>8 DEF LinkInv
<1>4. ASSUME NEW t \in Threads, AddWorkbookPivotCache(t) PROVE LinkInv'
  <2> DEFINE rid == NextRId(wbRels)
             id == NextCacheId(registry)
             ne == [cacheId |-> id, rid |-> rid]
  <2>1. /\ wbRels' = AddRels(wbRels, pcid[t])
        /\ registry' = registry \cup {ne}
        /\ cid'[t] = id
        /\ pc[t] = "wbcache" /\ pc'[t] = "tablerels"
        /\ UNCHANGED <<tables, caches, tableRels, sheetRels, contentTypes, tid, pcid, call, done>>
    BY <1>4 DEF AddWorkbookPivotCache, LinkInv, SerialInv, TypeOK
  <2>2. /\ IsRelsFile(wbRels)
        /\ registry \subseteq [cacheId : PartNo, rid : PartNo] /\ IsFiniteSet(registry)
    BY DEF LinkInv, SerialInv, TypeOK, PackageTypeOK
  <2>3. /\ DOMAIN wbRels' = DOMAIN wbRels \cup {rid}
        /\ wbRels'[rid] = pcid[t]
        /\ \A i \in DOMAIN wbRels : wbRels'[i] = wbRels[i]
    <3>1. /\ DOMAIN AddRels(wbRels, pcid[t]) = DOMAIN wbRels \cup {NextRId(wbRels)}
          /\ AddRels(wbRels, pcid[t])[NextRId(wbRels)] = pcid[t]
          /\ \A i \in DOMAIN wbRels : AddRels(wbRels, pcid[t])[i] = wbRels[i]
      BY <2>2, AddRelsFacts
    <3> QED
      BY <2>1, <3>1
  <2>4. \A e \in registry : e.cacheId < id
    BY <2>2, NextCacheIdFresh
  <2>5. \A u \in Threads : u = t
    BY <1>9
  <2>6. ASSUME NEW i, NEW c, Registers(i, c) PROVE Registers(i, c)'
    <3>1. PICK e \in registry : e.cacheId = i /\ wbRels[e.rid] = c
      BY <2>6 DEF Registers
    <3>2. e.rid \in DOMAIN wbRels
      BY DEF LinkInv, RegistryInv
    <3> QED
      BY <2>1, <2>3, <3>1, <3>2 DEF Registers
  <2>7. RegistryInv'
    <3>1. \A e \in registry' : e.rid \in DOMAIN wbRels'
      BY <2>1, <2>3 DEF LinkInv, RegistryInv
    <3>2. \A e1, e2 \in registry' : e1.cacheId = e2.cacheId => e1 = e2
      <4>1. \A e \in registry : e.cacheId \in Int /\ e.cacheId # id
        BY <2>2, <2>4 DEF PartNo
      <4> QED
        BY <2>1, <4>1 DEF LinkInv, RegistryInv
    <3> QED
      BY <3>1, <3>2 DEF RegistryInv
  <2>8. ASSUME NEW p \in DOMAIN tables' PROVE TableLinked(p)'
    <3>1. PICK c \in DOMAIN caches :
              /\ Registers(tables[p].cacheId, c)
              /\ p \in DOMAIN tableRels /\ Range(tableRels[p]) = {c}
              /\ caches[c] = tables[p].owner
      BY <2>1 DEF LinkInv, TableLinked
    <3>2. Registers(tables[p].cacheId, c)'
      BY <2>1, <3>1, <2>6
    <3> QED
      BY <2>1, <3>1, <3>2 DEF TableLinked
  <2>9. SheetInv' /\ TableRelsInv' /\ NoLostTable'
    BY <2>1, <2>5 DEF LinkInv, SheetInv, TableRelsInv, NoLostTable
  <2>10. CallLinkInv(t)'
    <3>1. pcid[t] \in DOMAIN caches /\ caches[pcid[t]] = call[t]
      BY <2>1 DEF LinkInv, CallLinkInv
    <3>2. Registers(cid[t], pcid[t])'
      <4>1. ne \in registry' /\ ne.cacheId = cid'[t] /\ wbRels'[ne.rid] = pcid'[t]
        BY <2>1, <2>3
      <4> QED
        BY <4>1 DEF Registers
    <3> QED
      BY <2>1, <3>1, <3>2 DEF CallLinkInv
  <2> QED
    BY <1>0, <2>5, <2>7, <2>8, <2>9, <2>10 DEF LinkInv
<1>5. ASSUME NEW t \in Threads, AddTableCacheRels(t) PROVE LinkInv'
  <2> DEFINE nr == AddRels(RelsOf(tableRels, tid[t]), pcid[t])
  <2>1. /\ tableRels' = SaveFile(tableRels, tid[t], nr)
        /\ pc[t] = "tablerels" /\ pc'[t] = "table"
        /\ UNCHANGED <<tables, caches, wbRels, registry, sheetRels, contentTypes,
                       tid, pcid, cid, call, done>>
    BY <1>5 DEF AddTableCacheRels, LinkInv, SerialInv, TypeOK
  <2>2. tid[t] \notin DOMAIN tables
    <3>1. tid[t] = countPivotTables + 1
      BY <2>1 DEF LinkInv, SerialInv, CallInv
    <3>2. IsFiniteSet(DOMAIN tables) /\ Contiguous(DOMAIN tables)
      BY DEF LinkInv, SerialInv, TypeOK, PackageTypeOK
    <3> QED
      BY <3>1, <3>2, ContiguousExtend DEF countPivotTables
  <2>3. \A u \in Threads : u = t
    BY <1>9
  <2>4. DOMAIN tableRels \subseteq DOMAIN tables
    <3>1. {u \in Threads : pc[u] = "table"} = {}
      BY <2>1, <2>3
    <3> QED
      BY <3>1 DEF LinkInv, TableRelsInv
  <2>5. tid[t] \notin DOMAIN tableRels
    BY <2>2, <2>4
  <2>6. Range(nr) = {pcid[t]}
    BY <2>5, AddRelsFirst DEF RelsOf
  <2>7. /\ DOMAIN tableRels' = DOMAIN tableRels \cup {tid[t]}
        /\ tableRels'[tid[t]] = nr
        /\ \A p \in DOMAIN tableRels : tableRels'[p] = tableRels[p]
    BY <2>1, <2>5 DEF SaveFile
  <2> HIDE DEF nr
  <2>8. ASSUME NEW p \in DOMAIN tables' PROVE TableLinked(p)'
    <3>1. PICK c \in DOMAIN caches :
              /\ Registers(tables[p].cacheId, c)
              /\ p \in DOMAIN tableRels /\ Range(tableRels[p]) = {c}
              /\ caches[c] = tables[p].owner
      BY <2>1 DEF LinkInv, TableLinked
    <3> QED
      BY <2>1, <2>7, <3>1 DEF TableLinked, Registers
  <2>9. RegistryInv' /\ NoLostTable'
    BY <2>1 DEF LinkInv, RegistryInv, NoLostTable
  <2>10. SheetInv'
    BY <2>1, <2>3 DEF LinkInv, SheetInv
  <2>11. TableRelsInv'
    <3>1. {tid'[u] : u \in {v \in Threads : pc'[v] = "table"}} = {tid[t]}
      BY <2>1, <2>3
    <3> QED
      BY <2>1, <2>4, <2>7, <3>1 DEF TableRelsInv
  <2>12. CallLinkInv(t)'
    BY <2>1, <2>6, <2>7 DEF LinkInv, CallLinkInv, Registers
  <2> QED
    BY <1>0, <2>3, <2>8, <2>9, <2>10, <2>11, <2>12 DEF LinkInv
<1>6. ASSUME NEW t \in Threads, AddPivotTablePart(t) PROVE LinkInv'
  <2> DEFINE nt == [owner |-> call[t], cacheId |-> cid[t]]
  <2>1. /\ tables' = SaveFile(tables, tid[t], nt)
        /\ pc[t] = "table" /\ pc'[t] = "link"
        /\ UNCHANGED <<caches, wbRels, registry, tableRels, sheetRels, contentTypes,
                       tid, pcid, cid, call, done>>
    BY <1>6 DEF AddPivotTablePart, LinkInv, SerialInv, TypeOK
  <2>2. tid[t] \notin DOMAIN tables
    <3>1. tid[t] = countPivotTables + 1
      BY <2>1 DEF LinkInv, SerialInv, CallInv
    <3>2. IsFiniteSet(DOMAIN tables) /\ Contiguous(DOMAIN tables)
      BY DEF LinkInv, SerialInv, TypeOK, PackageTypeOK
    <3> QED
      BY <3>1, <3>2, ContiguousExtend DEF countPivotTables
  <2>3. \A u \in Threads : u = t
    BY <1>9
  <2>4. /\ DOMAIN tables' = DOMAIN tables \cup {tid[t]}
        /\ tables'[tid[t]] = nt
        /\ \A p \in DOMAIN tables : tables'[p] = tables[p]
    BY <2>1, <2>2 DEF SaveFile
  <2> HIDE DEF nt
  <2>5. ASSUME NEW p \in DOMAIN tables' PROVE TableLinked(p)'
    <3>1. CASE p = tid[t]
      <4>1. /\ pcid[t] \in DOMAIN caches /\ caches[pcid[t]] = call[t]
            /\ Registers(cid[t], pcid[t])
            /\ tid[t] \in DOMAIN tableRels /\ Range(tableRels[tid[t]]) = {pcid[t]}
        BY <2>1 DEF LinkInv, CallLinkInv
      <4>2. tables'[p].owner = call[t] /\ tables'[p].cacheId = cid[t]
        BY <2>4, <3>1 DEF nt
      <4> QED
        BY <2>1, <3>1, <4>1, <4>2 DEF TableLinked, Registers
    <3>2. CASE p # tid[t]
      <4>1. p \in DOMAIN tables /\ tables'[p] = tables[p]
        BY <2>4, <3>2
      <4>2. PICK c \in DOMAIN caches :
                /\ Registers(tables[p].cacheId, c)
                /\ p \in DOMAIN tableRels /\ Range(tableRels[p]) = {c}
                /\ caches[c] = tables[p].owner
        BY <4>1 DEF LinkInv, TableLinked
      <4> QED
        BY <2>1, <4>1, <4>2 DEF TableLinked, Registers
    <3> QED
      BY <3>1, <3>2
  <2>6. SheetInv'
    BY <2>1, <2>2, <2>3, <2>4 DEF LinkInv, SheetInv
  <2>7. TableRelsInv'
    <3>1. {tid[u] : u \in {v \in Threads : pc[v] = "table"}} = {tid[t]}
      BY <2>1, <2>3
    <3> QED
      BY <2>1, <2>4, <3>1 DEF LinkInv, TableRelsInv
  <2>8. CallLinkInv(t)'
    <3>1. tid[t] \in DOMAIN tables' /\ tables'[tid[t]] = [owner |-> call[t], cacheId |-> cid[t]]
      BY <2>4 DEF nt
    <3> QED
      BY <2>1, <3>1 DEF LinkInv, CallLinkInv, Registers
  <2>9. RegistryInv'
    BY <2>1 DEF LinkInv, RegistryInv
  <2>10. NoLostTable'
    BY <2>1, <2>4 DEF LinkInv, NoLostTable
  <2> QED
    BY <1>0, <2>3, <2>5, <2>6, <2>7, <2>8, <2>9, <2>10 DEF LinkInv
<1>7. ASSUME NEW t \in Threads, LinkSheet(t) PROVE LinkInv'
  <2> DEFINE h == host[t]
             nr == NextRId(sheetRels[h])
  <2>1. /\ sheetRels' = [sheetRels EXCEPT ![h] = AddRels(sheetRels[h], tid[t])]
        /\ contentTypes' = contentTypes \cup {<<"pivotTable", tid[t]>>, <<"pivotCache", pcid[t]>>}
        /\ done' = done \cup {call[t]}
        /\ pc[t] = "link" /\ pc'[t] = "idle"
        /\ UNCHANGED <<tables, caches, wbRels, registry, tableRels, tid, pcid, cid, call>>
    BY <1>7 DEF LinkSheet, LinkInv, SerialInv, TypeOK
  <2>2. h \in Sheets /\ IsRelsFile(sheetRels[h]) /\ DOMAIN sheetRels = Sheets
    BY <2>1 DEF LinkInv, SerialInv, TypeOK, CallTypeOK, PackageTypeOK
  <2>3. /\ DOMAIN sheetRels'[h] = DOMAIN sheetRels[h] \cup {nr}
        /\ nr \notin DOMAIN sheetRels[h]
        /\ sheetRels'[h][nr] = tid[t]
        /\ \A r \in DOMAIN sheetRels[h] : sheetRels'[h][r] = sheetRels[h][r]
        /\ \A s \in Sheets \ {h} : sheetRels'[s] = sheetRels[s]
    <3>1. /\ DOMAIN AddRels(sheetRels[h], tid[t]) = DOMAIN sheetRels[h] \cup {nr}
          /\ nr \notin DOMAIN sheetRels[h]
          /\ AddRels(sheetRels[h], tid[t])[nr] = tid[t]
          /\ \A r \in DOMAIN sheetRels[h] : AddRels(sheetRels[h], tid[t])[r] = sheetRels[h][r]
      BY <2>2, AddRelsFacts
    <3>2. sheetRels'[h] = AddRels(sheetRels[h], tid[t]) /\ \A s \in Sheets \ {h} : sheetRels'[s] = sheetRels[s]
      BY <2>1, <2>2
    <3> QED
      BY <3>1, <3>2
  <2> HIDE DEF nr
  <2>4. \A s \in Sheets : \A r \in DOMAIN sheetRels'[s] :
            \/ s = h /\ r = nr /\ sheetRels'[s][r] = tid[t]
            \/ r \in DOMAIN sheetRels[s] /\ sheetRels'[s][r] = sheetRels[s][r]
    BY <2>3
  <2>5. tid[t] \in DOMAIN tables /\ tables[tid[t]].owner = call[t]
    <3>1. CallLinkInv(t)
      BY DEF LinkInv
    <3> QED
      BY <2>1, <3>1 DEF CallLinkInv
  <2>6. \A s \in Sheets : \A r \in DOMAIN sheetRels[s] :
            sheetRels[s][r] \in DOMAIN tables /\ sheetRels[s][r] # tid[t]
    <3>1. \A s \in Sheets : \A r \in DOMAIN sheetRels[s] :
              /\ sheetRels[s][r] \in DOMAIN tables
              /\ \A u \in Threads : pc[u] = "link" => sheetRels[s][r] # tid[u]
      BY DEF LinkInv, SheetInv
    <3>2. pc[t] = "link"
      BY <2>1
    <3> QED
      BY <3>1, <3>2
  <2>7. \A u \in Threads : u = t
    BY <1>9
  <2>8. SheetInv'
    <3>1. \A s \in Sheets : \A r \in DOMAIN sheetRels'[s] :
              /\ sheetRels'[s][r] \in DOMAIN tables'
              /\ \A u \in Threads : pc'[u] = "link" => sheetRels'[s][r] # tid'[u]
      BY <2>1, <2>4, <2>5, <2>6, <2>7
    <3>2. ASSUME NEW s1 \in Sheets, NEW s2 \in Sheets,
                 NEW r1 \in DOMAIN sheetRels'[s1], NEW r2 \in DOMAIN sheetRels'[s2],
                 sheetRels'[s1][r1] = sheetRels'[s2][r2]
          PROVE  s1 = s2 /\ r1 = r2
      <4>1. CASE s1 = h /\ r1 = nr /\ s2 = h /\ r2 = nr
        BY <4>1
      <4>2. CASE r1 \in DOMAIN sheetRels[s1] /\ sheetRels'[s1][r1] = sheetRels[s1][r1]
                 /\ r2 \in DOMAIN sheetRels[s2] /\ sheetRels'[s2][r2] = sheetRels[s2][r2]
        <5>1. sheetRels[s1][r1] = sheetRels[s2][r2]
          BY <3>2, <4>2
        <5>2. \A x1, x2 \in Sheets : \A y1 \in DOMAIN sheetRels[x1], y2 \in DOMAIN sheetRels[x2] :
                  sheetRels[x1][y1] = sheetRels[x2][y2] => x1 = x2 /\ y1 = y2
          BY DEF LinkInv, SheetInv
        <5> QED
          BY <4>2, <5>1, <5>2
      <4>3. CASE s1 = h /\ r1 = nr /\ sheetRels'[s1][r1] = tid[t]
                 /\ r2 \in DOMAIN sheetRels[s2] /\ sheetRels'[s2][r2] = sheetRels[s2][r2]
        BY <3>2, <4>3, <2>6
      <4>4. CASE r1 \in DOMAIN sheetRels[s1] /\ sheetRels'[s1][r1] = sheetRels[s1][r1]
                 /\ s2 = h /\ r2 = nr /\ sheetRels'[s2][r2] = tid[t]
        BY <3>2, <4>4, <2>6
      <4> QED
        BY <2>4, <4>1, <4>2, <4>3, <4>4
    <3> QED
      BY <3>1, <3>2 DEF SheetInv
  <2>9. TableRelsInv'
    <3>1. {u \in Threads : pc[u] = "table"} = {} /\ {u \in Threads : pc'[u] = "table"} = {}
      BY <2>1, <2>7
    <3> QED
      BY <2>1, <3>1 DEF LinkInv, TableRelsInv
  <2>10. CallLinkInv(t)'
    BY <2>1 DEF CallLinkInv
  <2>11. RegistryInv' /\ \A p \in DOMAIN tables' : TableLinked(p)'
    BY <2>1 DEF LinkInv, RegistryInv, TableLinked, Registers
  <2>12. NoLostTable'
    <3> SUFFICES ASSUME NEW k \in done'
                 PROVE  \E p \in DOMAIN tables' :
                            /\ tables'[p].owner = k
                            /\ \E s \in Sheets : p \in Range(sheetRels'[s])
                            /\ <<"pivotTable", p>> \in contentTypes'
      BY DEF NoLostTable
    <3>1. CASE k = call[t]
      <4>1. tid[t] \in Range(sheetRels'[h])
        BY <2>3 DEF Range
      <4> QED
        BY <2>1, <2>2, <2>5, <3>1, <4>1
    <3>2. CASE k \in done
      <4>1. PICK p \in DOMAIN tables :
                /\ tables[p].owner = k
                /\ \E s \in Sheets : p \in Range(sheetRels[s])
                /\ <<"pivotTable", p>> \in contentTypes
        BY <3>2 DEF LinkInv, NoLostTable
      <4>2. PICK s \in Sheets : p \in Range(sheetRels[s])
        BY <4>1
      <4>3. p \in Range(sheetRels'[s])
        <5>1. PICK r \in DOMAIN sheetRels[s] : sheetRels[s][r] = p
          BY <4>2 DEF Range
        <5>2. r \in DOMAIN sheetRels'[s] /\ sheetRels'[s][r] = p
          BY <2>3, <5>1
        <5> QED
          BY <5>2 DEF Range
      <4> QED
        BY <2>1, <4>1, <4>3
    <3> QED
      BY <2>1, <3>1, <3>2
  <2> QED
    BY <1>0, <2>7, <2>8, <2>9, <2>10, <2>11, <2>12 DEF LinkInv
<1>8. CASE UNCHANGED vars
  BY <1>0, <1>8, LinkInvFrame DEF vars, pkgVars, localVars
<1> QED
  BY <1>1, <1>2, <1>3, <1>4, <1>5, <1>6, <1>7, <1>8 DEF Next

-----------------------------------------------------------------------------
(***************************************************************************)
(* Link integrity for serial calls: when one goroutine calls              *)
(* AddPivotTable on a package with its parts numbered without holes and   *)
(* distinct cacheIds, every pivot table part always names a cacheId       *)
(* registered once in workbook.xml, the registry and the table's own      *)
(* relationship file lead to the same cache part, built with the table,  *)
(* and at most one worksheet relationship targets it.                      *)
(***************************************************************************)
THEOREM SerialLinkIntegrity ==
    SerialPackage /\ DistinctCacheIds => (Spec => []LinkIntegrity)
<1> SUFFICES ASSUME SerialPackage, DistinctCacheIds PROVE Spec => []LinkIntegrity
  OBVIOUS
<1>1. Init => LinkInv
  BY LinkInit
<1>2. LinkInv /\ [Next]_vars => LinkInv'
  BY LinkStep
<1>3. LinkInv => LinkIntegrity
  BY LinkInvIntegrity
<1> QED
  BY <1>1, <1>2, <1>3, PTL DEF Spec

(***************************************************************************)
(* AddPivotTable's promise, for serial calls on such a package: every     *)
(* call that returned nil has left a table part built from its options,   *)
(* linked from a worksheet and registered as a content type.  Later calls *)
(* only add relationships and content types, so nothing is lost.          *)
(***************************************************************************)
THEOREM SerialNoLostTable ==
    SerialPackage /\ DistinctCacheIds => (Spec => []NoLostTable)
<1> SUFFICES ASSUME SerialPackage, DistinctCacheIds PROVE Spec => []NoLostTable
  OBVIOUS
<1>1. Init => LinkInv
  BY LinkInit
<1>2. LinkInv /\ [Next]_vars => LinkInv'
  BY LinkStep
<1>3. LinkInv => NoLostTable
  BY LinkInvIntegrity
<1> QED
  BY <1>1, <1>2, <1>3, PTL DEF Spec

(***************************************************************************)
(* For serial calls on a package excelize can have written, the registry, *)
(* the relationship files and the partial work of the call in progress   *)
(* stay consistent after every step of AddPivotTable (the inductive       *)
(* invariant the two theorems above rest on, for every package size).    *)
(***************************************************************************)
THEOREM SerialLinkInv ==
    SerialPackage /\ DistinctCacheIds => (Spec => []LinkInv)
<1> SUFFICES ASSUME SerialPackage, DistinctCacheIds PROVE Spec => []LinkInv
  OBVIOUS
<1>1. Init => LinkInv
  BY LinkInit
<1>2. LinkInv /\ [Next]_vars => LinkInv'
  BY LinkStep
<1> QED
  BY <1>1, <1>2, PTL DEF Spec

=============================================================================
