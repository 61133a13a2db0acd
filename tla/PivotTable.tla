----------------------------- MODULE PivotTable -----------------------------
(***************************************************************************)
(* The AddPivotTable pipeline of excelize (src/pivotTable.go) acting on    *)
(* the spreadsheet package: the pivotTableN.xml and                        *)
(* pivotCacheDefinitionN.xml parts, the relationship files that link       *)
(* worksheet -> table -> cache and workbook -> cache, the workbook's       *)
(* pivotCaches registry and the content-type overrides.                    *)
(*                                                                         *)
(* One call of AddPivotTable is a sequence of steps of one thread; each    *)
(* step is one of the state-changing calls the function makes, in the     *)
(* order it makes them.  Several threads may call AddPivotTable on the     *)
(* same File: the code takes no lock around "count parts, then write part  *)
(* count+1".  The content of a part is abstracted to the number of the     *)
(* call whose options built it (0 for parts that were in the package       *)
(* before the first call); the field lists inside the parts are the       *)
(* subject of module PivotFields.                                          *)
(***************************************************************************)
EXTENDS Integers, FiniteSets, Functions, FiniteSetsExt

CONSTANTS
    Threads,        \* goroutines calling AddPivotTable on the same File
    Sheets,         \* worksheets that can host a pivot table
    Invalid,        \* stands for options that fail parseFormatPivotTableSet
    MaxCalls,       \* bound on the number of AddPivotTable calls
    InitTables,     \* numbers N of the pivotTableN.xml parts already in the package
    InitCaches,     \* numbers N of the pivotCacheDefinitionN.xml parts already there
    InitCacheOf,    \* the cache part each pre-existing table is linked to
    InitCacheIdOf,  \* the workbook registry cacheId of each pre-existing cache
    InitHostOf      \* the worksheet each pre-existing table is placed on

PartNo == Nat \ {0}

ASSUME ConstantsAssumption ==
    /\ MaxCalls \in Nat
    /\ Invalid \notin Sheets
    /\ InitTables \subseteq PartNo /\ IsFiniteSet(InitTables)
    /\ InitCaches \subseteq PartNo /\ IsFiniteSet(InitCaches)
    /\ InitCacheOf \in [InitTables -> InitCaches]
    /\ InitCacheIdOf \in [InitCaches -> PartNo]
    /\ InitHostOf \in [InitTables -> Sheets]

VARIABLES
    tables,       \* part number -> [owner, cacheId]: xl/pivotTables/pivotTableN.xml
    caches,       \* part number -> owner: xl/pivotCache/pivotCacheDefinitionN.xml
    wbRels,       \* rId -> cache part number: xl/_rels/workbook.xml.rels
    registry,     \* set of [cacheId, rid]: <pivotCaches> of xl/workbook.xml
    tableRels,    \* part number -> (rId -> cache part): xl/pivotTables/_rels/*.rels
    sheetRels,    \* sheet -> (rId -> table part): xl/worksheets/_rels/*.rels
    contentTypes, \* set of <<kind, part number>>: overrides of [Content_Types].xml
    pc,           \* thread -> the step of AddPivotTable it executes next
    tid,          \* thread -> its local pivotTableID
    pcid,         \* thread -> its local pivotCacheID
    cid,          \* thread -> its local cacheID (workbook registry)
    host,         \* thread -> the sheet of its PivotTableRange
    call,         \* thread -> the number of the call it is executing
    calls,        \* number of calls started so far
    done          \* set of calls that returned nil

pkgVars == <<tables, caches, wbRels, registry, tableRels, sheetRels, contentTypes>>
localVars == <<pc, tid, pcid, cid, host, call>>
vars == <<pkgVars, localVars, calls, done>>

Steps == {"idle", "cache", "wbcache", "tablerels", "table", "link"}

(* A relationship file: rId -> target part number. *)
IsRels(r) == DOMAIN r \subseteq PartNo /\ \A i \in DOMAIN r : r[i] \in PartNo

(***************************************************************************)
(* addRels: append a relationship whose rId is one more than the largest  *)
(* rId of the file; targets are never de-duplicated.                       *)
(***************************************************************************)
NextRId(rels) == Max(DOMAIN rels \cup {0}) + 1
AddRels(rels, target) ==
    [i \in DOMAIN rels \cup {NextRId(rels)} |-> IF i = NextRId(rels) THEN target ELSE rels[i]]

(* The relationships of a file that does not exist yet are empty. *)
RelsOf(files, name) == IF name \in DOMAIN files THEN files[name] ELSE <<>>

(* saveFileList: store a part, replacing one of the same name. *)
SaveFile(parts, n, content) ==
    [p \in DOMAIN parts \cup {n} |-> IF p = n THEN content ELSE parts[p]]

(* countPivotTables / countPivotCache: the number of matching parts. *)
countPivotTables == Cardinality(DOMAIN tables)
countPivotCache == Cardinality(DOMAIN caches)

(* Mutant: the cacheId is counted, like the part numbers, not max-based. *)
NextCacheIdByCount(reg) == Cardinality(reg) + 1

(***************************************************************************)
(* addWorkbookPivotCache: the new cacheId is the largest of 1 and the     *)
(* registered cacheIds, plus one.                                          *)
(***************************************************************************)
NextCacheId(reg) == Max({1} \cup {e.cacheId : e \in reg}) + 1

-----------------------------------------------------------------------------
Init ==
    /\ tables = [t \in InitTables |-> [owner |-> 0, cacheId |-> InitCacheIdOf[InitCacheOf[t]]]]
    /\ caches = [c \in InitCaches |-> 0]
    /\ wbRels = [c \in InitCaches |-> c]
    /\ registry = {[cacheId |-> InitCacheIdOf[c], rid |-> c] : c \in InitCaches}
    /\ tableRels = [t \in InitTables |-> [i \in {1} |-> InitCacheOf[t]]]
    /\ sheetRels = [s \in Sheets |-> [t \in {u \in InitTables : InitHostOf[u] = s} |-> t]]
    /\ contentTypes = {<<"pivotTable", t>> : t \in InitTables}
                        \cup {<<"pivotCache", c>> : c \in InitCaches}
    /\ pc = [t \in Threads |-> "idle"]
    /\ tid = [t \in Threads |-> 0]
    /\ pcid = [t \in Threads |-> 0]
    /\ cid = [t \in Threads |-> 0]
    /\ host = [t \in Threads |-> Invalid]
    /\ call = [t \in Threads |-> 0]
    /\ calls = 0
    /\ done = {}

(* parseFormatPivotTableSet fails: AddPivotTable returns the error and    *)
(* the package is left as it was.                                          *)
Reject(t) ==
    /\ pc[t] = "idle"
    /\ calls < MaxCalls
    /\ calls' = calls + 1
    /\ UNCHANGED <<pkgVars, localVars, done>>

(* Mutant: pivotTableID is the count, without the + 1. *)
StartCountOnly(t, s) ==
    /\ pc[t] = "idle"
    /\ calls < MaxCalls
    /\ calls' = calls + 1
    /\ call' = [call EXCEPT ![t] = calls + 1]
    /\ host' = [host EXCEPT ![t] = s]
    /\ tid' = [tid EXCEPT ![t] = countPivotTables]
    /\ pcid' = [pcid EXCEPT ![t] = countPivotCache + 1]
    /\ pc' = [pc EXCEPT ![t] = "cache"]
    /\ UNCHANGED <<pkgVars, cid, done>>

(* Validation succeeds; pivotTableID and pivotCacheID are count + 1.      *)
Start(t, s) ==
    /\ pc[t] = "idle"
    /\ calls < MaxCalls
    /\ calls' = calls + 1
    /\ call' = [call EXCEPT ![t] = calls + 1]
    /\ host' = [host EXCEPT ![t] = s]
    /\ tid' = [tid EXCEPT ![t] = countPivotTables + 1]
    /\ pcid' = [pcid EXCEPT ![t] = countPivotCache + 1]
    /\ pc' = [pc EXCEPT ![t] = "cache"]
    /\ UNCHANGED <<pkgVars, cid, done>>

(* addPivotCache: build the cache definition and save it. *)
AddPivotCache(t) ==
    /\ pc[t] = "cache"
    /\ caches' = SaveFile(caches, pcid[t], call[t])
    /\ pc' = [pc EXCEPT ![t] = "wbcache"]
    /\ UNCHANGED <<wbRels, registry, tableRels, sheetRels, contentTypes, tables,
                   tid, pcid, cid, host, call, calls, done>>

(* Link the cache from the workbook, then register it in workbook.xml. *)
AddWorkbookPivotCache(t) ==
    LET rid == NextRId(wbRels)
        id == NextCacheId(registry)
    IN /\ pc[t] = "wbcache"
       /\ wbRels' = AddRels(wbRels, pcid[t])
       /\ registry' = registry \cup {[cacheId |-> id, rid |-> rid]}
       /\ cid' = [cid EXCEPT ![t] = id]
       /\ pc' = [pc EXCEPT ![t] = "tablerels"]
       /\ UNCHANGED <<tables, caches, tableRels, sheetRels, contentTypes,
                      tid, pcid, host, call, calls, done>>

(* Link the cache from the table's relationship file (its rId is unused). *)
AddTableCacheRels(t) ==
    /\ pc[t] = "tablerels"
    /\ tableRels' = SaveFile(tableRels, tid[t], AddRels(RelsOf(tableRels, tid[t]), pcid[t]))
    /\ pc' = [pc EXCEPT ![t] = "table"]
    /\ UNCHANGED <<tables, caches, wbRels, registry, sheetRels, contentTypes,
                   tid, pcid, cid, host, call, calls, done>>

(* addPivotTable: build the table definition, naming cacheID, and save it. *)
AddPivotTablePart(t) ==
    /\ pc[t] = "table"
    /\ tables' = SaveFile(tables, tid[t], [owner |-> call[t], cacheId |-> cid[t]])
    /\ pc' = [pc EXCEPT ![t] = "link"]
    /\ UNCHANGED <<caches, wbRels, registry, tableRels, sheetRels, contentTypes,
                   tid, pcid, cid, host, call, calls, done>>

(* Mutant: the sheet relationship targets the pivotCacheID numbered part. *)
LinkSheetWrongId(t) ==
    /\ pc[t] = "link"
    /\ sheetRels' = [sheetRels EXCEPT ![host[t]] = AddRels(@, pcid[t])]
    /\ contentTypes' = contentTypes \cup {<<"pivotTable", tid[t]>>, <<"pivotCache", pcid[t]>>}
    /\ done' = done \cup {call[t]}
    /\ pc' = [pc EXCEPT ![t] = "idle"]
    /\ UNCHANGED <<tables, caches, wbRels, registry, tableRels,
                   tid, pcid, cid, host, call, calls>>

(* Mutant: the content type of the table is registered under a wrong tag. *)
LinkSheetWrongTag(t) ==
    /\ pc[t] = "link"
    /\ sheetRels' = [sheetRels EXCEPT ![host[t]] = AddRels(@, tid[t])]
    /\ contentTypes' = contentTypes \cup {<<"pivotTables", tid[t]>>, <<"pivotCache", pcid[t]>>}
    /\ done' = done \cup {call[t]}
    /\ pc' = [pc EXCEPT ![t] = "idle"]
    /\ UNCHANGED <<tables, caches, wbRels, registry, tableRels,
                   tid, pcid, cid, host, call, calls>>

(* Mutant: the last step returns an error, the call ends without success. *)
LinkSheetFails(t) ==
    /\ pc[t] = "link"
    /\ sheetRels' = [sheetRels EXCEPT ![host[t]] = AddRels(@, tid[t])]
    /\ contentTypes' = contentTypes \cup {<<"pivotTable", tid[t]>>, <<"pivotCache", pcid[t]>>}
    /\ pc' = [pc EXCEPT ![t] = "idle"]
    /\ UNCHANGED <<tables, caches, wbRels, registry, tableRels,
                   tid, pcid, cid, host, call, calls, done>>

(* Link the table from its sheet, register both content types, return nil. *)
LinkSheet(t) ==
    /\ pc[t] = "link"
    /\ sheetRels' = [sheetRels EXCEPT ![host[t]] = AddRels(@, tid[t])]
    /\ contentTypes' = contentTypes \cup {<<"pivotTable", tid[t]>>, <<"pivotCache", pcid[t]>>}
    /\ done' = done \cup {call[t]}
    /\ pc' = [pc EXCEPT ![t] = "idle"]
    /\ UNCHANGED <<tables, caches, wbRels, registry, tableRels,
                   tid, pcid, cid, host, call, calls>>

Next ==
    \E t \in Threads :
        \/ Reject(t)
        \/ \E s \in Sheets : Start(t, s)
        \/ AddPivotCache(t)
        \/ AddWorkbookPivotCache(t)
        \/ AddTableCacheRels(t)
        \/ AddPivotTablePart(t)
        \/ LinkSheet(t)

(* The steps of a call that has passed validation. *)
CallSteps(t) ==
    \/ AddPivotCache(t)
    \/ AddWorkbookPivotCache(t)
    \/ AddTableCacheRels(t)
    \/ AddPivotTablePart(t)
    \/ LinkSheet(t)

(***************************************************************************)
(* Fairness: AddPivotTable is a synchronous call that takes no lock and   *)
(* waits on nothing once validation has passed, so the goroutine running  *)
(* it, scheduled by the Go runtime, keeps taking its next step.  Whether  *)
(* a caller starts a call at all is its own choice: Start and Reject get  *)
(* no fairness.                                                            *)
(***************************************************************************)
Fairness == \A t \in Threads : WF_vars(CallSteps(t))

Spec == Init /\ [][Next]_vars /\ Fairness

-----------------------------------------------------------------------------
(***************************************************************************)
(* Every call that has passed validation returns nil: the call numbered n *)
(* that a thread is running is eventually among the completed calls,      *)
(* whatever the other threads do meanwhile (AddPivotTable, from           *)
(* addPivotCache to the content types, has no exit after Start).          *)
(***************************************************************************)
CallsReturn ==
    \A n \in 1..MaxCalls :
        (\E t \in Threads : pc[t] # "idle" /\ call[t] = n) ~> n \in done

(* A relationship file: finitely many rIds, each naming a part. *)
IsRelsFile(r) == IsRels(r) /\ IsFiniteSet(DOMAIN r)

(* The parts and relationship files of the package. *)
PackageTypeOK ==
    /\ DOMAIN tables \subseteq PartNo /\ IsFiniteSet(DOMAIN tables)
    /\ \A p \in DOMAIN tables : tables[p] \in [owner : 0..MaxCalls, cacheId : PartNo]
    /\ DOMAIN caches \subseteq PartNo /\ IsFiniteSet(DOMAIN caches)
    /\ \A c \in DOMAIN caches : caches[c] \in 0..MaxCalls
    /\ IsRelsFile(wbRels)
    /\ registry \subseteq [cacheId : PartNo, rid : PartNo] /\ IsFiniteSet(registry)
    /\ DOMAIN tableRels \subseteq PartNo
    /\ \A p \in DOMAIN tableRels : IsRelsFile(tableRels[p])
    /\ DOMAIN sheetRels = Sheets
    /\ \A s \in Sheets : IsRelsFile(sheetRels[s])
    /\ contentTypes \subseteq {"pivotTable", "pivotCache"} \X PartNo

(* The locals of a call in progress hold the values it has computed. *)
CallTypeOK(t) ==
    /\ pc[t] # "idle" =>
           /\ tid[t] \in PartNo /\ pcid[t] \in PartNo
           /\ host[t] \in Sheets /\ call[t] \in 1..MaxCalls
    /\ pc[t] \in {"tablerels", "table", "link"} => cid[t] \in PartNo

TypeOK ==
    /\ PackageTypeOK
    /\ pc \in [Threads -> Steps]
    /\ tid \in [Threads -> Nat] /\ pcid \in [Threads -> Nat] /\ cid \in [Threads -> Nat]
    /\ host \in [Threads -> Sheets \cup {Invalid}]
    /\ call \in [Threads -> 0..MaxCalls]
    /\ \A t \in Threads : CallTypeOK(t)
    /\ calls \in 0..MaxCalls
    /\ done \subseteq 1..MaxCalls

(* The cache parts that table part p reaches through its cacheId, the     *)
(* workbook registry and the workbook relationships.                      *)
RegistryEntries(p) == {e \in registry : e.cacheId = tables[p].cacheId}
RegisteredCaches(p) == {wbRels[e.rid] : e \in {e \in RegistryEntries(p) : e.rid \in DOMAIN wbRels}}

(* The worksheet relationships that target table part p. *)
SheetLinks(p) ==
    {l \in UNION {{s} \X DOMAIN sheetRels[s] : s \in Sheets} : sheetRels[l[1]][l[2]] = p}

(***************************************************************************)
(* Link integrity of the three ID spaces: every pivot table part names a  *)
(* cacheId registered exactly once in workbook.xml; the registry entry    *)
(* and the table's own relationship file lead to the same single cache    *)
(* part; that cache part was built from the same options as the table;    *)
(* and at most one worksheet relationship targets the table.  Broken when *)
(* pivotTableID, pivotCacheID or cacheID is allocated onto a number       *)
(* already in use (AddPivotTable, addWorkbookPivotCache).                  *)
(***************************************************************************)
LinkIntegrity ==
    \A p \in DOMAIN tables :
        /\ Cardinality(RegistryEntries(p)) = 1
        /\ \E c \in DOMAIN caches :
               /\ RegisteredCaches(p) = {c}
               /\ Range(RelsOf(tableRels, p)) = {c}
               /\ caches[c] = tables[p].owner
        /\ Cardinality(SheetLinks(p)) <= 1

(***************************************************************************)
(* Every call of AddPivotTable that returned nil has left a table part    *)
(* built from its options, linked from a worksheet and registered as a    *)
(* content type (AddPivotTable's promise to its caller).                   *)
(***************************************************************************)
NoLostTable ==
    \A k \in done :
        \E p \in DOMAIN tables :
            /\ tables[p].owner = k
            /\ \E s \in Sheets : p \in Range(sheetRels[s])
            /\ <<"pivotTable", p>> \in contentTypes

(* A step leaves every existing table and cache part in place, unchanged. *)
PartsKept ==
    /\ \A p \in DOMAIN tables : p \in DOMAIN tables' /\ tables'[p] = tables[p]
    /\ \A c \in DOMAIN caches : c \in DOMAIN caches' /\ caches'[c] = caches[c]

(***************************************************************************)
(* No step replaces or removes a pivot table or pivot cache part that is  *)
(* already in the package: saveFileList in addPivotCache / addPivotTable  *)
(* only ever writes a fresh part number.                                   *)
(***************************************************************************)
NoOverwrite == [][PartsKept]_vars

=============================================================================
