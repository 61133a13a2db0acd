------------------------- MODULE PivotTable_refinement -------------------------
(***************************************************************************)
(* The AddPivotTable pipeline of module PivotTable implements what the    *)
(* call promises (module PivotTableAPI), for one goroutine on a package   *)
(* excelize can have written.  The refinement mapping reads the workbook *)
(* the way a reader of the file does: a pivot table shows when a          *)
(* worksheet relationship targets its part; its sheet is that worksheet,  *)
(* its call the owner of the part, and the calls that feed it the owners *)
(* of the cache parts reached through its cacheId and the workbook        *)
(* registry and through its own relationship file.  A call in progress    *)
(* is pending for the sheet of its PivotTableRange.                       *)
(***************************************************************************)
EXTENDS PivotTable_link_proofs, TLAPS

(* The parts and relationship files of the package, as one value: the    *)
(* refinement mapping reads the workbook from it.                          *)
Package == [tables |-> tables, caches |-> caches, wbRels |-> wbRels, registry |-> registry,
            tableRels |-> tableRels, sheetRels |-> sheetRels]

(* The cache parts table part p of package k reaches through its cacheId *)
(* and the workbook registry, and through its own relationship file.     *)
CachesOf(k, p) ==
    {k.wbRels[e.rid] : e \in {e \in k.registry : e.cacheId = k.tables[p].cacheId
                                                /\ e.rid \in DOMAIN k.wbRels}}
    \cup (IF p \in DOMAIN k.tableRels THEN Range(k.tableRels[p]) ELSE {})

(* The owners of those cache parts; -1 for a part that does not exist. *)
FedIn(k, p) == {IF c \in DOMAIN k.caches THEN k.caches[c] ELSE -1 : c \in CachesOf(k, p)}

(* The pivot table worksheet s shows through a relationship to part p. *)
ShowsIn(k, s, p) ==
    IF p \in DOMAIN k.tables
    THEN [call |-> k.tables[p].owner, sheet |-> s, sources |-> FedIn(k, p)]
    ELSE [call |-> -1, sheet |-> s, sources |-> {}]

(* The worksheet relationships of package k, as <<sheet, rId>>. *)
HostedIn(k) == UNION {{s} \X DOMAIN k.sheetRels[s] : s \in Sheets}

(* The part a worksheet relationship targets. *)
Target(k, l) == k.sheetRels[l[1]][l[2]]

ShownIn(k) == {ShowsIn(k, l[1], Target(k, l)) : l \in HostedIn(k)}

Shown == ShownIn(Package)

(* The calls in progress, each with the sheet it was accepted for. *)
BusyIn(p) == {t \in Threads : p[t] # "idle"}
AcceptedIn(p, c, h) == [n \in {c[t] : t \in BusyIn(p)} |-> h[CHOOSE t \in BusyIn(p) : c[t] = n]]
Accepted == AcceptedIn(pc, call, host)

(* The tables of the file before the first call. *)
InitShown == {[call |-> 0, sheet |-> InitHostOf[t], sources |-> {0}] : t \in InitTables}

API == INSTANCE PivotTableAPI WITH pending <- Accepted, pivots <- Shown, InitPivots <- InitShown

(***************************************************************************)
(* AddPivotTable keeps its promise: a rejected call changes no table the  *)
(* workbook shows; an accepted call shows nothing until its last step,    *)
(* which makes exactly one table appear, on the sheet of its range, fed   *)
(* by the cache the same call built and by no other.                      *)
(***************************************************************************)
APISafety == API!Safety


-----------------------------------------------------------------------------
(* The link facts of LinkInv that the mapping reads, stated of a package *)
(* value so that they can be used of the state before and after a step.  *)
Linked(k) ==
    /\ \A e \in k.registry : e.rid \in DOMAIN k.wbRels
    /\ \A e1, e2 \in k.registry : e1.cacheId = e2.cacheId => e1 = e2
    /\ \A p \in DOMAIN k.tables :
           \E c \in DOMAIN k.caches :
               /\ \E e \in k.registry : e.cacheId = k.tables[p].cacheId /\ k.wbRels[e.rid] = c
               /\ p \in DOMAIN k.tableRels /\ Range(k.tableRels[p]) = {c}
               /\ k.caches[c] = k.tables[p].owner
    /\ \A s \in Sheets : \A r \in DOMAIN k.sheetRels[s] : k.sheetRels[s][r] \in DOMAIN k.tables

(* The tables a well-linked package shows: each fed by its own call. *)
PivotsIn(k) == {API!Pivot(k.tables[Target(k, l)].owner, l[1]) : l \in HostedIn(k)}

LEMMA HostedFacts ==
    ASSUME NEW k, NEW l \in HostedIn(k)
    PROVE  /\ l = <<l[1], l[2]>>
           /\ l[1] \in Sheets /\ l[2] \in DOMAIN k.sheetRels[l[1]]
BY DEF HostedIn

(* In a well-linked package a table part is fed by its own call only. *)
LEMMA FedLinked ==
    ASSUME NEW k, Linked(k), NEW p \in DOMAIN k.tables
    PROVE  FedIn(k, p) = {k.tables[p].owner}
<1>1. PICK c \in DOMAIN k.caches :
          /\ \E e \in k.registry : e.cacheId = k.tables[p].cacheId /\ k.wbRels[e.rid] = c
          /\ p \in DOMAIN k.tableRels /\ Range(k.tableRels[p]) = {c}
          /\ k.caches[c] = k.tables[p].owner
  BY DEF Linked
<1>2. PICK e \in k.registry : e.cacheId = k.tables[p].cacheId /\ k.wbRels[e.rid] = c
  BY <1>1
<1>3. {x \in k.registry : x.cacheId = k.tables[p].cacheId /\ x.rid \in DOMAIN k.wbRels} = {e}
  BY <1>2 DEF Linked
<1>4. CachesOf(k, p) = {c}
  BY <1>1, <1>2, <1>3 DEF CachesOf
<1> QED
  BY <1>1, <1>4 DEF FedIn

(* What a well-linked package shows is what PivotsIn says. *)
LEMMA ShownLinked ==
    ASSUME NEW k, Linked(k)
    PROVE  ShownIn(k) = PivotsIn(k)
<1>1. ASSUME NEW l \in HostedIn(k)
      PROVE  ShowsIn(k, l[1], Target(k, l)) = API!Pivot(k.tables[Target(k, l)].owner, l[1])
  <2>1. Target(k, l) \in DOMAIN k.tables
    BY HostedFacts DEF Linked, Target
  <2>2. FedIn(k, Target(k, l)) = {k.tables[Target(k, l)].owner}
    BY <2>1, FedLinked
  <2> QED
    BY <2>1, <2>2 DEF ShowsIn, API!Pivot
<1> QED
  BY <1>1 DEF ShownIn, PivotsIn

(* A step that keeps the worksheet relationships and the table parts they *)
(* target keeps the tables shown.                                          *)
LEMMA PivotsFrame ==
    ASSUME NEW k1, NEW k2, k2.sheetRels = k1.sheetRels,
           \A l \in HostedIn(k1) : Target(k1, l) \in DOMAIN k1.tables,
           \A p \in DOMAIN k1.tables : k2.tables[p] = k1.tables[p]
    PROVE  PivotsIn(k2) = PivotsIn(k1)
<1>1. HostedIn(k2) = HostedIn(k1)
  BY DEF HostedIn
<1>2. \A l \in HostedIn(k1) : Target(k2, l) = Target(k1, l)
  BY DEF Target
<1> QED
  BY <1>1, <1>2 DEF PivotsIn

(* Linking table part x from worksheet h adds the table x to what sheet h *)
(* shows and leaves the rest.                                              *)
LEMMA PivotsLink ==
    ASSUME NEW k1, NEW k2, NEW h \in Sheets, NEW x,
           DOMAIN k1.sheetRels = Sheets, IsRelsFile(k1.sheetRels[h]),
           k2.tables = k1.tables,
           k2.sheetRels = [k1.sheetRels EXCEPT ![h] = AddRels(k1.sheetRels[h], x)]
    PROVE  PivotsIn(k2) = PivotsIn(k1) \cup {API!Pivot(k1.tables[x].owner, h)}
<1> DEFINE r == k1.sheetRels[h]
           nr == NextRId(r)
<1>1. /\ DOMAIN AddRels(r, x) = DOMAIN r \cup {nr}
      /\ AddRels(r, x)[nr] = x
      /\ \A i \in DOMAIN r : AddRels(r, x)[i] = r[i]
      /\ nr \notin DOMAIN r
  BY AddRelsFacts
<1>2. HostedIn(k2) = HostedIn(k1) \cup {<<h, nr>>}
  BY <1>1 DEF HostedIn
<1>3. \A l \in HostedIn(k1) : Target(k2, l) = Target(k1, l)
  BY <1>1 DEF HostedIn, Target
<1>4. Target(k2, <<h, nr>>) = x
  BY <1>1 DEF Target
<1> HIDE DEF r, nr
<1> QED
  BY <1>2, <1>3, <1>4 DEF PivotsIn


(* With one goroutine, at most one call is in progress: the one it runs. *)
LEMMA BusySerial ==
    ASSUME NEW T, Threads = {T}, NEW p
    PROVE  /\ p[T] = "idle" => BusyIn(p) = {}
           /\ p[T] # "idle" => BusyIn(p) = {T}
BY DEF BusyIn

(* LinkInv gives the link facts of the package. *)
LEMMA LinkInvLinked == LinkInv => Linked(Package)
BY DEF LinkInv, Linked, Package, TableLinked, Registers, RegistryInv, SheetInv

(* The tables of the file before the first call are what it shows. *)
LEMMA RefineInit == SerialPackage /\ DistinctCacheIds /\ Init => API!Init
<1> SUFFICES ASSUME SerialPackage, DistinctCacheIds, Init PROVE API!Init
  OBVIOUS
<1> USE ConstantsAssumption DEF ConstantsAssumption
<1>1. PICK T : Threads = {T}
  BY DEF SerialPackage
<1>2. BusyIn(pc) = {}
  BY <1>1, BusySerial DEF Init
<1>3. Accepted = [n \in {} |-> CHOOSE s \in Sheets : TRUE]
  BY <1>2 DEF Accepted, AcceptedIn
<1>4. Shown = PivotsIn(Package)
  BY LinkInit, LinkInvLinked, ShownLinked DEF Shown
<1>5. PivotsIn(Package) = InitShown
  <2>1. HostedIn(Package) = {<<InitHostOf[t], t>> : t \in InitTables}
    BY DEF HostedIn, Package, Init
  <2>2. \A t \in InitTables : Target(Package, <<InitHostOf[t], t>>) = t
    BY DEF Target, Package, Init
  <2>3. \A t \in InitTables : Package.tables[t].owner = 0
    BY DEF Package, Init
  <2>4. ASSUME NEW l \in HostedIn(Package)
        PROVE  API!Pivot(Package.tables[Target(Package, l)].owner, l[1]) \in InitShown
    <3>1. PICK t \in InitTables : l = <<InitHostOf[t], t>>
      BY <2>1
    <3>2. API!Pivot(Package.tables[Target(Package, l)].owner, l[1])
            = [call |-> 0, sheet |-> InitHostOf[t], sources |-> {0}]
      BY <3>1, <2>2, <2>3 DEF API!Pivot
    <3> QED
      BY <3>2 DEF InitShown
  <2>5. ASSUME NEW t \in InitTables
        PROVE  [call |-> 0, sheet |-> InitHostOf[t], sources |-> {0}] \in PivotsIn(Package)
    <3> DEFINE l == <<InitHostOf[t], t>>
    <3>1. l \in HostedIn(Package)
      BY <2>1
    <3>2. API!Pivot(Package.tables[Target(Package, l)].owner, l[1])
            = [call |-> 0, sheet |-> InitHostOf[t], sources |-> {0}]
      BY <2>2, <2>3 DEF API!Pivot
    <3> HIDE DEF l
    <3> QED
      BY <3>1, <3>2 DEF PivotsIn
  <2> QED
    BY <2>4, <2>5 DEF PivotsIn, InitShown
<1> QED
  BY <1>3, <1>4, <1>5 DEF API!Init, Init


(***************************************************************************)
(* Every step of the pipeline is a step of the promise or leaves what it  *)
(* describes alone: Reject and Start are its Reject and Accept; the four *)
(* middle steps write parts no worksheet relationship reaches yet; the   *)
(* last step is Return of the call, with its table on its sheet.          *)
(***************************************************************************)
LEMMA RefineStep ==
    SerialPackage /\ LinkInv /\ LinkInv' /\ PartsKept /\ [Next]_vars => [API!Next]_API!avars
<1> SUFFICES ASSUME SerialPackage, LinkInv, LinkInv', PartsKept, [Next]_vars
             PROVE  [API!Next]_API!avars
  OBVIOUS
<1>0. PICK T : Threads = {T}
  BY DEF SerialPackage
<1>1. TypeOK /\ CallTypeOK(T)
  BY <1>0 DEF LinkInv, SerialInv, TypeOK
<1>2. Shown = PivotsIn(Package)
  BY LinkInvLinked, ShownLinked DEF Shown
<1>3. Shown' = PivotsIn(Package')
  <2>1. Linked(Package')
    BY DEF LinkInv, Linked, Package, TableLinked, Registers, RegistryInv, SheetInv
  <2>2. ShownIn(Package') = PivotsIn(Package')
    BY <2>1, ShownLinked
  <2> QED
    BY <2>2 DEF Shown
<1>4. \A l \in HostedIn(Package) : Target(Package, l) \in DOMAIN tables
  BY LinkInvLinked DEF Linked, HostedIn, Target, Package
<1>5. Accepted' = AcceptedIn(pc', call', host')
  BY DEF Accepted
<1>6. CASE Reject(T)
  <2>1. Package' = Package /\ Accepted' = Accepted
    BY <1>6 DEF Reject, Package, Accepted, pkgVars, localVars
  <2>2. API!Reject
    BY <1>6, <2>1 DEF Reject, API!Reject, Shown
  <2> QED
    BY <2>2 DEF API!Next
<1>7. CASE \E s \in Sheets : Start(T, s)
  <2>1. PICK s \in Sheets : Start(T, s)
    BY <1>7
  <2>2. DOMAIN Accepted = {}
    <3>1. BusyIn(pc) = {}
      BY <1>0, <2>1, BusySerial DEF Start
    <3> QED
      BY <3>1 DEF Accepted, AcceptedIn
  <2>3. pc'[T] # "idle" /\ call'[T] = calls + 1 /\ host'[T] = s
    BY <1>0, <1>1, <2>1 DEF Start, TypeOK
  <2>4. Accepted' = [n \in {calls + 1} |-> s]
    <3>1. BusyIn(pc') = {T}
      BY <1>0, <2>3, BusySerial
    <3> QED
      BY <1>5, <2>3, <3>1 DEF AcceptedIn
  <2>5. Accepted' = [m \in DOMAIN Accepted \cup {calls + 1} |->
                        IF m = calls + 1 THEN s ELSE Accepted[m]]
    BY <2>2, <2>4
  <2>6. Package' = Package
    BY <2>1 DEF Start, Package, pkgVars
  <2>7. API!Accept(s)
    BY <2>1, <2>5, <2>6 DEF Start, API!Accept, Shown
  <2> QED
    BY <2>7 DEF API!Next
<1>8. CASE AddPivotCache(T) \/ AddWorkbookPivotCache(T) \/ AddTableCacheRels(T)
           \/ AddPivotTablePart(T)
  <2>1. /\ pc[T] # "idle" /\ pc'[T] # "idle"
        /\ UNCHANGED <<sheetRels, call, host, calls, done>>
    BY <1>1, <1>8 DEF AddPivotCache, AddWorkbookPivotCache, AddTableCacheRels, AddPivotTablePart,
                      TypeOK, Steps
  <2>2. Accepted' = Accepted
    <3>1. BusyIn(pc) = {T} /\ BusyIn(pc') = {T}
      BY <1>0, <2>1, BusySerial
    <3>2. Accepted = [n \in {call[T]} |-> host[T]]
      BY <3>1 DEF Accepted, AcceptedIn
    <3>3. AcceptedIn(pc', call', host') = [n \in {call'[T]} |-> host'[T]]
      BY <3>1 DEF AcceptedIn
    <3> QED
      BY <1>5, <2>1, <3>2, <3>3
  <2>3. PivotsIn(Package') = PivotsIn(Package)
    <3>1. Package'.sheetRels = Package.sheetRels
      BY <2>1 DEF Package
    <3>2. \A p \in DOMAIN Package.tables : Package'.tables[p] = Package.tables[p]
      BY DEF PartsKept, Package
    <3>3. \A l \in HostedIn(Package) : Target(Package, l) \in DOMAIN Package.tables
      BY <1>4 DEF Package
    <3> QED
      BY <3>1, <3>2, <3>3, PivotsFrame
  <2> QED
    BY <1>2, <1>3, <2>1, <2>2, <2>3 DEF API!avars
<1>9. CASE LinkSheet(T)
  <2> DEFINE n == call[T]
             h == host[T]
  <2>1. /\ pc[T] = "link" /\ pc'[T] = "idle"
        /\ n \in 1..MaxCalls /\ h \in Sheets
        /\ UNCHANGED <<tables, call, host, calls>>
        /\ done' = done \cup {n}
        /\ sheetRels' = [sheetRels EXCEPT ![h] = AddRels(sheetRels[h], tid[T])]
    <3>1. pc[T] = "link" /\ pc' = [pc EXCEPT ![T] = "idle"]
      BY <1>9 DEF LinkSheet
    <3>2. pc'[T] = "idle"
      BY <1>0, <1>1, <3>1 DEF TypeOK
    <3>3. n \in 1..MaxCalls /\ h \in Sheets
      BY <1>1, <3>1 DEF CallTypeOK
    <3> QED
      BY <1>9, <3>1, <3>2, <3>3 DEF LinkSheet
  <2>2. tables[tid[T]].owner = n
    BY <1>0, <2>1 DEF LinkInv, CallLinkInv
  <2>3. Accepted = [m \in {n} |-> h]
    <3>1. BusyIn(pc) = {T}
      BY <1>0, <2>1, BusySerial
    <3> QED
      BY <3>1 DEF Accepted, AcceptedIn
  <2>4. DOMAIN Accepted' = {}
    <3>1. BusyIn(pc') = {}
      BY <1>0, <2>1, BusySerial
    <3> QED
      BY <1>5, <3>1 DEF AcceptedIn
  <2>5. Accepted' = [m \in DOMAIN Accepted \ {n} |-> Accepted[m]]
    BY <1>5, <2>3, <2>4 DEF AcceptedIn
  <2>6. PivotsIn(Package') = PivotsIn(Package) \cup {API!Pivot(n, h)}
    <3>1. DOMAIN Package.sheetRels = Sheets /\ IsRelsFile(Package.sheetRels[h])
      BY <1>1, <2>1 DEF TypeOK, PackageTypeOK, Package
    <3>2. Package'.tables = Package.tables
      BY <2>1 DEF Package
    <3>3. Package'.sheetRels = [Package.sheetRels EXCEPT ![h] = AddRels(Package.sheetRels[h], tid[T])]
      BY <2>1 DEF Package
    <3>4. Package.tables[tid[T]].owner = n
      BY <2>2 DEF Package
    <3> HIDE DEF n, h
    <3> QED
      BY <2>1, <3>1, <3>2, <3>3, <3>4, PivotsLink
  <2>7. API!Return(n)
    BY <1>2, <1>3, <2>1, <2>3, <2>5, <2>6 DEF API!Return
  <2> QED
    BY <2>1, <2>7 DEF API!Next
<1>10. CASE UNCHANGED vars
  <2>1. Package' = Package /\ Accepted' = Accepted
    BY <1>10 DEF vars, Package, Accepted, pkgVars, localVars
  <2> QED
    BY <1>10, <2>1 DEF vars, API!avars, Shown
<1> QED
  BY <1>0, <1>6, <1>7, <1>8, <1>9, <1>10 DEF Next


(***************************************************************************)
(* AddPivotTable keeps its promise for one goroutine on a package excelize *)
(* can have written, for every package size and number of calls: the     *)
(* tables the workbook shows change only when a call returns nil, and     *)
(* then by exactly one table, on the sheet of the call's range, fed by    *)
(* the cache the call built and no other; a rejected call changes         *)
(* nothing.  That the accepted calls do return is CallsReturn of the    *)
(* package model, which TLC checks.                                       *)
(***************************************************************************)
THEOREM SerialRefinement ==
    SerialPackage /\ DistinctCacheIds => (Spec => APISafety)
<1> SUFFICES ASSUME SerialPackage, DistinctCacheIds PROVE Spec => API!Safety
  BY DEF APISafety
<1>1. Init => LinkInv /\ API!Init
  BY LinkInit, RefineInit
<1>2. LinkInv /\ [Next]_vars => LinkInv' /\ PartsKept
  BY LinkStep, SerialStep DEF LinkInv
<1>3. LinkInv /\ LinkInv' /\ PartsKept /\ [Next]_vars => [API!Next]_API!avars
  BY RefineStep
<1> QED
  BY <1>1, <1>2, <1>3, PTL DEF Spec, API!Safety

=============================================================================
