---------------------------- MODULE PivotTableAPI ----------------------------
(***************************************************************************)
(* What AddPivotTable (src/pivotTable.go) promises its callers, with the  *)
(* package left out.  A workbook shows a set of pivot tables: each is the *)
(* call whose options built it (0 for tables that were in the file before *)
(* the first call), the sheet it is placed on and the calls whose pivot   *)
(* caches feed it.  A call either fails validation and changes nothing,   *)
(* or is accepted for a sheet and later returns nil, at which moment one  *)
(* table appears on that sheet, fed by the cache of its own call only.    *)
(* Nothing of a call in progress is visible.                              *)
(***************************************************************************)
EXTENDS Naturals

CONSTANTS
    Sheets,      \* worksheets that can host a pivot table
    MaxCalls,    \* bound on the number of AddPivotTable calls
    InitPivots   \* the pivot tables of the file before the first call

VARIABLES
    calls,    \* number of calls started so far
    pending,  \* accepted call -> the sheet of its PivotTableRange
    pivots,   \* the pivot tables the workbook shows
    done      \* the calls that returned nil

avars == <<calls, pending, pivots, done>>

(* The table a call builds on sheet s, fed by the cache of call n. *)
Pivot(n, s) == [call |-> n, sheet |-> s, sources |-> {n}]

Init ==
    /\ calls = 0
    /\ pending = [n \in {} |-> CHOOSE s \in Sheets : TRUE]
    /\ pivots = InitPivots
    /\ done = {}

(* parseFormatPivotTableSet fails: the error is returned, nothing changes. *)
Reject ==
    /\ calls < MaxCalls
    /\ calls' = calls + 1
    /\ UNCHANGED <<pending, pivots, done>>

(* Validation passes for a range on sheet s: the call is under way. *)
Accept(s) ==
    /\ calls < MaxCalls
    /\ calls' = calls + 1
    /\ pending' = [m \in DOMAIN pending \cup {calls + 1} |->
                      IF m = calls + 1 THEN s ELSE pending[m]]
    /\ UNCHANGED <<pivots, done>>

(* Call n returns nil: its table shows on its sheet, fed by its cache. *)
Return(n) ==
    /\ n \in DOMAIN pending
    /\ pivots' = pivots \cup {Pivot(n, pending[n])}
    /\ pending' = [m \in DOMAIN pending \ {n} |-> pending[m]]
    /\ done' = done \cup {n}
    /\ UNCHANGED calls

Next == Reject \/ (\E s \in Sheets : Accept(s)) \/ (\E n \in 1..MaxCalls : Return(n))

(* The safety part of the promise.  That an accepted call returns is     *)
(* stated of the package model itself, as PivotTable's CallsReturn.       *)
Safety == Init /\ [][Next]_avars

=============================================================================
