# Formal models of excelize's AddPivotTable

This directory holds TLA+ models of `src/pivotTable.go`, which is the whole of
the repository's implementation. It also holds the TLC configurations that
model-check the models and the TLAPS proofs about them. `PROJECT.json` lists the
components, runs, mutants, the source lines behind each definition, the
findings and the hazards.

## The system

`File.AddPivotTable(opts)` adds one pivot table to an open spreadsheet package.
It works through these parts:

| Part (spec section) | Code | What it does |
|---|---|---|
| RangeNormalizer (4.1) | `adjustRange` 199-226 | Parses `Sheet!A1:E31` and swaps reversed corners. |
| Validation | `parseFormatPivotTableSet` 170-196 | Checks options, both ranges and the target sheet before anything is written. |
| FieldOrderResolver (4.2) | `getPivotFieldsOrder` 230-249 | Reads the header row of the data range. |
| FieldClassifier (4.3) | `addPivotFields` 524-599, `inPivotTableField`, `getPivotTableField*` | Puts each header column on the Rows, Filter, Columns or Data axis, in that order of precedence. |
| CacheSchemaBuilder (4.4) | `addPivotCache` 252-310 | Builds one cache field per column, with a shared item for row and column fields that turn the default subtotal off. |
| TableDefinitionBuilder (4.5) | `addPivotTable` 314-389, `addPivot{Row,Col,Page,Data}Fields` 393-520, `getPivotFieldsIndex` 629-641 | Builds the pivot fields and the position lists that refer to them. |
| IdentityAndLinkAllocator (4.6) | `AddPivotTable` 131-166, `countPivotTables`/`countPivotCache` 603-626, `addWorkbookPivotCache` 698-714 | Allocates the IDs and writes the parts and links. |

The allocator writes these parts and links, in order:

1. `pivotCacheDefinitionN.xml`.
2. A workbook relationship to that cache, plus a registry entry `<pivotCache cacheId rId>` in workbook.xml.
3. The table's relationship to the cache.
4. `pivotTableM.xml`, which names the cacheId.
5. A worksheet relationship to the table, and two content-type overrides.

The IDs come from three different spaces, each with its own rule:

- **N and M** (the part numbers) are the *count* of existing parts plus one.
- **The cacheId** is the *largest* registered cacheId (at least 1) plus one.
- **rIds** are the largest rId of the relationship file plus one. This rule lives in `addRels`.

`addRels`, `saveFileList`, `addContentTypePart` and `workbookReader` are
excelize code that is not under `src/`. They are modelled from the spec and
marked `spec_modelled` in the map:

- `addRels` appends without de-duplicating.
- `saveFileList` replaces a part of the same name.
- Content types form a set.

## Modules

### `PivotTable`: the pipeline on the package

The module has two kinds of state.

- **Package state.**
  - `tables` and `caches` map each part number to the call that built the part (0 = already in the package). A table also records the cacheId it names.
  - `wbRels`, `tableRels` and `sheetRels` are relationship files, each a map from rId to part number.
  - `registry` is the workbook's `<pivotCaches>`.
  - `contentTypes` holds the content-type overrides.
- **Per-goroutine state.** `pc`, plus the locals `tid` (pivotTableID), `pcid` (pivotCacheID), `cid` (cacheID), `host` (target sheet) and `call`.

Each state-changing call of `AddPivotTable` is one action, in the code's order:

| Action | Code it models |
|---|---|
| `Reject` | Validation fails and the package is untouched. |
| `Start` | Validation passes. IDs are count + 1 (lines 131-140). |
| `AddPivotCache` | Save the cache part (141-147 with `saveFileList` at 307). |
| `AddWorkbookPivotCache` | `addRels` on workbook.xml.rels, then `addWorkbookPivotCache` (149-151). |
| `AddTableCacheRels` | The table→cache relationship (153-155). |
| `AddPivotTablePart` | Save the table part (156-159). |
| `LinkSheet` | The sheet relationship and both content types (160-165). |

The actions of different goroutines interleave. The code takes no lock, and
spec §5 says so.

`Spec` adds weak fairness `WF_vars(CallSteps(t))` for each goroutine `t` over
the five steps after `Start`. Once validation has passed, `AddPivotTable` is a
synchronous function that takes no lock and waits on nothing, and the Go
runtime keeps scheduling the goroutine that runs it. `Start` and `Reject` get
no fairness, because whether a caller makes a call is the caller's choice.

Part contents are abstracted to the number of the call that built them. That is
enough to tell whether a table and its cache came from the same options.

After validation the error returns at lines 145 and 157 cannot be reached:

- `addPivotCache` and `addPivotTable` re-parse ranges that `parseFormatPivotTableSet` has just parsed from the same strings.
- `xml.Marshal` does not fail on these structs.

So the model has no error path after `Start`, and a call cannot fail half way.

### `PivotTableAPI`: what `AddPivotTable` promises

`PivotTableAPI` is the abstract specification of the call, without the
package. The workbook shows a set of pivot tables. Each table is a record of:

- the call that built it (0 for a table that was in the file before);
- its sheet;
- `sources`, the calls whose caches feed it.

It has three actions:

- `Reject`: validation fails and nothing changes.
- `Accept(s)`: validation passes for a range on sheet `s`, and the call is pending.
- `Return(n)`: call `n` returns nil. Exactly one table, `Pivot(n, s)`, appears on its sheet, fed by call `n` alone.

It states only safety (`Safety`). That an accepted call returns is
`CallsReturn`, stated of the pipeline model itself; stating it again through
the mapping would check nothing new.

`PivotTable_refinement` maps the pipeline onto it:

- `Shown` is what a reader of the file sees. It starts from every worksheet relationship. It takes the owner of the table part the relationship targets. It adds the owners of the cache parts that part reaches, through its cacheId and the workbook registry and through its own relationship file (`CachesOf`, `FedIn`). A link to a part that does not exist shows as -1.
- `Accepted` maps each call in progress to its `host` sheet.

The mapping reads a package value `k` (`ShownIn(k)`, with `Shown == ShownIn(Package)`), so that its lemmas can be used of the state before a step and of the state after it.

### `PivotFields`: the field lists

This is a pure model of the build. One action, `AddPivotTable`, reads a header
row (`Headers`) and a `PivotTableOption` (`Options`), then sets:

- `cacheFields`, the result of `addPivotCache`;
- `table`, the result of `addPivotTable`: the pivot fields, row/col/page/data fields and the `<colFields>` element, which may be absent (`NoColFields`).

Every helper of the code is an operator of the same name: `inPivotTableField`,
`getPivotTableFieldOptions`, `getPivotTableFieldName(s)`,
`getPivotTableFieldsSubtotal`/`inEnums` and `getPivotFieldsIndex`.

- **Positions** are 0-based.
- **Display names** given by the caller are character sequences. A name the code writes is the Go string of its UTF-8 bytes (`Encode`, with the width of each character given by the constant `CharBytes`). `Truncate` counts and cuts bytes, as `len(fld.Name)` and `fld.Name[:MaxFieldLength]` do.
- **Subtotal tags** are represented by their case fold (`strings.EqualFold`).
- **Left out:** layout attributes (style, location, grand totals, the fixed row/column item skeletons), which are constants copied into the XML.
- **Precedence.** `PivotFieldOf` is a chain of `IF ... ELSE IF`, as the code's `if ... continue` chain is. A TLA+ `CASE` with overlapping guards would choose any true arm. TLC takes the first, which hid the difference until a proof needed the precedence.
- **Assumption.** `HeadersAssumption` says a header row is a finite sequence of its names, as a Go `[]string` is.

### `RangeNormalizer`: `adjustRange`

`adjustRange(s)` is an operator on strings, each a sequence of one-character
strings. It returns a record of the sheet, the box `<<x1, y1, x2, y2>>` and an
error. It follows the code's steps in order:

1. The empty-string check.
2. `strings.Split` on `!`, whose part count is one more than the number of `!` (`Positions`, `Before`, `After`).
3. The removal of `$` (`SelectSeq`).
4. `areaRefToCoordinates`.
5. The single-cell check.
6. The two swaps (`Order`), one per axis.

`areaRefToCoordinates` and the cell-name parser behind it (`SplitCellName`,
`ColumnNameToNumber`) are excelize code outside `src/`. They are modelled from
the spec: the reference is two cell names joined by one `:`. A cell name is a
run of letters and then a run of digits. Its column is the letters in base 26
with A = 1, and it must be at most `MaxColumns`. Its row is in
`1..TotalRows`. A reference with more than one `:` is an error in the model.
The state is the string passed (`rangeStr`) and the result (`ret`). One action,
`AdjustRange`, is the call `parseFormatPivotTableSet` makes.

### MC modules

- `MC_PivotTable` defines two initial packages:
  - one excelize itself writes: tables 1 and 2 share cache 1, registered as cacheId 3;
  - one with a hole in the numbering: parts 1 and 3.
- `MC_PivotTableLinks` extends `PivotTable_refinement` (and so `PivotTable_link_proofs`) to check the refinement and the inductive invariant `LinkInv` on a richer package:
  - two caches under cacheIds 5 and 2, not in part order;
  - tables 1 and 3 on one sheet share cache 1;
  - table 2 is on the other sheet with cache 2.
- `MC_PivotFields` defines:
  - header rows with model-value names;
  - option lists of bounded length over those names and one name (`Bogus`) that matches no header;
  - a display name longer than `MaxFieldLength = 2`;
  - character widths: `"a"` and `"b"` are one byte, and `"k"` stands for a three-byte CJK character.
- `MC_RangeNormalizer` builds range strings from these pieces:
  - a sheet name `S`;
  - one, two or no `!`;
  - corners of one letter and one digit on a 2x2 grid, each letter and digit with or without `$`;
  - edge cells: column C and row 3 out of range, row 0, digits before letters, no digits.

## Runs

| Run | Expect | Checks | Shows |
|---|---|---|---|
| `pivot_seq` | pass | TypeOK, LinkIntegrity, NoLostTable, NoOverwrite, CallsReturn | Serial calls (one goroutine, 3 calls, 2 sheets) keep every table linked to exactly one registered cache built from its own options, keep every successful table reachable from a sheet, and never overwrite a part. Every call that passes validation returns nil. |
| `pivot_linkinv` | pass | LinkInv | Four serial calls on the two-cache package keep the inductive invariant of the link proofs in every state (521 states). It was checked before it was proved. |
| `pivot_refine` | pass | APISafety | The same four serial calls implement `PivotTableAPI` under the refinement mapping (521 states). What the workbook shows changes only when a call returns, by one table on the call's sheet fed by its own cache. |
| `pivot_live` | pass | CallsReturn | Two goroutines whose calls interleave step by step both still return nil. A race corrupts the links (`pivot_race`) but never stops a call. |
| `pivot_gap` | violation | NoOverwrite | Finding 1: count+1 overwrites `pivotTable3.xml` when parts 1 and 3 exist. |
| `pivot_race` | violation | LinkIntegrity | Finding 2: two goroutines both start with table 3 and cache 2. The second call's `addPivotCache` overwrites `pivotCacheDefinition2.xml` after the first call's table was linked to it, so that table is fed by a cache built from the other call's options. |
| `fields` | pass | TypeOK, SharedItemsCover, AxisConsistency | For two header rows and every option combination within the bounds, the cache and table agree position by position. The axis lists also agree with the axes when the documented rule "one field in at most one of Rows/Columns/Filter" holds. |
| `fields_dupheader` | violation | AxisConsistency | Finding 3: with a repeated header, a row-axis pivot field is not listed in rowFields. |
| `fields_datanames` | violation | AxisEntriesKeepDeclaration | Finding 4: a declared data or filter field that names no column shifts the names and subtotals of the later ones. |
| `fields_filtername` | violation | FilterCaption | Finding 5: page fields are named from the Columns list. |
| `fields_widename` | violation | DataNameCharacters | Finding 6: a data field named with one three-byte character, with `MaxFieldLength = 2`, is written as the first two bytes of the character. That is invalid UTF-8, although the name is within the documented limit of "255 characters". |
| `range` | pass | TypeOK, CanonicalBox, SwapInvariant | For 266 strings, `adjustRange` returns the bounding box of the two corners, ordered on each axis. It rejects single cells (also `A1:$A$1`). The same range written with its corners exchanged on either axis or both gives the same result. The error paths (empty string, no or two `!`, bad or out-of-range cells) are all reached. |

`CHECK_DEADLOCK FALSE` is set everywhere for these reasons:

- The pipeline runs stop because the number of calls is bounded (`MaxCalls`).
- The field build and `adjustRange` are single calls.

`CallsReturn` is the liveness property: a call numbered `n` that a goroutine
is running leads to `n ∈ done`. It is checked under the fairness above, with
one goroutine (`pivot_seq`) and with two interleaved goroutines
(`pivot_live`).

### Bounds

- **`pivot_seq`.** Three calls are enough for these things to happen:
  - a second call sees parts created by the first;
  - a call's cacheId exceeds the pre-existing 3;
  - a sheet hosts two tables.
- **`pivot_linkinv`, `pivot_refine`.** The package has two caches whose cacheIds (5 and 2) are out of part order, and tables on two sheets, one of them sharing a cache. With four calls, the count-based cacheId of the mutant collides with 5, and a sheet gains a second and third table.
- **`pivot_live`.** Two goroutines with one call each is the smallest case in which a goroutine must wait for its turn while another moves.
- **`range`.** A 2x2 grid has ranges reversed on neither axis, on one axis only, or on both, and single cells. `MaxColumns = TotalRows = 2` puts column C and row 3 just out of range.
- **`fields`.** The run has the following cases:
  - up to two rows, so the order of rows matters and a row can repeat;
  - one column, one filter and two data fields, so the -2 sentinel appears;
  - `DefaultSubtotal` both ways, so the items list and the shared items differ;
  - a name that matches no header;
  - overlaps between every pair of lists.

### Mutants

Each property of a passing run is broken by a plausible change to the code it
is about (`PROJECT.json`, "mutants"):

| Mutant | What it changes | Property it breaks |
|---|---|---|
| `NextCacheIdByCount` | cacheId by count | LinkIntegrity, LinkInv |
| `StartCountOnly` | part number = count, no +1 | NoOverwrite |
| `LinkSheetWrongId` | sheet rel to the cache number | NoLostTable, APISafety |
| `LinkSheetWrongTag` | wrong content-type tag | TypeOK of PivotTable |
| `inEnumsKeepTag` | unknown subtotal kept | TypeOK of PivotFields |
| `CacheFieldOfRowsOnly` | shared item only for rows | SharedItemsCover |
| `PivotFieldOfRowsAsData` | dataField looked up in Rows | AxisConsistency |
| `LinkSheetFails` | the last step returns an error | CallsReturn (both runs) |
| `ValidCellAnyRow` | row 0 and rows past the last accepted | TypeOK of RangeNormalizer |
| `OrderJointly` | whole corners exchanged when the columns are reversed | CanonicalBox |
| `OrderColumnsOnly` | the rows are never put in order | SwapInvariant |

## Proofs

### `PivotTable_proofs`

`THEOREM TypeCorrect == Spec => []TypeOK` is proved by TLAPS. It holds for every
value of the constants that satisfies `ConstantsAssumption`:

- the pre-existing part numbers are finite sets of positive numbers;
- the initial links are functions between them.

It holds for any number of concurrent goroutines. `TypeOK` is inductive as
stated. To make it so, it carries:

- finiteness of the part, rId and registry sets, which `Max` needs;
- the per-call facts of `CallTypeOK`: a call past validation holds positive IDs, a valid sheet and its call number, and has a positive cacheID from `AddWorkbookPivotCache` on.

The argument has these parts:

- `InitTypeOK`. It uses `FS_Surjection` for the finiteness of the initial registry.
- `NextTypeOK`, with one step per action and under each, one step for the package and one per goroutine (the acting one and the others).
- The lemmas the steps cite:

  | Lemma | What it establishes |
  |---|---|
  | `MaxIsLargest` | A finite non-empty set of integers has a largest element. Proved from `WFMin` and the well-foundedness of strict inclusion on finite sets, since `NEW P(_)` induction cannot be used. |
  | `NextAboveAll` | `Max(S ∪ {0}) + 1` is a positive number above all of S, which is what `addRels` allocates. |
  | `NextCacheIdType` | The same for the cacheId. |
  | `AddRelsType`, `RelsOfType`, `SaveFileFacts` | Facts about the package helpers. |

The last step is `PTL`. The fairness conjunct of `Spec` plays no part in it.

`THEOREM SerialNoOverwrite == SerialPackage => (Spec => NoOverwrite)` is also
proved. `SerialPackage` has three conditions:

- one goroutine calls `AddPivotTable`;
- the pre-existing table parts are numbered `1..n` with no hole;
- the same holds for the cache parts.

This is the property that `pivot_seq` checks on one instance. The theorem proves
it for every `n` and any number of calls.

`NoOverwrite` is not inductive. The strengthening is `SerialInv`:

- `TypeOK`;
- the table and cache part numbers are both `1..Cardinality`;
- `CallInv(t)`: a call that has not yet saved its table holds `tid = countPivotTables + 1`, and one that has not yet saved its cache holds `pcid = countPivotCache + 1`.

`SerialInv` was first checked with TLC on the `pivot_seq` instance (170
states, no violation).

The argument runs as follows:

- `ContiguousExtend` proves that `count + 1` is then a fresh number, and that saving it keeps the numbering hole-free.
- `SerialStep` proves that every action keeps `SerialInv` and `PartsKept`.
- The theorem closes with `PTL`.

Both hypotheses are needed:

- `pivot_gap` breaks `NoOverwrite` with a hole;
- `pivot_race` breaks the link invariant with two goroutines.

`LinkIntegrity` and `NoLostTable` are proved in `PivotTable_link_proofs`,
below.

### `PivotTable_link_proofs`

Two theorems carry the `pivot_seq` invariants to every package size and any
number of calls:

- `THEOREM SerialLinkIntegrity == SerialPackage /\ DistinctCacheIds => (Spec => []LinkIntegrity)`;
- `THEOREM SerialNoLostTable == SerialPackage /\ DistinctCacheIds => (Spec => []NoLostTable)`.

A third theorem, `SerialLinkInv`, states the inductive invariant itself:
`SerialPackage /\ DistinctCacheIds => (Spec => []LinkInv)`. `pivot_linkinv`
checks the same invariant on one instance.

`DistinctCacheIds` says that the workbook's `<pivotCaches>` name distinct
caches under distinct cacheIds. excelize keeps this itself: it allocates a
cacheId one above the largest in use. Without it, a table's cacheId could be
registered twice from the start.

The inductive invariant is `LinkInv`, checked first with TLC by the run
`pivot_linkinv`. It has these parts:

- `SerialInv`, the invariant of `SerialNoOverwrite`. It makes the part numbers fresh.
- `RegistryInv`: every registered rId is a workbook relationship, and no two entries share a cacheId.
- `TableLinked(p)` for every table part: through its cacheId and its own relationship file it reaches one cache part, and that part was built by the same call.
- `SheetInv`: every worksheet relationship targets a saved table part and never the one a call is about to link. No two relationships target the same part.
- `TableRelsInv`: a table relationship file exists only for a saved table or for the one the call saves next. This is what makes `relsReader` return an empty file at `AddTableCacheRels`.
- `CallLinkInv(t)`: what the steps of the call in progress have built so far (its cache part, its registry entry, its table relationship, its table part).
- `NoLostTable` itself.

Each step writes under a number nothing else holds:

- a part number `count + 1`, by `SerialInv`;
- an rId one above the largest, by lemma `AddRelsFacts`;
- a cacheId one above the largest, by lemma `NextCacheIdFresh`.

So the links already in place are untouched, and the step adds the link its
call facts announce. `LinkStep` has one step per action, and under each, one
step per conjunct the action can disturb. `LinkInvFrame` closes the steps that
change none of the package. `AtMostOne` turns the injectivity of sheet links
into `Cardinality(SheetLinks(p)) <= 1`.

Both hypotheses are needed:

- `pivot_race` breaks `LinkIntegrity` with two goroutines;
- `pivot_gap` overwrites a part when the numbering has a hole.

### `PivotTable_refinement`

`THEOREM SerialRefinement == SerialPackage /\ DistinctCacheIds => (Spec => APISafety)`
is proved for every package size and any number of calls. `APISafety` is
`API!Safety`, the abstract `Init /\ [][Next]_avars` under the mapping. The
argument:

- **Initial state (`RefineInit`).** Before the first call no call is in progress, and the file shows each pre-existing table, with owner 0 and cache owner 0, on its sheet. This uses `LinkInit`: in a valid package each table reaches only its own cache.
- **Link facts (`Linked(k)`).** `LinkInv` of a state gives `Linked` of its package. It is restated of a package value because tlapm cannot apply a lemma to the primed state.
- **What is shown (`ShownLinked`, `FedLinked`).** In a well-linked package every shown table is fed by its own call, so `ShownIn(k) = PivotsIn(k)`, a set of `Pivot(owner, sheet)`.
- **Steps (`RefineStep`).** It assumes `LinkInv` before and after the step (by `LinkStep`) and `PartsKept` (by `SerialStep`):
  - `Reject` is the abstract `Reject`;
  - `Start(t, s)` is `Accept(s)`;
  - the four middle steps are stutters, because they write parts no worksheet relationship reaches yet (`PivotsFrame`);
  - `LinkSheet` is `Return(call[t])`, because the new relationship shows table `tid[t]`, whose owner is `call[t]` (`PivotsLink`).
- **Closing step.** The theorem closes with `PTL`.

The refinement needs one goroutine. In `pivot_race`, the second call overwrites
the cache part the first call's table is already linked to. The mapping then
shows that table fed by the other call, which no abstract step produces.

### `RangeNormalizer_proofs`

`THEOREM CanonicalBoxHolds == Spec => []CanonicalBox` holds for every
`MaxColumns`, `TotalRows` and set of range strings. The inductive invariant
`Inv` says that `ret` is either the initial value, with no string passed yet, or
what `adjustRange` returned for `rangeStr`.

`AdjustCanonical` follows the branches of `adjustRange` that lead to no error:

- the corners come from two valid cells, so they are integers;
- `ConcatPairs` takes the quadruple apart;
- the single-cell check has failed.

`OrderFacts` then gives the ordering, the bounding box and the two distinct
corners.

`THEOREM OrderSwapInvariant` proves, for all integers, that the two swaps give
the same box when the columns, the rows or both of the corners are exchanged.
This is the design's normalisation law, stated on coordinates. The run
`range` checks it on strings (`SwapInvariant`). Proving it on strings would
need facts about what `SelectSeq` and the digit and letter parsers return for
every string, that is, induction over sequences, which is beyond the provers.

`THEOREM TypeCorrect == Spec => []TypeOK` (of `RangeNormalizer`) follows from
the same `Inv`. Lemma `AdjustType` follows every branch of `adjustRange`. An
error comes with no box. The box of an accepted range has its coordinates in
`1..MaxColumns` and `1..TotalRows`, because `ValidCell` bounds both corners
and `Order` only permutes them within each axis.

### `PivotFields_proofs`

`THEOREM SharedItemsCoverHolds == Spec => []SharedItemsCover` holds for every
header row and every option list. Its inductive invariant `Inv` says:

- before the call every list is empty;
- after it, `cacheFields` and `table` are what `addPivotCache` and `addPivotTable` build from `order` and `opts`.

`BuiltCover` proves the cover column by column, with no induction: both lists
are functions over `1..Len(hdr)`. `ColumnCover` follows the precedence of
`addPivotFields`:

- a row field's items come from its row options, and then the cache looks at the same options;
- a page field has only the default item;
- a column field is not a row field, so the cache's shared item is decided by the column options alone;
- any other field has no item.

`AxisConsistency`, `TypeOK` of `PivotFields` and the violated properties stay
model-checked. They speak of what `getPivotFieldsIndex` (a `SelectSeq`),
`inStrSlice` (a `CHOOSE` of a first match) and `FlattenSeq` return for every
list, which needs induction over sequences.

### Beyond the provers

These stay with TLC:

- **Liveness (`CallsReturn`).** Liveness under fairness and `ENABLED` are out of reach of TLAPS.
- **What recursive definitions compute** (`ColumnNumber`, `RowNumber`, `FlattenSeq`) for every input. This needs induction over data.

## Not modelled, and why

- The defined-name indirection (`getDefinedNameRefTo`) and the sheet lookups of validation. These are I/O on the workbook.
- The composition of `adjustRange` with the pipeline. No pipeline property depends on how a valid range is spelled, so `Start` and `Reject` stand for its two outcomes.
- A reference with more than one `:` (`A1:B2:C3`). What `areaRefToCoordinates` does with it is not in the spec, and the model treats it as an error. The MC strings avoid it.
- The cell reads of `getPivotFieldsOrder`. The header row is an input.
- `go.mod`.

## Plan for later work

1. Prove `AxisConsistency` of `PivotFields` with a lemma on `SelectSeq` stated without recursion.
2. Make the cacheId allocation of `addWorkbookPivotCache` two steps (read, append) in the concurrent run.
3. Feed the box of `adjustRange` into `getPivotFieldsOrder`, so that the header row has `x2 - x1 + 1` columns.
