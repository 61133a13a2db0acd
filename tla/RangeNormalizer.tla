--------------------------- MODULE RangeNormalizer ---------------------------
(***************************************************************************)
(* adjustRange (src/pivotTable.go): a range string "Sheet!$A$1:$E$31" is  *)
(* split at "!" into a sheet name and a reference, the "$" signs are      *)
(* dropped, the reference is parsed into two corners by                   *)
(* areaRefToCoordinates (excelize's lib.go, outside src/, modelled from   *)
(* the design), a single-cell range is rejected and reversed corners are  *)
(* put in order one axis at a time.                                        *)
(*                                                                         *)
(* A string is a sequence of one-character strings.  A result is the     *)
(* sheet name, the box <<x1, y1, x2, y2>> and an error (or "nil").       *)
(***************************************************************************)
EXTENDS Integers, Sequences, FiniteSets

CONSTANTS
    RangeStrs,   \* the range strings a caller may pass
    MaxColumns,  \* largest column number of a cell name (16384 in excelize)
    TotalRows    \* largest row number of a cell name (1048576 in excelize)

ASSUME BoundsAssumption == MaxColumns \in Nat \ {0} /\ TotalRows \in Nat \ {0}

VARIABLES
    rangeStr,  \* the string given to adjustRange, <<>> before the call
    ret        \* what it returned

vars == <<rangeStr, ret>>

Errors == {"nil", "ErrParameterRequired", "ErrParameterInvalid", "ErrCellName"}
NoBox == <<>>

Alphabet == <<"A", "B", "C", "D", "E", "F", "G", "H", "I", "J", "K", "L", "M",
              "N", "O", "P", "Q", "R", "S", "T", "U", "V", "W", "X", "Y", "Z">>
Digits == <<"0", "1", "2", "3", "4", "5", "6", "7", "8", "9">>
IsLetter(c) == \E i \in 1..26 : Alphabet[i] = c
IsDigit(c) == \E i \in 1..10 : Digits[i] = c
LetterValue(c) == CHOOSE i \in 1..26 : Alphabet[i] = c
DigitValue(c) == (CHOOSE i \in 1..10 : Digits[i] = c) - 1

(* The column a run of letters names: base 26 with A = 1. *)
ColumnNumber(s) ==
    LET n[i \in 0..Len(s)] == IF i = 0 THEN 0 ELSE n[i - 1] * 26 + LetterValue(s[i])
    IN n[Len(s)]

(* The row a run of digits names: base 10. *)
RowNumber(s) ==
    LET n[i \in 0..Len(s)] == IF i = 0 THEN 0 ELSE n[i - 1] * 10 + DigitValue(s[i])
    IN n[Len(s)]

(* Positions of the character c in s. *)
Positions(s, c) == {i \in 1..Len(s) : s[i] = c}

(* The text before and after the only occurrence of c in s. *)
Before(s, c) == SubSeq(s, 1, (CHOOSE i \in Positions(s, c) : TRUE) - 1)
After(s, c) == SubSeq(s, (CHOOSE i \in Positions(s, c) : TRUE) + 1, Len(s))

-----------------------------------------------------------------------------
(* A cell name: a run of letters then a run of digits; its column is the  *)
(* letters read in base 26 with A = 1, its row the digits in base 10.     *)
IsCellName(c) ==
    \E k \in 1..(Len(c) - 1) :
        /\ \A i \in 1..k : IsLetter(c[i])
        /\ \A i \in (k + 1)..Len(c) : IsDigit(c[i])
LetterRun(c) == SelectSeq(c, IsLetter)
DigitRun(c) == SelectSeq(c, IsDigit)
CellCoordinates(c) == <<ColumnNumber(LetterRun(c)), RowNumber(DigitRun(c))>>
(* Mutant: row 0 and rows past the last one are accepted. *)
ValidCellAnyRow(c) == IsCellName(c) /\ CellCoordinates(c)[1] <= MaxColumns
ValidCell(c) ==
    /\ IsCellName(c)
    /\ CellCoordinates(c)[1] \in 1..MaxColumns
    /\ CellCoordinates(c)[2] \in 1..TotalRows

(* areaRefToCoordinates: a reference of two valid cell names joined by ":". *)
areaRefToCoordinates(ref) ==
    IF Cardinality(Positions(ref, ":")) # 1 THEN [err |-> "ErrParameterInvalid"]
    ELSE IF ~ValidCell(Before(ref, ":")) \/ ~ValidCell(After(ref, ":"))
         THEN [err |-> "ErrCellName"]
         ELSE [err |-> "nil",
               coords |-> CellCoordinates(Before(ref, ":")) \o CellCoordinates(After(ref, ":"))]

(* Mutant: the corners are exchanged together when the columns are reversed. *)
OrderJointly(x1, y1, x2, y2) ==
    IF x2 < x1 THEN <<x2, y2, x1, y1>> ELSE <<x1, y1, x2, y2>>

(* Mutant: the rows are never put in order. *)
OrderColumnsOnly(x1, y1, x2, y2) ==
    IF x2 < x1 THEN <<x2, y1, x1, y2>> ELSE <<x1, y1, x2, y2>>

(* The reversed corners are put in order, the columns and the rows each   *)
(* on their own.                                                          *)
Order(x1, y1, x2, y2) ==
    <<IF x2 < x1 THEN x2 ELSE x1, IF y2 < y1 THEN y2 ELSE y1,
      IF x2 < x1 THEN x1 ELSE x2, IF y2 < y1 THEN y1 ELSE y2>>

Result(sheet, box, err) == [sheet |-> sheet, box |-> box, err |-> err]

(* adjustRange. *)
adjustRange(s) ==
    IF Len(s) < 1 THEN Result(<<>>, NoBox, "ErrParameterRequired")
    ELSE IF Cardinality(Positions(s, "!")) # 1 THEN Result(<<>>, NoBox, "ErrParameterInvalid")
    ELSE LET sheet == Before(s, "!")
             a == areaRefToCoordinates(SelectSeq(After(s, "!"), LAMBDA c : c # "$"))
         IN IF a.err # "nil" THEN Result(sheet, NoBox, a.err)
            ELSE LET c == a.coords IN
                 IF c[1] = c[3] /\ c[2] = c[4] THEN Result(sheet, NoBox, "ErrParameterInvalid")
                 ELSE Result(sheet, Order(c[1], c[2], c[3], c[4]), "nil")

-----------------------------------------------------------------------------
NoRet == Result(<<>>, NoBox, "nil")

Init == rangeStr = <<>> /\ ret = NoRet

(* One call of adjustRange on a string the caller passes. *)
AdjustRange ==
    /\ rangeStr = <<>> /\ ret = NoRet
    /\ \E s \in RangeStrs : rangeStr' = s /\ ret' = adjustRange(s)

Next == AdjustRange

Spec == Init /\ [][Next]_vars

-----------------------------------------------------------------------------
TypeOK ==
    /\ ret.err \in Errors
    /\ ret.err = "nil" /\ rangeStr # <<>> =>
           ret.box \in (1..MaxColumns) \X (1..TotalRows) \X (1..MaxColumns) \X (1..TotalRows)
    /\ ret.err # "nil" => ret.box = NoBox

(* The two corners the reference names, when it names two valid cells. *)
Corners(s) == areaRefToCoordinates(SelectSeq(After(s, "!"), LAMBDA c : c # "$")).coords

(***************************************************************************)
(* A range adjustRange accepts is a canonical box (the design's "range   *)
(* box"): it is the bounding box of the two corners the string names,    *)
(* with x1 <= x2 and y1 <= y2, and it covers at least two cells; the      *)
(* sheet is the text before the "!".  The swaps of the code must order   *)
(* each axis on its own and the single-cell check must see the corners   *)
(* as given.                                                               *)
(***************************************************************************)
CanonicalBox ==
    ret.err = "nil" /\ rangeStr # <<>> =>
        LET c == Corners(rangeStr)
            b == ret.box
        IN /\ ret.sheet = Before(rangeStr, "!")
           /\ b[1] <= b[3] /\ b[2] <= b[4]
           /\ {b[1], b[3]} = {c[1], c[3]} /\ {b[2], b[4]} = {c[2], c[4]}
           /\ b[1] < b[3] \/ b[2] < b[4]

(* The string naming the same range with the columns of the corners, the  *)
(* rows, or both exchanged.                                                *)
Swaps(s) ==
    LET ref == SelectSeq(After(s, "!"), LAMBDA c : c # "$")
        p == Before(ref, ":")
        r == After(ref, ":")
        Cell(from, to) == LetterRun(from) \o DigitRun(to)
    IN {Before(s, "!") \o <<"!">> \o Cell(r, p) \o <<":">> \o Cell(p, r),
        Before(s, "!") \o <<"!">> \o Cell(p, r) \o <<":">> \o Cell(r, p),
        Before(s, "!") \o <<"!">> \o r \o <<":">> \o p}

(***************************************************************************)
(* The design's normalisation law: for a range adjustRange accepts, the  *)
(* same range written with its corners exchanged on either axis or both  *)
(* is accepted too and gives the same sheet and box.                      *)
(***************************************************************************)
SwapInvariant ==
    ret.err = "nil" /\ rangeStr # <<>> =>
        \A s \in Swaps(rangeStr) : adjustRange(s) = ret

=============================================================================
