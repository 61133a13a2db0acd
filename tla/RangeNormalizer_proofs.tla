------------------------ MODULE RangeNormalizer_proofs ------------------------
(***************************************************************************)
(* Proofs about adjustRange for every set of range strings and every     *)
(* MaxColumns and TotalRows: the box it returns for a range it accepts is *)
(* canonical, and its ordering step does not depend on the order the     *)
(* corners are written in.                                                 *)
(***************************************************************************)
EXTENDS RangeNormalizer, TLAPS

(* The ordering step puts each axis in order, keeps the coordinates of    *)
(* each axis, and keeps two distinct corners distinct.                     *)
LEMMA OrderFacts ==
    ASSUME NEW x1 \in Int, NEW y1 \in Int, NEW x2 \in Int, NEW y2 \in Int
    PROVE  LET b == Order(x1, y1, x2, y2) IN
           /\ b[1] <= b[3] /\ b[2] <= b[4]
           /\ {b[1], b[3]} = {x1, x2} /\ {b[2], b[4]} = {y1, y2}
           /\ (x1 # x2 \/ y1 # y2) => (b[1] < b[3] \/ b[2] < b[4])
BY DEF Order

(***************************************************************************)
(* The ordering step of adjustRange (the two independent swaps) gives the *)
(* same box whichever corner each axis names first: exchanging the        *)
(* columns, the rows, or both of the corners does not change the result. *)
(***************************************************************************)
THEOREM OrderSwapInvariant ==
    ASSUME NEW x1 \in Int, NEW y1 \in Int, NEW x2 \in Int, NEW y2 \in Int
    PROVE  /\ Order(x2, y1, x1, y2) = Order(x1, y1, x2, y2)
           /\ Order(x1, y2, x2, y1) = Order(x1, y1, x2, y2)
           /\ Order(x2, y2, x1, y1) = Order(x1, y1, x2, y2)
BY DEF Order

(* Two pairs of integers joined into a quadruple. *)
LEMMA ConcatPairs ==
    ASSUME NEW a \in Int, NEW b \in Int, NEW c \in Int, NEW d \in Int
    PROVE  /\ (<<a, b>> \o <<c, d>>)[1] = a /\ (<<a, b>> \o <<c, d>>)[2] = b
           /\ (<<a, b>> \o <<c, d>>)[3] = c /\ (<<a, b>> \o <<c, d>>)[4] = d
OBVIOUS

(* What adjustRange returns when it returns no error. *)
LEMMA AdjustCanonical ==
    ASSUME NEW s, adjustRange(s).err = "nil"
    PROVE  LET b == adjustRange(s).box
               c == Corners(s)
           IN /\ adjustRange(s).sheet = Before(s, "!")
              /\ b[1] <= b[3] /\ b[2] <= b[4]
              /\ {b[1], b[3]} = {c[1], c[3]} /\ {b[2], b[4]} = {c[2], c[4]}
              /\ b[1] < b[3] \/ b[2] < b[4]
<1> USE BoundsAssumption
<1> DEFINE ref == SelectSeq(After(s, "!"), LAMBDA ch : ch # "$")
           P == Before(ref, ":")
           Q == After(ref, ":")
           a == areaRefToCoordinates(ref)
           c == a.coords
<1>1. ~(Len(s) < 1) /\ Cardinality(Positions(s, "!")) = 1
    BY DEF adjustRange, Result
<1>2. a.err = "nil"
    BY <1>1 DEF adjustRange, Result
<1>3. Cardinality(Positions(ref, ":")) = 1 /\ ValidCell(P) /\ ValidCell(Q)
    BY <1>2 DEF areaRefToCoordinates
<1>4. c = CellCoordinates(P) \o CellCoordinates(Q)
    BY <1>3 DEF areaRefToCoordinates
<1>5. /\ CellCoordinates(P)[1] \in Int /\ CellCoordinates(P)[2] \in Int
      /\ CellCoordinates(Q)[1] \in Int /\ CellCoordinates(Q)[2] \in Int
    BY <1>3 DEF ValidCell
<1>6. /\ c[1] = CellCoordinates(P)[1] /\ c[2] = CellCoordinates(P)[2]
      /\ c[3] = CellCoordinates(Q)[1] /\ c[4] = CellCoordinates(Q)[2]
    <2>1. CellCoordinates(P) = <<CellCoordinates(P)[1], CellCoordinates(P)[2]>>
        BY DEF CellCoordinates
    <2>2. CellCoordinates(Q) = <<CellCoordinates(Q)[1], CellCoordinates(Q)[2]>>
        BY DEF CellCoordinates
    <2> DEFINE p1 == CellCoordinates(P)[1]  p2 == CellCoordinates(P)[2]
               q1 == CellCoordinates(Q)[1]  q2 == CellCoordinates(Q)[2]
    <2>3. c = <<p1, p2>> \o <<q1, q2>>
        BY <1>4, <2>1, <2>2
    <2>4. /\ (<<p1, p2>> \o <<q1, q2>>)[1] = p1 /\ (<<p1, p2>> \o <<q1, q2>>)[2] = p2
          /\ (<<p1, p2>> \o <<q1, q2>>)[3] = q1 /\ (<<p1, p2>> \o <<q1, q2>>)[4] = q2
        BY <1>5, ConcatPairs
    <2> QED BY <2>3, <2>4
<1>7. ~(c[1] = c[3] /\ c[2] = c[4])
    BY <1>1, <1>2 DEF adjustRange, Result
<1>8. adjustRange(s) = Result(Before(s, "!"), Order(c[1], c[2], c[3], c[4]), "nil")
    BY <1>1, <1>2, <1>7 DEF adjustRange
<1>9. Corners(s) = c
    BY DEF Corners
<1>10. adjustRange(s).box = Order(c[1], c[2], c[3], c[4])
       /\ adjustRange(s).sheet = Before(s, "!")
    BY <1>8 DEF Result
<1>11. c[1] \in Int /\ c[2] \in Int /\ c[3] \in Int /\ c[4] \in Int
    BY <1>5, <1>6
<1>12. LET b == Order(c[1], c[2], c[3], c[4]) IN
       /\ b[1] <= b[3] /\ b[2] <= b[4]
       /\ {b[1], b[3]} = {c[1], c[3]} /\ {b[2], b[4]} = {c[2], c[4]}
       /\ b[1] < b[3] \/ b[2] < b[4]
    <2> HIDE DEF c
    <2> QED BY <1>7, <1>11 DEF Order
<1> QED
    BY <1>9, <1>10, <1>12

-----------------------------------------------------------------------------
(* Before the call nothing is returned; after it, ret is what adjustRange *)
(* returns for the string passed.                                          *)
Inv == (rangeStr = <<>> /\ ret = NoRet) \/ ret = adjustRange(rangeStr)

LEMMA InvInit == Init => Inv
BY DEF Init, Inv

LEMMA InvStep == Inv /\ [Next]_vars => Inv'
BY DEF Inv, Next, AdjustRange, vars

LEMMA InvCanonical == Inv => CanonicalBox
<1> SUFFICES ASSUME Inv, ret.err = "nil", rangeStr # <<>> PROVE CanonicalBox
    BY DEF CanonicalBox
<1>1. ret = adjustRange(rangeStr)
    BY DEF Inv
<1> QED BY <1>1, AdjustCanonical DEF CanonicalBox

(* Every result of adjustRange has a known error; a box only without one, *)
(* and then a box of in-range coordinates.                                 *)
LEMMA AdjustType ==
    ASSUME NEW s
    PROVE  /\ adjustRange(s).err \in Errors
           /\ adjustRange(s).err = "nil" =>
                  adjustRange(s).box \in (1..MaxColumns) \X (1..TotalRows)
                                         \X (1..MaxColumns) \X (1..TotalRows)
           /\ adjustRange(s).err # "nil" => adjustRange(s).box = NoBox
<1> USE BoundsAssumption
<1> DEFINE ref == SelectSeq(After(s, "!"), LAMBDA ch : ch # "$")
           P == Before(ref, ":")
           Q == After(ref, ":")
           a == areaRefToCoordinates(ref)
           c == a.coords
<1>1. a.err \in Errors
    BY DEF areaRefToCoordinates, Errors
<1>2. CASE Len(s) < 1 \/ Cardinality(Positions(s, "!")) # 1
    BY <1>2 DEF adjustRange, Result, Errors
<1>3. CASE ~(Len(s) < 1) /\ Cardinality(Positions(s, "!")) = 1 /\ a.err # "nil"
    BY <1>1, <1>3 DEF adjustRange, Result
<1>4. CASE ~(Len(s) < 1) /\ Cardinality(Positions(s, "!")) = 1 /\ a.err = "nil"
    <2>1. ValidCell(P) /\ ValidCell(Q) /\ c = CellCoordinates(P) \o CellCoordinates(Q)
        BY <1>4 DEF areaRefToCoordinates
    <2> DEFINE p1 == CellCoordinates(P)[1]  p2 == CellCoordinates(P)[2]
               q1 == CellCoordinates(Q)[1]  q2 == CellCoordinates(Q)[2]
    <2>2. p1 \in 1..MaxColumns /\ q1 \in 1..MaxColumns /\ p2 \in 1..TotalRows /\ q2 \in 1..TotalRows
        BY <2>1 DEF ValidCell
    <2>3. c = <<p1, p2>> \o <<q1, q2>>
        <3>1. CellCoordinates(P) = <<p1, p2>> /\ CellCoordinates(Q) = <<q1, q2>>
            BY DEF CellCoordinates
        <3> QED BY <2>1, <3>1
    <2>4. c[1] = p1 /\ c[2] = p2 /\ c[3] = q1 /\ c[4] = q2
        <3>1. /\ (<<p1, p2>> \o <<q1, q2>>)[1] = p1 /\ (<<p1, p2>> \o <<q1, q2>>)[2] = p2
              /\ (<<p1, p2>> \o <<q1, q2>>)[3] = q1 /\ (<<p1, p2>> \o <<q1, q2>>)[4] = q2
            BY <2>2, ConcatPairs
        <3> QED BY <2>3, <3>1
    <2>5. CASE c[1] = c[3] /\ c[2] = c[4]
        BY <1>4, <2>5 DEF adjustRange, Result, Errors
    <2>6. CASE ~(c[1] = c[3] /\ c[2] = c[4])
        <3>1. adjustRange(s) = Result(Before(s, "!"), Order(c[1], c[2], c[3], c[4]), "nil")
            BY <1>4, <2>6 DEF adjustRange
        <3>2. Order(c[1], c[2], c[3], c[4]) \in (1..MaxColumns) \X (1..TotalRows)
                                                \X (1..MaxColumns) \X (1..TotalRows)
            <4> HIDE DEF c, p1, p2, q1, q2
            <4> QED BY <2>2, <2>4 DEF Order
        <3> QED BY <3>1, <3>2 DEF Result, Errors
    <2> QED BY <2>5, <2>6
<1> QED BY <1>2, <1>3, <1>4

LEMMA InvType == Inv => TypeOK
<1>1. CASE rangeStr = <<>> /\ ret = NoRet
    BY <1>1 DEF TypeOK, NoRet, Result, Errors
<1>2. CASE ret = adjustRange(rangeStr)
    BY <1>2, AdjustType DEF TypeOK
<1> QED BY <1>1, <1>2 DEF Inv

(* adjustRange only ever returns one of its errors, a box of in-range     *)
(* coordinates with no error, and no box with an error.                   *)
THEOREM TypeCorrect == Spec => []TypeOK
BY InvInit, InvStep, InvType, PTL DEF Spec

(***************************************************************************)
(* Every range adjustRange accepts is a canonical box: the bounding box   *)
(* of the two corners named, ordered on each axis, of at least two cells, *)
(* on the sheet named before the "!".                                      *)
(***************************************************************************)
THEOREM CanonicalBoxHolds == Spec => []CanonicalBox
BY InvInit, InvStep, InvCanonical, PTL DEF Spec

=============================================================================
