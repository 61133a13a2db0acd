------------------------- MODULE MC_RangeNormalizer -------------------------
(* Range strings for TLC, built from a sheet name, one or two "!", and   *)
(* corners of one letter and one digit with or without "$" signs.  With  *)
(* MaxColumns 2 and TotalRows 2, column C and row 3 are out of range and *)
(* row 0 is not a row, so each parse error is reached.                   *)
EXTENDS RangeNormalizer

Dollar == {<<>>, <<"$">>}
MCCells == {d \o <<l>> \o e \o <<n>> : d \in Dollar, e \in Dollar,
                                       l \in {"A", "B"}, n \in {"1", "2"}}
EdgeCells == {<<"C", "1">>, <<"A", "0">>, <<"A", "3">>, <<"1", "A">>, <<"A">>}

(* References: two corners, a corner and a bad cell, or a single cell. *)
MCRefs == {p \o <<":">> \o q : p \in MCCells, q \in MCCells}
          \cup {p \o <<":">> \o q : p \in {<<"A", "1">>}, q \in EdgeCells}
          \cup {<<"B", "2">>}

MCRangeStrs == {<<"S", "!">> \o r : r \in MCRefs}
               \cup {<<"!">> \o r : r \in {<<"A", "1", ":", "B", "2">>}}
               \cup {<<"S">> \o r : r \in {<<"A", "1", ":", "B", "2">>}}
               \cup {<<"S", "!", "!", "A", "1", ":", "B", "2">>, <<>>}
=============================================================================
