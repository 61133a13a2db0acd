---------------------------- MODULE MC_PivotFields ----------------------------
(* Instances of PivotFields for TLC: header names are model values, a     *)
(* display name is a string of one or three characters, MaxFieldLength   *)
(* is 2 so that the three-character name is truncated.  "a" and "b" are   *)
(* one byte wide in UTF-8, "k" stands for a CJK character of three bytes.  *)
EXTENDS PivotFields

CONSTANTS Month, Year, Sales, Bogus

(* Lists of at most n elements of S. *)
ListsUpTo(S, n) == UNION {[1..k -> S] : k \in 0..n}

AxisField(names, dflt) ==
    [data : names, name : {<<"a">>}, subtotal : {""}, defaultSubtotal : dflt]

(* Header rows with distinct names; a data range with a repeated header. *)
MCHeaders == {<<Month, Sales>>, <<Sales, Year, Month>>}
DupHeaders == {<<Month, Month>>}

MCRows == ListsUpTo(AxisField({Month, Sales, Bogus}, BOOLEAN), 2)
MCColumns == ListsUpTo(AxisField({Month, Sales, Bogus}, BOOLEAN), 1)
MCFilter == ListsUpTo(AxisField({Month, Sales, Bogus}, {FALSE}), 1)
MCData == ListsUpTo([data : {Month, Sales, Bogus}, name : {<<"a">>},
                     subtotal : {"countnums", "bogus"}, defaultSubtotal : {FALSE}], 2)

(* Data and filter fields with distinct names, some longer than 2. *)
NamedData == ListsUpTo([data : {Sales, Bogus}, name : {<<"a">>, <<"b", "b", "b">>},
                        subtotal : {"sum", "average"}, defaultSubtotal : {FALSE}], 2)
NamedFilter == ListsUpTo([data : {Month, Bogus}, name : {<<"a">>, <<"b">>},
                          subtotal : {""}, defaultSubtotal : {FALSE}], 2)
NoFields == {<<>>}

MCCharBytes == [c \in {"a", "b", "k"} |-> IF c = "k" THEN 3 ELSE 1]

(* Data fields named with one character of one or of three bytes. *)
WideData == ListsUpTo([data : {Sales}, name : {<<"a">>, <<"k">>},
                       subtotal : {"sum"}, defaultSubtotal : {FALSE}], 1)
=============================================================================
