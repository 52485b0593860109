--------------------------- MODULE MCInitializers ---------------------------
(***************************************************************************)
(* Instances of Initializers for TLC.                                      *)
(***************************************************************************)
EXTENDS Initializers

Scalar1(b, n) == [bt |-> b, size |-> n, align |-> n, array |-> FALSE, fields |-> <<>>]
CHAR == Scalar1("BYTE", 1)
INT == Scalar1("INT", 4)
LLONG == Scalar1("LLONG", 8)

Only(scalars, members, structs) ==
    [scalars |-> scalars, arrays |-> {}, widths |-> {}, attributes |-> {NoAttribute}, pragmas |-> {},
     members |-> members, tags |-> structs, storage |-> {}, lengths |-> {}, values |-> {}]

MCSessions ==
    \* bit-fields and ordinary members, flexible arrays
    [ layouts |-> [Only({CHAR, INT}, 3, 1) EXCEPT
                      !.arrays = {ArrayOf(CHAR, 3), ArrayOf(INT, -1)}, !.widths = {0, 6, 20}],
      wide |-> [Only({CHAR, LLONG}, 3, 1) EXCEPT !.widths = {0, 8, 40}],
    \* attributes and #pragma pack, anonymous structs
      packed |-> [Only({CHAR, INT}, 3, 1) EXCEPT
                      !.attributes = {NoAttribute, Packed, 8}, !.pragmas = {0, 2}],
      anonymous |-> [Only({INT}, 2, 2) EXCEPT !.widths = {12}],
    \* objects: structs in structs, bit-fields, arrays of structs, strings
      nested |-> [Only({CHAR}, 2, 2) EXCEPT !.storage = BOOLEAN, !.values = {1}],
      bits |-> [Only({INT}, 3, 1) EXCEPT !.widths = {3}, !.storage = BOOLEAN, !.values = {1}],
      lists |-> [Only({CHAR}, 2, 1) EXCEPT !.storage = BOOLEAN, !.values = {1, 2}, !.lengths = {2, -1}],
      strings |-> [Only({CHAR}, 2, 1) EXCEPT !.storage = BOOLEAN, !.values = {1},
                      !.arrays = {ArrayOf(CHAR, 2), ArrayOf(CHAR, -1)}] ]
=============================================================================
