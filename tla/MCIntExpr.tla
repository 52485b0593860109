----------------------------- MODULE MCIntExpr -----------------------------
(***************************************************************************)
(* The instance of IntExpr for TLC.                                        *)
(***************************************************************************)
EXTENDS IntExpr

CONSTANTS ByteBits, ShortBits, IntBits, LongBits

MCBits == [BYTE |-> ByteBits, SHORT |-> ShortBits, INT |-> IntBits, LLONG |-> LongBits]

Byte == Type("BYTE", FALSE)
UByte == Type("BYTE", TRUE)

\* Operators over types of three widths
Operators == [ops |-> {"+", "-", "*", "/", "%", "&", "<<", ">>", "<"},
              literals |-> {INT, ULLONG}, variables |-> {UByte, INT, UINT, LLONG},
              casts |-> {Byte, UINT, LLONG}, fields |-> {},
              depth |-> 2, const_wanted |-> FALSE]

\* Casts and assignments one after the other, of all types
Cascades == [ops |-> {}, literals |-> {INT, LLONG}, variables |-> IntTypes, casts |-> IntTypes,
             fields |-> {}, depth |-> 1, const_wanted |-> FALSE]

\* Bit-fields
Fields == [ops |-> {"+", "-", "|", "<", ">>"}, literals |-> {INT}, variables |-> {Byte}, casts |-> {LLONG},
           fields |-> {<<INT, 0, 2>>, <<UINT, 1, 2>>, <<UINT, 0, IntBits>>, <<ULLONG, IntBits - 1, 2>>},
           depth |-> 2, const_wanted |-> FALSE]

\* Constant expressions
Constant == [ops |-> {"+", "-", "*", "/", "^", ">>", "<=", "=="}, literals |-> {INT, UINT, ULLONG}, variables |-> {},
             casts |-> {BOOL, Byte, Type("SHORT", TRUE), LLONG},
             fields |-> {}, depth |-> 2, const_wanted |-> TRUE]

MCSessions == [operators |-> Operators, cascades |-> Cascades, fields |-> Fields,
               constant |-> Constant]
=============================================================================
