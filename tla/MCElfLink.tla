----------------------------- MODULE MCElfLink -----------------------------
(***************************************************************************)
(* The instance of ElfLink for TLC.                                        *)
(***************************************************************************)
EXTENDS ElfLink

Here(type, sec, value)  == [type |-> type, bind |-> "global", sec |-> sec, value |-> value]
Static(sec, value)      == [type |-> "object", bind |-> "local", sec |-> sec, value |-> value]
Undefined(type, bind)   == [type |-> type, bind |-> bind, sec |-> "undef", value |-> 0]

MCProgram ==
    [own_f |-> Here("func", "text", 50), own_v |-> Here("object", "data", 50),
     static_v |-> Static("data", 60),
     lib_f |-> Undefined("func", "global"), lib_v |-> Undefined("object", "global"),
     lib_w |-> Undefined("object", "global"), lib_n |-> Undefined("notype", "global"),
     maybe |-> Undefined("func", "weak"), nowhere |-> Undefined("func", "global"),
     asked |-> Undefined("func", "global")]

MCLibrary ==
    [lib_f |-> [type |-> "func", bind |-> "global", value |-> 1],
     lib_n |-> [type |-> "func", bind |-> "global", value |-> 2],
     lib_v |-> [type |-> "object", bind |-> "global", value |-> 3],
     lib_w |-> [type |-> "object", bind |-> "weak", value |-> 3]]

Use(sec, type, n) == [sec |-> sec, type |-> type, name |-> n]

MCUses ==
    {Use("text", "PC32", n) :
            n \in {"own_f", "static_v", "lib_f", "lib_n", "nowhere", "asked"}}
    \cup {Use("text", "PLT32", n) : n \in {"own_f", "lib_f", "lib_n", "asked"}}
    \cup {Use("text", "GOTPCREL", n) :
            n \in {"own_f", "own_v", "lib_f", "lib_v", "lib_w", "maybe"}}
    \cup {Use("data", "64", n) :
            n \in {"own_v", "static_v", "own_f", "lib_f", "lib_v", "maybe", "asked"}}
    \cup {Use("data", "PC32", n) : n \in {"static_v"}}
=============================================================================
