------------------------------ MODULE MCElfSym ------------------------------
(***************************************************************************)
(* Instances of ElfSym for TLC: names that share the bucket of the first   *)
(* table, one of which is told apart by the next one.  One of them has     *)
(* every kind of symbol.                                                   *)
(***************************************************************************)
EXTENDS ElfSym, TLC

CONSTANTS foo, bar, baz

MCHash == foo :> 1 @@ bar :> 3 @@ baz :> 2

MCLoadable ==
    [name : {foo}, bind : {"weak", "global"}, sec : Secs, vis : {0, 2, 3}]
    \cup [name : {bar, baz}, bind : {"global"}, sec : {"undef", "sec"}, vis : {0}]
    \cup [name : {foo}, bind : {"local"}, sec : {"sec"}, vis : {0}]
=============================================================================
