----------------------------- MODULE MCSymTable -----------------------------
(* Instances of SymTable for TLC: Sym objects and names are interchangeable. *)
EXTENDS SymTable, TLC

Symmetry == Permutations(Slots) \cup Permutations(Names)
=============================================================================
