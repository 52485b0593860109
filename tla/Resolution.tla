----------------------------- MODULE Resolution -----------------------------
(***************************************************************************)
(* What the linker promises about the definitions of a name, in whatever   *)
(* order files bring them: a definition yields to a stronger one only, a   *)
(* common one also to another common one, and two definitions that both    *)
(* claim the name are reported.                                            *)
(***************************************************************************)
EXTENDS Integers

CONSTANT Names

VARIABLES
    kept,       \* name -> [kind, def]: the definition that is used
    twice       \* the names reported as defined twice

Strength(kind) ==
    CASE kind = "none" -> 0 [] kind = "undef"  -> 1 [] kind = "weak" -> 2
      [] kind = "common" -> 3 [] kind = "strong" -> 4

Init ==
    /\ kept = [n \in Names |-> [kind |-> "none", def |-> 0]]
    /\ twice = {}

Stronger(n) ==
    /\ Strength(kept'[n].kind) > Strength(kept[n].kind)
    /\ UNCHANGED twice

\* Which of two common definitions is used is left open.
AnotherCommon(n) ==
    /\ kept[n].kind = "common" /\ kept'[n].kind = "common"
    /\ UNCHANGED twice

Report(n) ==
    /\ kept[n].kind \in {"common", "strong"}
    /\ kept' = kept
    /\ twice' = twice \cup {n}

\* The file of a definition declares it weak afterwards.
Weakened(n) ==
    /\ kept[n].kind \in {"common", "strong"}
    /\ kept'[n] = [kept[n] EXCEPT !.kind = "weak"]
    /\ UNCHANGED twice

Next ==
    \E n \in Names :
        /\ \A other \in Names \ {n} : kept'[other] = kept[other]
        /\ Stronger(n) \/ AnotherCommon(n) \/ Report(n) \/ Weakened(n)

Spec == Init /\ [][Next]_<<kept, twice>>
=============================================================================
