------------------------------- MODULE Scopes -------------------------------
(***************************************************************************)
(* What a symbol table promises: every name has at most one visible        *)
(* declaration, opening a scope keeps what is visible, closing it gives    *)
(* back exactly what was visible when it was opened, and a declaration of  *)
(* global extent made inside a scope outlives that scope.                  *)
(***************************************************************************)
EXTENDS Naturals, Sequences

CONSTANTS
    Names,  \* identifiers and struct tags
    Decls,  \* declarations
    None    \* no declaration

VARIABLES
    env,    \* env[n]: the visible declaration of n
    saved   \* the env to return to, one for each open scope

vars == <<env, saved>>

Env == [Names -> Decls \cup {None}]

Empty == [n \in Names |-> None]

TypeOK == env \in Env /\ saved \in Seq(Env)

Init == env = Empty /\ saved = <<>>

\* A declaration in the innermost scope hides the one that was visible.
Declare(n, d) ==
    /\ env' = [env EXCEPT ![n] = d]
    /\ UNCHANGED saved

\* A declaration of global extent, of a name that is not visible.
DeclareGlobally(n, d) ==
    /\ env[n] = None
    /\ env' = [env EXCEPT ![n] = d]
    /\ saved' = [k \in DOMAIN saved |-> [saved[k] EXCEPT ![n] = d]]

Open ==
    /\ saved' = Append(saved, env)
    /\ UNCHANGED env

Close ==
    /\ saved # <<>>
    /\ env' = saved[Len(saved)]
    /\ saved' = SubSeq(saved, 1, Len(saved) - 1)

\* The end of a translation unit.
Reset == env' = Empty /\ saved' = <<>>

Next ==
    \/ \E n \in Names, d \in Decls : Declare(n, d) \/ DeclareGlobally(n, d)
    \/ Open \/ Close \/ Reset

Spec == Init /\ [][Next]_vars
=============================================================================
