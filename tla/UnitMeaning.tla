---------------------------- MODULE UnitMeaning ----------------------------
(***************************************************************************)
(* What a unit means, whatever way it is compiled: which of its functions  *)
(* are in error, where each goto leads, and which inline functions the     *)
(* program needs.  A unit is a sequence of tokens with its macros          *)
(* expanded.  A function begins with a token "func", followed by its body  *)
(* from a token "open" to the matching "close".                            *)
(***************************************************************************)
EXTENDS Naturals, Sequences, FiniteSets

Openings(t, a, b) == Cardinality({k \in a..b : t[k].op = "open"})
Closings(t, a, b) == Cardinality({k \in a..b : t[k].op = "close"})

Functions(t) == {p \in DOMAIN t : t[p].op = "func"}

\* The places where the body that is opened at a may end.
Ends(t, a) == {b \in a+1..Len(t) : Openings(t, a, b) = Closings(t, a, b)}

\* The place of the token that closes what is opened at a; 0 if there is none.
Match(t, a) == IF Ends(t, a) = {} THEN 0
               ELSE CHOOSE b \in Ends(t, a) : \A c \in Ends(t, a) : b <= c

Body(t, p) == SubSeq(t, p + 1, Match(t, p + 1))

-----------------------------------------------------------------------------
\* In the body t: the label v is declared by __label__ in the block at a.
DeclaredIn(t, a, v) ==
    \E k \in a+1..Len(t) : /\ t[k].op = "local" /\ t[k].l = v
                           /\ \A j \in a+1..k : t[j].op = "local"

\* The innermost block around place k that declares v; 0 for the function.
ScopeOf(t, k, v) ==
    LET B == {a \in 1..k : /\ t[a].op = "open" /\ k < Match(t, a)
                           /\ DeclaredIn(t, a, v)}
    IN  IF B = {} THEN 0 ELSE CHOOSE a \in B : \A c \in B : c <= a

Uses(t) == {k \in DOMAIN t : t[k].op \in {"goto", "addr"}}

\* The places of the labels v of the scope c.
Places(t, c, v) ==
    {k \in DOMAIN t : t[k].op = "label" /\ t[k].l = v /\ ScopeOf(t, k, v) = c}

\* The places of the label that the token at k is about: there must be one.
Targets(t, k) == Places(t, ScopeOf(t, k, t[k].l), t[k].l)

LabelsInError(t) ==
    \/ \E k \in Uses(t) : Targets(t, k) = {}
    \/ \E k \in DOMAIN t : t[k].op = "label" /\ Targets(t, k) # {k}

BodyInError(t) ==
    \/ \E k \in DOMAIN t : t[k].op \in {"bad", "wrong"}
    \/ LabelsInError(t)

-----------------------------------------------------------------------------
Unclosed(t, p) == Match(t, p + 1) = 0

Redefined(t, p) == \E q \in Functions(t) : q < p /\ t[q].f = t[p].f

\* The unit is in error where its functions are read: in inline ones the
\* statements are not looked at.
InError(t) ==
    \E p \in Functions(t) :
        \/ Redefined(t, p)
        \/ Unclosed(t, p)
        \/ ~ t[p].inline /\ BodyInError(Body(t, p))

CallsIn(t, p) == {Body(t, p)[k].f : k \in {k \in DOMAIN Body(t, p) :
                                            Body(t, p)[k].op = "call"}}

\* The functions of a unit without error that its code must have: those that
\* are not inline, and every inline one that such a function calls.
Needed(t) ==
    LET Plain    == {p \in Functions(t) : ~ t[p].inline}
        Reach[n \in Nat] ==
            IF n = 0 THEN Plain
            ELSE Reach[n - 1] \cup
                 {p \in Functions(t) : \E q \in Reach[n - 1] : t[p].f \in CallsIn(t, q)}
    IN  Reach[Cardinality(Functions(t))]

\* An inline function that is needed is in error.
InlineInError(t) == \E p \in Needed(t) : BodyInError(Body(t, p))
=============================================================================
