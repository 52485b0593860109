------------------------------ MODULE MCMacros ------------------------------
(***************************************************************************)
(* Instances of Macros for TLC.                                            *)
(***************************************************************************)
EXTENDS Macros

Tokens(S)   == [i \in DOMAIN S |-> <<S[i]>>]
Lists(A, n) == {Tokens(S) : S \in UNION {[1 .. k -> A] : k \in 0 .. n}}

Object(body) == [func |-> FALSE, variadic |-> FALSE, params |-> <<>>, body |-> body]
Function(params, body) ==
    [func |-> TRUE, variadic |-> FALSE, params |-> Tokens(params), body |-> body]
Variadic(params, body) == [Function(params, body) EXCEPT !.variadic = TRUE]

(***************************************************************************)
(* Nested replacements, and calls that begin in one and go on after it.    *)
(***************************************************************************)
Nested ==
    {<<"a">> :> Object(a) @@ <<"b">> :> Object(b) @@ <<"f">> :> Function(<<"x">>, f) :
        a \in Lists({"a", "b", "f", "(", ")"}, 2),
        b \in Lists({"a", "f", "z"}, 2) \cup {Tokens(<<"f", "(", "a", ")">>)},
        f \in Lists({"x", "a", "f", "z"}, 2) \cup {Tokens(<<"f", "(", "x", ")">>)}}

(***************************************************************************)
(* # and ## with their operands, and what they make.                       *)
(***************************************************************************)
Pieces == {<<>>, <<"x">>, <<"y">>, <<"a">>, <<"#", "x">>, <<"x", "##", "y">>, <<"z", "##", "x">>,
           <<"x", "##", "y", "##", "b">>, <<"g", "(", "x", ",", "b", ")">>}

Operators ==
    {<<"a">> :> Object(Tokens(a)) @@ <<"a", "b">> :> Object(Tokens(ab))
     @@ <<"g">> :> Function(<<"x", "y">>, Tokens(p \o q)) @@ <<"s">> :> Function(<<"x">>, Tokens(r)) :
        a \in {<<>>, <<"a">>, <<"b">>, <<"s">>}, ab \in {<<"a", "b">>, <<"a">>, <<"g">>},
        p \in Pieces, q \in Pieces, r \in {<<"#", "x">>, <<"x">>, <<"g", "(", "x", ",", "x", ")">>}}

(***************************************************************************)
(* The variadic parameter.                                                 *)
(***************************************************************************)
VariadicMacros ==
    {<<"a">> :> Object(Tokens(a)) @@ <<"g">> :> Variadic(<<"x", "y">>, Tokens(g)) :
        a \in {<<>>, <<"a">>, <<"g">>, <<"b", ",", "b">>},
        g \in {<<"x", ",", "##", "y">>, <<"x", ",", "y">>, <<"#", "y">>, <<"y", "##", "x">>,
               <<"g", "(", "x", ",", "##", "y", ")">>, <<"g", "(", "y", ")", "x">>}}

MCDefinitions == Nested \cup Operators \cup VariadicMacros

MCInputs == {Tokens(S) : S \in
    {<<"a">>, <<"a", "(", "a", ")">>, <<"f", "(", "a", ")", "(", "z", ")">>,
     <<"f", "(", "f", ")", "(", "a", ")">>, <<"b", "a", "(", "f", ")", "(", "b", ")">>,
     <<"g", "(", "a", ",", "b", ")">>, <<"g", "(", "a", ",", ")">>, <<"g", "(", ",", "a", ")">>,
     <<"g", "(", ")">>, <<"g", "(", "a", ")", "z">>, <<"g", "(", "g", "(", "a", ",", "b", ")", ",", "b", ")">>,
     <<"g", "(", "(", "a", ",", "b", ")", ",", "a", "b", ")">>, <<"g", "(", "a", ",", "b", ",", "z", ")">>,
     <<"s", "(", "g", "(", "a", ",", "b", ")", ")">>, <<"g", "(", "a", "(", "b">>}}
-----------------------------------------------------------------------------
(***************************************************************************)
(* Replacements that end with the name of a macro with parameters, three   *)
(* deep.                                                                   *)
(***************************************************************************)
MCScopes ==
    {<<"a">> :> Object(a) @@ <<"b">> :> Object(b) @@ <<"c">> :> Object(c)
     @@ <<"f">> :> Function(<<"x">>, Tokens(<<"x">>)) :
        a \in Lists({"b", "z"}, 2), b \in Lists({"c", "z"}, 2), c \in Lists({"f", "z"}, 2)}

MCScopesInputs == {Tokens(<<"a">>), Tokens(<<"a", "b", "(", "z", ")">>)}
=============================================================================
