----------------------------- MODULE MCCallConv -----------------------------
(***************************************************************************)
(* The instance of CallConv for TLC: four registers for integers and three *)
(* for floats, so that few arguments fill them.                            *)
(***************************************************************************)
EXTENDS CallConv

I == Scalar("integer")
D == Scalar("sse")
L == Scalar("x87")
II == Struct(<<"integer", "integer">>)
DD == Struct(<<"sse", "sse">>)
DI == Struct(<<"sse", "integer">>)
III == Struct(<<"integer", "integer", "integer">>)
LI == Struct(<<"x87", "integer">>)
Empty == Struct(<<>>)
IorL == Union(<<"integer", "x87">>)

Lists(S, n) == UNION {[1 .. k -> S] : k \in 0 .. n}

Calling(ps, ms, rs) ==
    [params : ps, more : ms, variadic : {ms # {<<>>}}, ret : rs]

MCCalls == UNION {
    \* functions whose parameters are all named
    Calling(Lists({I, D, L, II, DD, III, Empty}, 4), {<<>>}, {I}),
    Calling(Lists({I, D, DI, LI, IorL}, 3), {<<>>}, {I}),
    \* that return a struct in memory
    Calling(Lists({I, D, L, II, III}, 3), {<<>>}, {III}),
    \* variadic ones
    Calling(Lists({I, D, II, DD, L}, 2), Lists({I, D, L, III}, 3), {I}),
    Calling({<<I>>, <<II, II, I>>}, Lists({I, II, DD}, 2), {I, III})}
=============================================================================
