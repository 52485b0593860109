---------------------------- MODULE MacroMeaning ----------------------------
(***************************************************************************)
(* What the expansion of macros means, with hide sets: every token knows   *)
(* the macros in whose replacement it was made, and is not replaced by any *)
(* of them.                                                                *)
(*                                                                         *)
(* The standard leaves open whether a call is nested in a macro if its name*)
(* comes from the replacement of that macro and its last parenthesis does  *)
(* not, so that a list of tokens has a set of expansions.                  *)
(*                                                                         *)
(* A token is a sequence of strings, so that ## joins two of them by \o.   *)
(***************************************************************************)
EXTENDS Integers, Sequences, FiniteSets, SequencesExt

Open == <<"(">>
Shut == <<")">>
Comma == <<",">>
Sharp == <<"#">>
TwoSharps == <<"##">>

IsName(t) == t \notin {Open, Shut, Comma, Sharp, TwoSharps}

-----------------------------------------------------------------------------
(***************************************************************************)
(* The call of a macro: plain tokens that start with a parenthesis.        *)
(***************************************************************************)

Depth(S, i) == Cardinality({j \in 1 .. i : S[j] = Open})
               - Cardinality({j \in 1 .. i : S[j] = Shut})

\* Where the parenthesis that closes the call is; 0 if it is not there.
Closing(S) == SelectInSeq([i \in DOMAIN S |-> Depth(S, i)], LAMBDA d : d = 0)

\* The commas between arguments among the first n tokens.  The last parameter
\* of a variadic macro takes what is left.
Commas(m, S, n) ==
    LET all == {i \in 2 .. n : S[i] = Comma /\ Depth(S, i) = 1}
        nth(i) == Cardinality({j \in all : j <= i})
    IN  IF m.variadic THEN {i \in all : nth(i) < Len(m.params)} ELSE all

\* A macro without parameters takes none; any other takes at least an empty one.
ArgCount(m, S, n) ==
    IF m.params = <<>> /\ n = 2 THEN 0 ELSE Cardinality(Commas(m, S, n)) + 1

\* An argument list that is omitted for the variadic parameter is empty.
CountFits(m, S, n) ==
    \/ ArgCount(m, S, n) = Len(m.params)
    \/ m.variadic /\ ArgCount(m, S, n) = Len(m.params) - 1

\* The places before and after the arguments, and the arguments of W, which is
\* S itself or the same tokens with more known of them.
Cuts(m, S, n) == <<1>> \o SetToSortSeq(Commas(m, S, n), <) \o <<n>>

Arguments(m, S, n, W) ==
    LET cuts == Cuts(m, S, n)
    IN  [k \in DOMAIN m.params |->
            IF k < Len(cuts) THEN SubSeq(W, cuts[k] + 1, cuts[k + 1] - 1) ELSE <<>>]

ParamOf(m, t) == SelectInSeq(m.params, LAMBDA p : p = t)

IsVarArg(m, k) == m.variadic /\ k = Len(m.params)

Text(S) == FlattenSeq(S)

Stringized(S) == <<"string">> \o Text(S)

-----------------------------------------------------------------------------
(***************************************************************************)
(* Expansion.  A hidden token is [t, hide].                                *)
(***************************************************************************)

Plain(H) == [i \in DOMAIN H |-> H[i].t]

Hide(H, names) == [i \in DOMAIN H |-> [H[i] EXCEPT !.hide = @ \cup names]]

Fresh(S) == [i \in DOMAIN S |-> [t |-> S[i], hide |-> {}]]

\* ## of two operands, of which one may be empty.  Tokens that do not form a
\* name together stay two.
Joined(A, B) ==
    IF A = <<>> \/ B = <<>> \/ ~IsName(Last(A).t) \/ ~IsName(Head(B).t) THEN A \o B
    ELSE Front(A) \o <<[t |-> Last(A).t \o Head(B).t,
                        hide |-> Last(A).hide \cap Head(B).hide]>> \o Tail(B)

\* The operand at the place i of the replacement list, as it was written.
Operand(m, i, arg) ==
    LET k == ParamOf(m, m.body[i]) IN IF k # 0 THEN arg[k] ELSE Fresh(<<m.body[i]>>)

IsJoined(m, i) == i < Len(m.body) /\ m.body[i + 1] = TwoSharps

RECURSIVE Chain(_, _, _)
Chain(m, i, arg) ==
    IF IsJoined(m, i) THEN Joined(Operand(m, i, arg), Chain(m, i + 2, arg))
    ELSE Operand(m, i, arg)

\* GNU: a comma before ## and the variadic parameter goes with an empty one.
IsVarComma(m, i) ==
    m.body[i] = Comma /\ IsJoined(m, i) /\ IsVarArg(m, ParamOf(m, m.body[i + 2]))

\* The replacement list with the arguments: arg as they were written, full after
\* an expansion of their own.
Replaced(m, arg, full) ==
    LET b == m.body
        piece(i) ==
            CASE b[i] = TwoSharps \/ (i > 1 /\ b[i - 1] \in {Sharp, TwoSharps}) -> <<>>
              [] b[i] = Sharp ->
                    Fresh(<<Stringized(Plain(arg[ParamOf(m, b[i + 1])]))>>)
              [] IsVarComma(m, i) ->
                    LET v == Operand(m, i + 2, arg)
                    IN  IF v = <<>> THEN <<>> ELSE Fresh(<<Comma>>) \o v
              [] IsJoined(m, i) -> Chain(m, i, arg)
              [] ParamOf(m, b[i]) # 0 -> full[ParamOf(m, b[i])]
              [] OTHER -> Fresh(<<b[i]>>)
    IN  FlattenSeq([i \in DOMAIN b |-> piece(i)])

Wrong == <<[t |-> <<"error">>, hide |-> {}]>>

\* One member of each of the sets of a sequence.
Picks(sets) == {f \in [DOMAIN sets -> UNION Range(sets)] : \A k \in DOMAIN sets : f[k] \in sets[k]}

\* An argument is expanded where its parameter is no operand of # or ##.
IsExpanded(m, k) ==
    \E i \in DOMAIN m.body :
        /\ m.body[i] = m.params[k] /\ ~IsJoined(m, i)
        /\ i = 1 \/ m.body[i - 1] \notin {Sharp, TwoSharps}

RECURSIVE Expansions(_, _, _)

(***************************************************************************)
(* The call S of the macro h.t, with its arguments.  kept are the macros   *)
(* whose replacement has the name but not the end of the call, and in which*)
(* it is taken to be nested all the same.                                  *)
(***************************************************************************)
CallExpansions(M, h, S, n, kept, mode) ==
    LET m    == M[h.t]
        hide == (h.hide \cap S[n].hide) \cup kept \cup {h.t}
        arg  == [k \in DOMAIN m.params |->
                    Hide(Arguments(m, Plain(S), n, S)[k], kept)]
        full == [k \in DOMAIN m.params |->
                    IF ~IsExpanded(m, k) THEN {<<>>}
                    ELSE Expansions(M, arg[k], IF mode = "file" THEN "argument" ELSE mode)]
        rest == SubSeq(S, n + 1, Len(S))
    IN  UNION {IF Wrong \in Range(f) THEN {Wrong}
               ELSE Expansions(M, Hide(Replaced(m, arg, f), hide) \o rest, mode) :
               f \in Picks(full)}

\* What the first token of the list is: a macro that is hidden from itself, or
\* a function-like one without a parenthesis, is like any other name.
Kind(M, h, S) ==
    IF h.t \notin DOMAIN M \/ h.t \in h.hide THEN "plain"
    ELSE IF ~M[h.t].func THEN "object"
    ELSE IF S = <<>> \/ Head(S).t # Open THEN "plain"
    ELSE IF Closing(Plain(S)) = 0 THEN "wrong"
    ELSE IF CountFits(M[h.t], Plain(S), Closing(Plain(S))) THEN "call" ELSE "wrong"

\* In an argument, the parenthesis that follows the replacement which has the
\* name may be left alone.  The strict meaning never does.
MayStay(h, S, mode) ==
    mode = "argument" /\ S # <<>> /\ Head(S).t = Open /\ h.hide \ Head(S).hide # {}

Expansions(M, H, mode) ==
    IF H = <<>> THEN {<<>>}
    ELSE LET h    == Head(H)
             S    == Tail(H)
             n    == Closing(Plain(S))
             kind == Kind(M, h, S)
             asItIs == LET R == Expansions(M, S, mode)
                       IN  {IF r = Wrong THEN Wrong ELSE <<h>> \o r : r \in R}
         IN  (IF kind = "plain" \/ (kind \in {"call", "wrong"} /\ MayStay(h, S, mode))
              THEN asItIs ELSE {})
             \cup
             CASE kind = "plain" -> {}
               [] kind = "object" ->
                    Expansions(M, Hide(Fresh(M[h.t].body), h.hide \cup {h.t}) \o S, mode)
               [] kind = "wrong" -> {Wrong}
               [] kind = "call"  -> UNION {CallExpansions(M, h, S, n, kept, mode) :
                                            kept \in SUBSET (h.hide \ S[n].hide)}

\* What a list of tokens may become.
Meanings(M, S, mode) == {Plain(H) : H \in Expansions(M, Fresh(S), mode)}
=============================================================================
