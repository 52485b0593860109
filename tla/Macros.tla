------------------------------- MODULE Macros -------------------------------
(***************************************************************************)
(* next(), macro_subst_tok, macro_subst, macro_arg_subst and macro_twosharps*)
(* of tccpp.c: the tokens of a file become the tokens the parser reads.    *)
(*                                                                         *)
(* The globals are a record G:                                             *)
(*   file    what is left of the file                                      *)
(*   ptr     macro_ptr: the tokens that are left of a replacement, or NULL *)
(*           if tokens come from the file                                  *)
(*   levels  can_read_stream: the p of each macro_level, the top one last  *)
(*   nested  nested_list: the macros that are being replaced               *)
(*   out     the token string that is filled                               *)
(*   none    macro_subst_tok has returned -1                               *)
(*   stop    "" or why nothing more is read                                *)
(*   lost    a history: MarkEnded has marked what was marked already       *)
(*                                                                         *)
(* Spaces are left out: there is one between two tokens that are no        *)
(* operands of ##.                                                         *)
(***************************************************************************)
EXTENDS MacroMeaning

CONSTANTS
    Definitions,    \* what may be defined: functions from names to macros
    Inputs          \* the tokens a file may have

ASSUME MacrosAssumption ==
    \A M \in Definitions : \A t \in DOMAIN M :
        IsName(t) /\ (M[t].variadic => M[t].func /\ M[t].params # <<>>)

VARIABLES
    macros,     \* the definitions
    input,      \* the tokens of the file
    file,       \* those that are left
    parsed,     \* the tokens the parser has read
    stopped,    \* "" or why nothing more is read
    lost        \* history: the end of a replacement was not marked

vars == <<macros, input, file, parsed, stopped, lost>>

NULL    == <<<<"NULL">>>>
NoSubst == <<"TOK_NOSUBST">>
Blank   == <<" ">>
Ended   == <<"-1">>

Stop(G, why) == [G EXCEPT !.stop = why]
Put(G, S)    == [G EXCEPT !.out = @ \o S]

-----------------------------------------------------------------------------
(***************************************************************************)
(* macro_twosharps                                                         *)
(***************************************************************************)

\* What the joined text of two tokens is read as.
Pasted(t, u) == IF IsName(t) /\ IsName(u) /\ Blank \notin {t, u} THEN <<t \o u>> ELSE <<t, u>>

RECURSIVE SkipMarks(_)
SkipMarks(S) == IF S # <<>> /\ Head(S) = NoSubst THEN SkipMarks(Tail(S)) ELSE S

Cut(S, n) == IF n >= 0 THEN SubSeq(S, 1, n) ELSE S

\* "given 'a##b', remove nosubsts preceding 'a'"
WithoutMarks(R) == [R EXCEPT !.out = Cut(@, R.start)]

\* R holds the token tok, the tokens that follow it, the string that is made and
\* start_of_nosubsts.
RECURSIVE AllJoined(_)
AllJoined(R) ==
    IF R.rest = <<>> \/ Head(R.rest) # TwoSharps THEN R
    ELSE LET L     == WithoutMarks(R)
             right == SkipMarks(Tail(R.rest))
         IN  IF right = <<>> \/ Head(right) = TwoSharps THEN AllJoined([L EXCEPT !.rest = right])
             ELSE LET P == Pasted(L.tok, Head(right))
                  IN  AllJoined([L EXCEPT !.tok = Last(P), !.rest = Tail(right),
                                          !.out = @ \o Front(P)])

RECURSIVE TwoSharpsFrom(_, _, _)
TwoSharpsFrom(S, out, start) ==
    IF S = <<>> THEN out
    ELSE IF Head(S) = TwoSharps THEN TwoSharpsFrom(Tail(S), out, start)
    ELSE LET mark == IF Head(S) = NoSubst /\ start < 0 THEN Len(out) ELSE start
             J    == AllJoined([tok |-> Head(S), rest |-> Tail(S), out |-> out, start |-> mark])
         IN  TwoSharpsFrom(J.rest, Append(J.out, J.tok), IF J.tok = NoSubst THEN mark ELSE -1)

macro_twosharps(S) ==
    IF Contains(S, TwoSharps)
    THEN SelectSeq(TwoSharpsFrom(S, <<>>, -1), LAMBDA t : t # Blank) ELSE S

-----------------------------------------------------------------------------
(***************************************************************************)
(* macro_subst and macro_subst_tok                                         *)
(***************************************************************************)

RECURSIVE SubstFrom(_, _, _), SubstTok(_, _, _)

\* A macro_level, through which a call can read what follows the replacement.
Enter(G, rest, stream) ==
    [G EXCEPT !.ptr = rest, !.levels = IF stream THEN Append(@, G.ptr) ELSE @]

\* macro_ptr = ml.p, which is NULL if the call has read on there.
Leave(C, G, stream) ==
    LET d == Len(G.levels) + 1
    IN  CASE ~stream -> [C EXCEPT !.ptr = G.ptr]
          [] stream /\ Len(C.levels) >= d ->
                [C EXCEPT !.ptr = C.levels[d], !.levels = SubSeq(@, 1, d - 1)]
          [] stream /\ Len(C.levels) < d -> [C EXCEPT !.ptr = NULL]

\* Mutant: a macro that is being replaced is kept, but not marked.
Kept_Plain(t) == <<t>>

\* "mark it as TOK_NOSUBST, so it doesn't get subst'd again"
Kept(t) == <<NoSubst, t>>

SubstFrom(G, ptr, stream) ==
    IF G.stop # "" \/ ptr = NULL \/ ptr = <<>> THEN G
    ELSE LET t    == Head(ptr)
             rest == Tail(ptr)
         IN  IF t = NoSubst THEN
                 SubstFrom(Put(G, SubSeq(ptr, 1, 2)), Tail(rest), stream)
             ELSE IF t \notin DOMAIN macros THEN SubstFrom(Put(G, <<t>>), rest, stream)
             ELSE IF Contains(G.nested, t) THEN SubstFrom(Put(G, Kept(t)), rest, stream)
             ELSE LET C == SubstTok(Enter(G, rest, stream), t, stream)
                      L == Leave(C, G, stream)
                  IN  SubstFrom(IF C.none THEN Put(L, <<t>>) ELSE L, C.ptr, stream)

macro_subst(G, S, stream) == SubstFrom(G, macro_twosharps(S), stream)

\* "also, end of scope for nested defined symbol"
MarkEnded(nested) == [nested EXCEPT ![Len(nested)] = Ended]

\* "end of macro stream: we must look at the token after in the file"
RECURSIVE ToParenthesis(_, _)
ToParenthesis(G, stream) ==
    IF G.ptr # <<>> \/ ~stream THEN G
    ELSE ToParenthesis(
            [G EXCEPT !.ptr    = IF G.levels = <<>> THEN NULL ELSE Last(G.levels),
                      !.levels = IF @ = <<>> THEN @ ELSE Front(@),
                      !.nested = MarkEnded(@),
                      !.lost   = @ \/ Last(G.nested) = Ended], stream)

Source(G) == IF G.ptr = NULL THEN G.file ELSE G.ptr

Consume(G, n) ==
    LET S == SubSeq(Source(G), n + 1, Len(Source(G)))
    IN  IF G.ptr = NULL THEN [G EXCEPT !.file = S] ELSE [G EXCEPT !.ptr = S]

(***************************************************************************)
(* What is wrong with the call S.  A call that is not closed in the tokens *)
(* of a macro is read for ever: next_nomacro_spc stays at their end, and   *)
(* only the end of the file ends an argument.                              *)
(***************************************************************************)
CallError(m, G, S) ==
    LET n == Closing(S)
    IN  CASE n # 0 /\ CountFits(m, S, n) -> ""
          [] n # 0 /\ ~CountFits(m, S, n) -> "error"
          [] n = 0 /\ Cardinality(Commas(m, S, Len(S))) >= Len(m.params) -> "error"
          [] n = 0 /\ Cardinality(Commas(m, S, Len(S))) < Len(m.params) ->
                IF G.ptr = NULL THEN "error" ELSE "endless"

\* "NOTE: the stream cannot be read when macro substituing an argument"
ArgStream == FALSE

\* The argument arg of the parameter at the place i as an operand of ##.  If it
\* is empty then the space beside it is the operand.
RawArgument(G, m, i, arg, last) ==
    IF /\ IsVarArg(m, ParamOf(m, m.body[i])) /\ last = TwoSharps
       /\ Len(G.out) >= 2 /\ G.out[Len(G.out) - 1] = Comma
    THEN [G EXCEPT !.out = IF arg = <<>> THEN Cut(@, Len(@) - 2) ELSE Cut(@, Len(@) - 1) \o arg]
    ELSE IF arg = <<>> /\ ~(last = TwoSharps /\ IsJoined(m, i)) THEN Put(G, <<Blank>>)
    ELSE Put(G, arg)

\* macro_arg_subst; i and last are the place and last_tok
RECURSIVE ArgSubst(_, _, _, _, _)
ArgSubst(G, m, args, i, last) ==
    IF i > Len(m.body) \/ G.stop # "" THEN G
    ELSE LET t == m.body[i]
             k == ParamOf(m, t)
         IN  IF t = Sharp THEN
                 LET arg == args[ParamOf(m, m.body[i + 1])]
                 IN  ArgSubst(Put(G, <<Stringized(arg)>>), m, args, i + 2,
                              IF arg = <<>> THEN m.body[i + 1] ELSE Last(arg))
             ELSE IF k = 0 THEN ArgSubst(Put(G, <<t>>), m, args, i + 1, t)
             ELSE IF IsJoined(m, i) \/ last = TwoSharps THEN
                 ArgSubst(RawArgument(G, m, i, args[k], last), m, args, i + 1, t)
             ELSE ArgSubst(macro_subst(G, args[k], ArgStream), m, args, i + 1, t)

Rescan(G, t, S, stream) ==
    LET R == macro_subst([G EXCEPT !.nested = Append(@, t)], S, stream)
    IN  [R EXCEPT !.nested = Front(@), !.none = FALSE]

SubstTok(G, t, stream) ==
    LET m == macros[t]
        P == ToParenthesis(G, stream)
        S == Source(P)
        A == ArgSubst([Consume(P, Closing(S)) EXCEPT !.out = <<>>], m,
                      Arguments(m, S, Closing(S), S), 1, <<>>)
    IN  IF ~m.func THEN Rescan(G, t, m.body, stream)
        ELSE IF S = <<>> \/ Head(S) # Open THEN [P EXCEPT !.none = TRUE]
        ELSE IF CallError(m, P, S) # "" THEN Stop(P, CallError(m, P, S))
        ELSE IF A.stop # "" THEN A
        ELSE Rescan([A EXCEPT !.out = P.out], t, A.out, stream)

-----------------------------------------------------------------------------
(***************************************************************************)
(* next()                                                                  *)
(***************************************************************************)

Init ==
    /\ macros \in Definitions /\ input \in Inputs /\ file = input
    /\ parsed = <<>> /\ stopped = "" /\ lost = FALSE

\* The expansion of the next token of the file.
Expanded ==
    LET G == [file |-> Tail(file), ptr |-> NULL, levels |-> <<>>, nested |-> <<>>,
              out |-> <<>>, none |-> FALSE, stop |-> "", lost |-> lost]
        t == Head(file)
    IN  IF t \in DOMAIN macros THEN SubstTok(G, t, TRUE) ELSE [G EXCEPT !.none = TRUE]

next ==
    /\ stopped = "" /\ file # <<>>
    /\ LET C == Expanded
       IN  /\ file' = C.file /\ stopped' = C.stop /\ lost' = C.lost
           /\ parsed' = parsed \o (IF C.none THEN <<Head(file)>>
                                   ELSE SelectSeq(C.out, LAMBDA t : t # NoSubst))
    /\ UNCHANGED <<macros, input>>

Spec == Init /\ [][next]_vars

-----------------------------------------------------------------------------
(***************************************************************************)
(* Properties.                                                             *)
(***************************************************************************)

IsRead == file = <<>> \/ stopped # ""

\* A string made by # has the marks of its argument in it.
Readable(t) ==
    IF Head(t) = "string" THEN SelectSeq(t, LAMBDA c : c # "TOK_NOSUBST") ELSE t

(***************************************************************************)
(* The parser reads what the macros of the file mean, and an error is      *)
(* reported exactly if a call of a macro is wrong, while the end of each   *)
(* replacement is noticed; except for the marks in strings and for calls   *)
(* that are read without end.                                              *)
(***************************************************************************)
ExpansionExact ==
    IsRead /\ ~lost =>
        CASE stopped = ""      -> [i \in DOMAIN parsed |-> Readable(parsed[i])]
                                    \in Meanings(macros, input, "file")
          [] stopped = "error" -> Plain(Wrong) \in Meanings(macros, input, "file")
          [] OTHER -> TRUE

(***************************************************************************)
(* The scope of a macro ends where its replacement does ("also, end of     *)
(* scope for nested defined symbol"), so that all that is read is what the *)
(* macros mean.                                                            *)
(***************************************************************************)
ScopesEnd == IsRead => \/ parsed \in Meanings(macros, input, "strict")
                       \/ Plain(Wrong) \in Meanings(macros, input, "strict")
=============================================================================
