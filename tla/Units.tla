------------------------------- MODULE Units -------------------------------
(***************************************************************************)
(* How the functions of a unit come to be compiled: the tokens that next() *)
(* gives (from the file, from the expansion of a macro, from a recorded    *)
(* inline function, or pushed back by unget_tok), decl() and gen_function  *)
(* with the labels of their blocks, the recording of static inline         *)
(* functions and the passes of gen_inline_functions, and tcc_error, which  *)
(* leaves a unit by longjmp or ends the process.  A state may compile many *)
(* units, and nothing but what is modelled here is reset between them.     *)
(*                                                                         *)
(* A token is a record [op, ...] that stands for a whole statement or      *)
(* bracket; tok is the one that was read last.  Macros have one name, and  *)
(* its replacement is Expansion.                                           *)
(*    func f inline   the head of the definition of the static function f  *)
(*    open, close     { and }                                              *)
(*    local l         an item of __label__, at the start of a block        *)
(*    goto l, label l, addr l (an expression with &&l)                     *)
(*    call f          a call of f, which the unit has declared before      *)
(*    bad             an expression that starts with an undeclared name    *)
(*    wrong           an error in a statement that starts with no name     *)
(***************************************************************************)
EXTENDS Labels

CONSTANTS
    Funcs,      \* the names of functions
    Texts,      \* the units there are: sequences of tokens
    Expansion,  \* the tokens a macro expands to
    MaxStale    \* bound: labels left by errors when a unit starts

LabelOps == {"local", "goto", "label", "addr"}

Tokens == [op : {"open", "close", "bad", "wrong", "macro"}]
          \cup [op : LabelOps, l : Names]
          \cup [op : {"call"}, f : Funcs]
          \cup [op : {"func"}, f : Funcs, inline : BOOLEAN]

EndOfFile == [op |-> "eof"]

ASSUME UnitsAssumption ==
    /\ MaxStale \in Nat
    /\ Texts \subseteq Seq(Tokens)
    /\ Expansion \in Seq(Tokens) /\ Expansion # <<>>
    /\ \A p \in DOMAIN Expansion : Expansion[p].op # "macro"
    /\ \A text \in Texts : \A p \in DOMAIN text :
          text[p].op = "func" => p < Len(text) /\ text[p + 1].op = "open"

VARIABLES
    phase,      \* "idle", "decl", "record", "body", "passes", "returned";
                \* "exited": exit(1); "undefined": freed memory was used
    text,       \* the unit being compiled
    input,      \* where next() reads: macro_ptr, unget_buffer_enabled,
                \* unget_saved_macro_ptr and the rest of the file
    tok,
    labels,     \* the label table
    llabels,    \* llabel of each active block(): depths of local_label_stack
    fn,         \* the function read or generated, and its tokens so far
    defined,    \* functions of the unit that have been defined
    used,       \* functions with an ELF symbol (sym->c)
    inline_fns, \* inline_fns of the state: a function or Null, and its tokens
    i, inline_generated,    \* of gen_inline_functions
    jmp,        \* error_set_jmp_enabled
    failed,     \* nb_errors # 0
    code,       \* a cell for each token: the address it leads to, or 0
    outs,       \* the functions generated, with the place of their code
    clean_start,    \* history: no error had left anything when the unit started
    tainted     \* history: an error has left something that is used again

parser  == <<phase, input, tok, fn, llabels>>
symbols == <<defined, used>>
inlines == <<inline_fns, i, inline_generated>>
output  == <<code, outs>>
errors  == <<jmp, failed, clean_start, tainted>>
vars    == <<phase, text, input, tok, labels, llabels, fn, defined, used,
             inline_fns, i, inline_generated, jmp, failed, code, outs,
             clean_start, tainted>>

NoFunction == [f |-> Null, toks |-> <<>>, start |-> 0]

-----------------------------------------------------------------------------
(* next() and unget_tok()                                                  *)

\* At the end of the buffer of unget_tok: back to where it was read from.
Unstacked(in) == [in EXCEPT !.macro = in.saved, !.unget = FALSE, !.saved = Null]

\* At the end of a token string.
AtStringEnd(in) ==
    IF in.macro # <<>> THEN in
    ELSE IF in.unget THEN Unstacked(in) ELSE [in EXCEPT !.macro = Null]

\* The input from which the next token comes (the label redo of next()).
Settled(in) == AtStringEnd(AtStringEnd(in))

\* next(): the token, and the input after it.
Token(in) ==
    LET s == Settled(in)
    IN  IF s.macro # Null THEN Head(s.macro)
        ELSE IF s.file = <<>> THEN EndOfFile
        ELSE IF Head(s.file).op = "macro" THEN Head(Expansion)
        ELSE Head(s.file)

After(in) ==
    LET s == Settled(in)
    IN  IF s.macro # Null THEN [s EXCEPT !.macro = Tail(@)]
        ELSE IF s.file = <<>> THEN s
        ELSE IF Head(s.file).op = "macro"
             THEN [s EXCEPT !.macro = Tail(Expansion), !.file = Tail(@)]
        ELSE [s EXCEPT !.file = Tail(@)]

\* The input after a statement that starts with a name: is_label reads the
\* token after the name and gives it to unget_tok, which keeps macro_ptr only
\* when the buffer is not in use; next() restores what was kept.
AfterName(in) == IF in.unget THEN Unstacked(in) ELSE in

\* The same where an error is raised before the buffer is left.
AtName(in) == IF in.unget THEN [in EXCEPT !.macro = <<>>]
              ELSE [macro |-> <<>>, unget |-> TRUE, saved |-> in.macro,
                    file |-> in.file]

StartsWithName == {"label", "addr", "call"}

\* The current token is consumed and the next one read.
Next1(in) == /\ tok' = Token(in)
             /\ input' = After(in)

Advance == Next1(IF tok.op \in StartsWithName THEN AfterName(input) ELSE input)

-----------------------------------------------------------------------------
(* Starting a unit, the end of a unit, errors                              *)

Clean == /\ labels.global = <<>> /\ labels.local = <<>> /\ labels.dangling = {}
         /\ input.macro = Null /\ ~ input.unget

Init ==
    /\ phase = "idle" /\ text = <<>> /\ tok = EndOfFile
    /\ input = [macro |-> Null, unget |-> FALSE, saved |-> Null, file |-> <<>>]
    /\ labels = NoLabels
    /\ llabels = <<>> /\ fn = NoFunction
    /\ defined = {} /\ used = {}
    /\ inline_fns = <<>> /\ i = 1 /\ inline_generated = FALSE
    /\ jmp = FALSE /\ failed = FALSE
    /\ code = <<>> /\ outs = <<>>
    /\ clean_start = TRUE /\ tainted = FALSE

\* Addresses in the code of this unit are in no function of later ones.
Rebased(L) ==
    [L EXCEPT !.sym = [s \in Slots |->
        IF s \in OnStack(L) THEN [L.sym[s] EXCEPT !.jumps = {}, !.jnext = 0, !.refs = {}]
        ELSE Unused]]

\* tcc_compile: the label table and the input are as the last unit left them.
StartUnit ==
    /\ phase = "idle"
    /\ Len(labels.global) + Len(labels.local) <= MaxStale
    /\ \E t \in Texts :
          /\ text' = t
          /\ Next1([input EXCEPT !.file = t])
    /\ phase' = "decl"
    /\ jmp' = TRUE /\ failed' = FALSE
    /\ clean_start' = Clean /\ tainted' = ~ Clean
    /\ UNCHANGED <<labels, llabels, fn, symbols, inlines, output>>

\* tcc_error: to the end of tcc_compile, or the end of the process; L is the
\* label table and in the input that are left.
Error(L, in) ==
    /\ phase' = IF jmp THEN "passes" ELSE "exited"
    /\ labels' = L /\ input' = in
    /\ llabels' = <<>> /\ fn' = NoFunction /\ tok' = EndOfFile
    /\ i' = 1 /\ inline_generated' = FALSE
    /\ jmp' = FALSE /\ failed' = TRUE
    /\ tainted' = \/ tainted
                  \/ OnStack(L) # {} \/ L.dangling # {}
                  \/ in.macro # Null \/ in.unget
    /\ UNCHANGED <<text, symbols, inline_fns, clean_start, output>>

\* A Sym that was freed is used: what follows is not defined.
UseFreed ==
    /\ phase' = "undefined"
    /\ tainted' = TRUE
    /\ UNCHANGED <<text, input, tok, labels, llabels, fn, symbols, inlines,
                   jmp, failed, clean_start, output>>

\* tcc_delete and tcc_new: the Syms and the token table are freed and
\* macro_ptr is reset; the label stacks and unget_buffer_enabled are not.
Recreate ==
    /\ phase = "idle" /\ ~ Clean
    /\ labels' = [labels EXCEPT !.head = [v \in Names |-> Null],
                                !.dangling = {st \in Stacks : labels[st] # <<>>}]
    /\ input' = [input EXCEPT !.macro = Null]
    /\ UNCHANGED <<phase, text, tok, llabels, fn, symbols, inlines, errors, output>>

-----------------------------------------------------------------------------
(* decl() at file level                                                    *)

DeclError == \/ tok.op \notin {"func", "eof"}       \* expect("declaration")
             \/ tok.op = "func" /\ tok.f \in defined    \* redefinition

DeclareWrong ==
    /\ phase = "decl" /\ DeclError
    /\ Error(labels, IF tok.op = "bad" THEN AtName(input) ELSE input)

BeginFunction ==
    /\ phase = "decl" /\ ~ DeclError /\ tok.op = "func"
    /\ defined' = defined \cup {tok.f}
    /\ phase' = IF tok.inline THEN "record" ELSE "body"
    /\ fn' = [f |-> tok.f, toks |-> <<>>, start |-> Len(code)]
    /\ used' = IF tok.inline THEN used ELSE used \cup {tok.f}
    /\ Advance
    /\ UNCHANGED <<text, labels, llabels, inlines, errors, output>>

Count(q, op) == Cardinality({k \in DOMAIN q : q[k].op = op})

\* block_level after the tokens q.
Level(q) == Count(q, "open") - Count(q, "close")

\* A static inline function is recorded as a kind of macro.
Record ==
    /\ phase = "record" /\ tok # EndOfFile
    /\ Next1(input)
    /\ LET q == Append(fn.toks, tok)
       IN  IF tok.op = "close" /\ Level(q) = 0
           THEN /\ phase' = "decl" /\ fn' = NoFunction
                /\ inline_fns' = Append(inline_fns, [sym |-> fn.f, toks |-> q])
           ELSE /\ fn' = [fn EXCEPT !.toks = q]
                /\ UNCHANGED <<phase, inline_fns>>
    /\ UNCHANGED <<text, labels, llabels, symbols, i, inline_generated, errors, output>>

RecordWrong ==
    /\ phase = "record" /\ tok = EndOfFile      \* unexpected end of file
    /\ Error(labels, input)

EndOfUnit ==
    /\ phase = "decl" /\ tok = EndOfFile
    /\ phase' = "passes" /\ jmp' = FALSE
    /\ i' = 1 /\ inline_generated' = FALSE
    /\ UNCHANGED <<text, input, tok, labels, llabels, fn, symbols, inline_fns,
                   failed, clean_start, tainted, output>>

-----------------------------------------------------------------------------
(* block(): each token of the body makes a cell of code                    *)

Here == Len(code) + 1

\* The token becomes part of the function; its cell leads to a.
Emit(a) == /\ code' = Append(code, a)
           /\ fn' = [fn EXCEPT !.toks = Append(@, tok)]

\* Within a block; the body of the function is the outermost one.
InBlock == phase = "body" /\ llabels # <<>>

AtBlockStart ==
    llabels # <<>> /\ fn.toks[Len(fn.toks)].op \in {"open", "local"}

OpenBlock ==
    /\ phase = "body" /\ tok.op = "open"
    /\ llabels' = Append(llabels, Len(labels.local))
    /\ Emit(0) /\ Advance
    /\ UNCHANGED <<phase, text, labels, symbols, inlines, errors, outs>>

\* An item of __label__.
DeclareLabel ==
    /\ InBlock /\ tok.op = "local" /\ AtBlockStart
    /\ "local" \notin labels.dangling /\ Room(labels)
    /\ labels' = PushLocal(labels, tok.l, "DECLARED")
    /\ Emit(0) /\ Advance
    /\ UNCHANGED <<phase, text, llabels, symbols, inlines, errors, outs>>

\* Mutant: a declared label is taken for a defined one.
Used_KeepsDeclared(v) ==
    IF label_find(labels, v) = Null THEN PushGlobal(labels, v, "FORWARD")
    ELSE labels

\* The table where a use of label v has found the label, or made it FORWARD.
Used(v) ==
    LET s == label_find(labels, v)
    IN  IF s = Null THEN PushGlobal(labels, v, "FORWARD")
        ELSE IF labels.sym[s].r = "DECLARED"
             THEN [labels EXCEPT !.sym[s].r = "FORWARD"]
        ELSE labels

\* goto: a jump to the label, or one more in its chain.
Goto ==
    /\ InBlock /\ tok.op = "goto"
    /\ label_find(labels, tok.l) = Null =>
          "global" \notin labels.dangling /\ Room(labels)
    /\ LET L == Used(tok.l)
           s == label_find(L, tok.l)
       IN  IF L.sym[s].r = "FORWARD"
           THEN /\ labels' = [L EXCEPT !.sym[s].jumps = @ \cup {Here}]
                /\ Emit(0)
           ELSE /\ labels' = L
                /\ Emit(L.sym[s].jnext)
    /\ Advance
    /\ UNCHANGED <<phase, text, llabels, symbols, inlines, errors, outs>>

\* &&l: a relocation with the symbol of the label.
AddressOfLabel ==
    /\ InBlock /\ tok.op = "addr"
    /\ label_find(labels, tok.l) = Null =>
          "global" \notin labels.dangling /\ Room(labels)
    /\ LET L == Used(tok.l)
       IN  labels' = [L EXCEPT !.sym[label_find(L, tok.l)].refs = @ \cup {Here}]
    /\ Emit(0) /\ Advance
    /\ UNCHANGED <<phase, text, llabels, symbols, inlines, errors, outs>>

\* Mutant: a label that a goto has used counts as a duplicate.
DuplicateLabel_Used ==
    tok.op = "label" /\ label_find(labels, tok.l) # Null

DuplicateLabel ==
    /\ tok.op = "label"
    /\ label_find(labels, tok.l) # Null
    /\ labels.sym[label_find(labels, tok.l)].r = "DEFINED"

\* l: the jumps of its chain lead here (gsym).
DefineLabel ==
    /\ InBlock /\ tok.op = "label" /\ ~ DuplicateLabel
    /\ label_find(labels, tok.l) = Null =>
          "global" \notin labels.dangling /\ Room(labels)
    /\ LET L == IF label_find(labels, tok.l) # Null THEN labels
                ELSE PushGlobal(labels, tok.l, "DEFINED")
           s == label_find(L, tok.l)
       IN  /\ labels' = [L EXCEPT !.sym[s].r = "DEFINED", !.sym[s].jnext = Here,
                                  !.sym[s].jumps = {}]
           /\ code' = Append([a \in DOMAIN code |->
                                IF a \in L.sym[s].jumps THEN Here ELSE code[a]], 0)
    /\ fn' = [fn EXCEPT !.toks = Append(@, tok)]
    /\ Advance
    /\ UNCHANGED <<phase, text, llabels, symbols, inlines, errors, outs>>

\* A call makes a symbol for a function that has none.
Call ==
    /\ InBlock /\ tok.op = "call"
    /\ used' = used \cup {tok.f}
    /\ Emit(0) /\ Advance
    /\ UNCHANGED <<phase, text, labels, llabels, defined, inlines, errors, outs>>

StatementWrong ==
    /\ InBlock
    /\ \/ tok.op \in {"bad", "wrong", "func", "eof"}
       \/ tok.op = "local" /\ ~ AtBlockStart
       \/ DuplicateLabel
    /\ Error(labels, CASE tok.op = "bad"   -> AtName(input)
                       [] tok.op = "label" -> AfterName(input)
                       [] OTHER            -> input)

\* The code when the relocations r are resolved.
Relocated(c, r) ==
    [a \in DOMAIN c |-> IF \E x \in r : x[1] = a
                        THEN (CHOOSE x \in r : x[1] = a)[2] ELSE c[a]]

Opened == llabels[Len(llabels)]

\* } of a block: label_pop of its labels, then next().
CloseBlock ==
    /\ InBlock /\ tok.op = "close" /\ Len(llabels) > 1
    /\ IF PopFails(labels, "local", Opened)
       THEN Error(Popped(labels, "local", Opened), input)
       ELSE /\ labels' = Popped(labels, "local", Opened)
            /\ code' = Append(Relocated(code, Resolved(labels, "local", Opened)), 0)
            /\ fn' = [fn EXCEPT !.toks = Append(@, tok)]
            /\ llabels' = SubSeq(llabels, 1, Len(llabels) - 1)
            /\ Advance
            /\ UNCHANGED <<phase, text, symbols, inlines, errors, outs>>

\* gen_function after the token that ends its body: label_pop of all global
\* labels, back to decl(), or to the passes with macro_ptr reset.
FunctionDone(L, r) ==
    /\ labels' = Popped(L, "global", 0)
    /\ code' = Append(Relocated(code, r \cup Resolved(L, "global", 0)), 0)
    /\ outs' = Append(outs, [fn EXCEPT !.toks = Append(@, tok)])
    /\ fn' = NoFunction /\ llabels' = <<>>
    /\ tok' = Token(input)
    /\ IF jmp THEN /\ phase' = "decl" /\ input' = After(input)
                   /\ UNCHANGED <<i, inline_generated>>
       ELSE /\ phase' = "passes"
            /\ input' = [After(input) EXCEPT !.macro = Null]
            /\ i' = i + 1 /\ inline_generated' = TRUE
    /\ UNCHANGED <<text, symbols, inline_fns, errors>>

EndFunction ==
    /\ InBlock /\ tok.op = "close" /\ Len(llabels) = 1
    /\ LET L == Popped(labels, "local", Opened)
       IN  IF PopFails(labels, "local", Opened) THEN Error(L, input)
           ELSE /\ "global" \notin L.dangling
                /\ IF PopFails(L, "global", 0)
                   THEN Error(Popped(L, "global", 0), After(input))
                   ELSE FunctionDone(L, Resolved(labels, "local", Opened))

\* What the functions above must not touch: a stack with a freed Sym.
TouchFreed ==
    /\ InBlock
    /\ \/ tok.op = "local" /\ AtBlockStart /\ "local" \in labels.dangling
       \/ /\ tok.op \in {"goto", "addr", "label"}
          /\ label_find(labels, tok.l) = Null /\ "global" \in labels.dangling
       \/ /\ tok.op = "close" /\ Len(llabels) = 1
          /\ ~ PopFails(labels, "local", Opened) /\ "global" \in labels.dangling
    /\ UseFreed

-----------------------------------------------------------------------------
(* gen_inline_functions                                                    *)

\* The function was used: its code is generated from its tokens.
Referenced(k) == inline_fns[k].sym # Null /\ inline_fns[k].sym \in used

GenerateInline ==
    /\ phase = "passes" /\ i <= Len(inline_fns) /\ Referenced(i)
    /\ inline_fns' = [inline_fns EXCEPT ![i].sym = Null]
    /\ Next1([input EXCEPT !.macro = Append(inline_fns[i].toks, EndOfFile)])
    /\ fn' = [f |-> inline_fns[i].sym, toks |-> <<>>, start |-> Len(code)]
    /\ phase' = "body"
    /\ UNCHANGED <<text, labels, llabels, symbols, i, inline_generated, errors, output>>

SkipInline ==
    /\ phase = "passes" /\ i <= Len(inline_fns) /\ ~ Referenced(i)
    /\ i' = i + 1
    /\ UNCHANGED <<parser, text, labels, symbols, inline_fns, inline_generated,
                   errors, output>>

\* Mutant: inline_generated is cleared before the first pass only.
NextPass_NoReset ==
    /\ phase = "passes" /\ i > Len(inline_fns) /\ inline_generated
    /\ i' = 1
    /\ UNCHANGED <<parser, text, labels, symbols, inline_fns, inline_generated,
                   errors, output>>

NextPass ==
    /\ phase = "passes" /\ i > Len(inline_fns) /\ inline_generated
    /\ i' = 1 /\ inline_generated' = FALSE
    /\ UNCHANGED <<parser, text, labels, symbols, inline_fns, errors, output>>

\* Mutant: one pass is enough.
FinishUnit_OnePass ==
    /\ phase = "passes" /\ i > Len(inline_fns)
    /\ phase' = "returned"
    /\ UNCHANGED <<text, input, tok, labels, llabels, fn, symbols, inlines,
                   errors, output>>

\* No inline function was generated: tcc_compile returns.
FinishUnit ==
    /\ phase = "passes" /\ i > Len(inline_fns) /\ ~ inline_generated
    /\ phase' = "returned"
    /\ UNCHANGED <<text, input, tok, labels, llabels, fn, symbols, inlines,
                   errors, output>>

\* The caller has the result; the symbols and inline_fns are freed.
Return ==
    /\ phase = "returned"
    /\ phase' = "idle" /\ text' = <<>> /\ input' = [input EXCEPT !.file = <<>>]
    /\ tok' = EndOfFile
    /\ defined' = {} /\ used' = {}
    /\ inline_fns' = <<>> /\ i' = 1 /\ inline_generated' = FALSE
    /\ failed' = FALSE /\ code' = <<>> /\ outs' = <<>>
    /\ clean_start' = TRUE /\ tainted' = FALSE
    /\ labels' = Rebased(labels)
    /\ UNCHANGED <<llabels, fn, jmp>>

Statement == \/ OpenBlock \/ DeclareLabel \/ Goto \/ AddressOfLabel \/ DefineLabel
             \/ Call \/ StatementWrong \/ CloseBlock \/ EndFunction \/ TouchFreed

Passes == GenerateInline \/ SkipInline \/ NextPass \/ FinishUnit

\* The steps of one call of tcc_compile.
Compile == \/ DeclareWrong \/ BeginFunction \/ Record \/ RecordWrong \/ EndOfUnit
           \/ Statement \/ Passes \/ Return

Next == StartUnit \/ Recreate \/ Compile

Spec == Init /\ [][Next]_vars

\* The compiler runs until it returns: it waits for nobody.
FairSpec == Spec /\ WF_vars(Compile)

-----------------------------------------------------------------------------
(* Properties                                                              *)

M == INSTANCE UnitMeaning

\* The text with its macros expanded.
Expanded ==
    LET Upto[n \in 0..Len(text)] ==
            IF n = 0 THEN <<>>
            ELSE Upto[n - 1] \o (IF text[n].op = "macro" THEN Expansion
                                 ELSE <<text[n]>>)
    IN  Upto[Len(text)]

\* Type correctness.  (libtcc.c:690-826, tccgen.c:5676-5765)
TypeOK ==
    /\ phase \in {"idle", "decl", "record", "body", "passes", "returned",
                  "exited", "undefined"}
    /\ input.unget \in BOOLEAN
    /\ labels.sym \in [Slots -> Label]
    /\ labels.head \in [Names -> Slots \cup {Null}]
    /\ labels.dangling \subseteq Stacks
    /\ \A st \in Stacks : Elements(labels[st]) \subseteq Slots
    /\ Elements(llabels) \subseteq 0..Len(labels.local)
    /\ defined \subseteq Funcs /\ used \subseteq Funcs
    /\ \A k \in DOMAIN inline_fns : inline_fns[k].sym \in Funcs \cup {Null}
    /\ i \in 1..Len(inline_fns) + 1
    /\ \A a \in DOMAIN code : code[a] \in 0..Len(code)

\* For a unit that starts when no error has left anything, tcc_compile returns
\* an error exactly when the unit is in error.  It ends the process only for a
\* unit in error or an error in an inline function that is needed, and uses a
\* label that was freed only for a unit in error, whose inline functions are
\* generated with the labels that the error left.
\* (libtcc.c:763-826, tccgen.c:5720-5765)
VerdictExact ==
    clean_start =>
        /\ phase = "returned" => (failed <=> M!InError(Expanded))
        /\ phase = "exited"   => M!InError(Expanded) \/ M!InlineInError(Expanded)
        /\ phase = "undefined" => M!InError(Expanded)

\* The place of function f in the expanded text.
PlaceOf(f) == CHOOSE p \in M!Functions(Expanded) : Expanded[p].f = f

\* The code of a unit that is accepted from a clean start is that of the
\* functions it needs, each once and as it is written, and every goto and every
\* &&label leads to the label of its scope.  (tccpp.c:1068-1118, tccgen.c:4800-4855, 5720-5765)
CodeExact ==
    (phase = "returned" /\ ~ failed /\ clean_start) =>
        /\ {outs[k].f : k \in DOMAIN outs} = {Expanded[p].f : p \in M!Needed(Expanded)}
        /\ \A k \in DOMAIN outs :
              /\ \A j \in DOMAIN outs : outs[j].f = outs[k].f => j = k
              /\ outs[k].toks = M!Body(Expanded, PlaceOf(outs[k].f))
              /\ \A u \in M!Uses(outs[k].toks) :
                    code[outs[k].start + u] \in
                        {outs[k].start + j : j \in M!Targets(outs[k].toks, u)}

\* No function is generated twice, and when the passes end no inline function
\* with a symbol is left without code, whatever errors there were.
\* (tccgen.c:5725-5757)
InlinesComplete ==
    /\ \A j, k \in DOMAIN outs : outs[j].f = outs[k].f => j = k
    /\ phase = "returned" => \A k \in DOMAIN inline_fns : ~ Referenced(k)

\* label_find gives the newest local label of a name, or else the one of the
\* function.  (tccpp.c:1077-1118)
HeadsExact ==
    (phase = "body" /\ ~ tainted) =>
        \A v \in Names :
            LET Of(st) == {k \in DOMAIN labels[st] : labels.sym[labels[st][k]].v = v}
                Newest(st) == labels[st][CHOOSE k \in Of(st) : \A j \in Of(st) : j <= k]
            IN  labels.head[v] = IF Of("local") # {} THEN Newest("local")
                                 ELSE IF Of("global") # {} THEN Newest("global")
                                 ELSE Null

\* Every unit comes to an end: the passes stop.  (tccgen.c:5725-5757)
Terminates ==
    (phase = "decl") ~> (phase \in {"idle", "exited", "undefined"})

\* libtcc.h:53 says of tcc_compile_string "compile a string containing a C
\* source. Return -1 if error."
ReturnsVerdict ==
    /\ phase = "returned" => (failed <=> M!InError(Expanded))
    /\ phase \notin {"exited", "undefined"}
=============================================================================
