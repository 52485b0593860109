------------------------------ MODULE Preproc ------------------------------
(***************************************************************************)
(* The file and line level of tccpp.c: conditional directives, #include    *)
(* with its stack and its cache of guarded files, the stack of macro       *)
(* definitions, and what tcc_compile does with all of them at the end of a *)
(* unit or when tcc_error abandons it.                                     *)
(*                                                                         *)
(* A file is a sequence of lines, each read in one step.  A line is a      *)
(* record [op, arg]; "text" is any line with a token that is not a         *)
(* directive, and lines with no token at all (spaces, comments) are left   *)
(* out: an empty sequence is a file with nothing but comments.  #ifdef m   *)
(* and #if are the line "if", true when its macro is defined.  The main    *)
(* file of a unit has arbitrary lines; a header has the same lines each    *)
(* time it is read.                                                        *)
(***************************************************************************)
EXTENDS Naturals, Sequences, FiniteSets, SequencesExt

CONSTANTS
    Macros,             \* names of macros
    Headers,            \* files that are included
    Main,               \* the file given to tcc_compile
    None,               \* no macro (0)
    Lines,              \* the lines there are
    Contents,           \* the lines the headers may have: functions of Headers
    MainLines(_),       \* the lines the main file may have, given the headers'
    IncludeStackSize,   \* INCLUDE_STACK_SIZE
    IfdefStackSize,     \* IFDEF_STACK_SIZE
    MaxDefines,         \* bound: what a unit puts on define_stack
    MaxNested,          \* bound: nested groups in a skipped region
    MaxStale            \* bound: files that errors left on the list

ASSUME PreprocAssumption ==
    /\ IsFiniteSet(Macros) /\ None \notin Macros
    /\ Main \notin Headers
    /\ \A l \in Lines :
          /\ l.op \in {"if", "ifndef", "elif", "define", "undef"} => l.arg \in Macros
          /\ l.op \in {"include", "line"} => l.arg \in Headers
    /\ Contents \subseteq [Headers -> Seq(Lines)]
    /\ \A c \in Contents : MainLines(c) \subseteq Lines
    /\ IncludeStackSize \in Nat
    /\ IfdefStackSize \in Nat
    /\ MaxDefines \in Nat
    /\ MaxNested \in Nat
    /\ MaxStale \in Nat

VARIABLES
    content,        \* content[h]: the lines of header h
    file,           \* the BufferedFiles linked by prev, the current one last
    include_depth,  \* include_stack_ptr - include_stack
    ifdef_stack,    \* bit 0: the branch is selected; bit 1: #else was seen
    skipping,       \* preprocess_skip is running
    a,              \* its count of nested groups
    bof, endif,     \* TOK_FLAG_BOF, TOK_FLAG_ENDIF
    cached,         \* cached[f]: ifndef_macro of the CachedInclude of f
    define_stack,   \* names, None once undefined; the oldest first
    sym_define,     \* sym_define[m]: index in define_stack, 0 for NULL
    define_start,   \* define_stack at the start of the unit (its length)
    phase           \* "idle" between units, "run" in one

files   == <<file, include_depth>>
flags   == <<bof, endif>>
defines == <<define_stack, sym_define, define_start>>
vars    == <<content, files, ifdef_stack, skipping, a, flags, cached, defines, phase>>

Names == Headers \cup {Main}

BufferedFile ==
    [name               : Names,                  \* what fd reads
     filename           : Names,                  \* changed by #line
     pos                : Nat,                    \* lines read
     ifdef_stack_ptr    : Nat,                    \* ifdef_stack when opened
     ifndef_macro       : Macros \cup {None},
     ifndef_macro_saved : Macros \cup {None}]

Opened(name, ifdefs) ==
    [name |-> name, filename |-> name, pos |-> 0, ifdef_stack_ptr |-> ifdefs,
     ifndef_macro |-> None, ifndef_macro_saved |-> None]

Current == Last(file)

\* The current file is f from now on.
SetCurrent(f) == file' = Append(Front(file), f)

\* The lines one of which is the next of the current file.
NextLines ==
    IF phase = "idle" THEN {}
    ELSE IF Current.name = Main THEN MainLines(content)
    ELSE {content[Current.name][i] :
             i \in DOMAIN content[Current.name] \cap {Current.pos + 1}}

\* The current file when its next line was read.
Advanced ==
    [Current EXCEPT !.pos = IF Current.name = Main THEN 0 ELSE @ + 1]

AtEnd == Current.name = Main \/ Current.pos = Len(content[Current.name])

NoFlags == bof' = FALSE /\ endif' = FALSE

\* Line l is processed by next_nomacro1 or preprocess(): outside a skipped
\* region, or where preprocess_skip ends.
Process(l) ==
    /\ l \in NextLines
    /\ skipping => a = 0 /\ l.op \in {"else", "elif", "endif"}

define_find(m) == sym_define[m] # 0

Defined == {m \in Macros : define_find(m)}

ifdefs == Len(ifdef_stack)

\* The value of the controlling expression.
Condition(l) ==
    CASE l.op \in {"if", "elif"} -> define_find(l.arg)
      [] l.op = "ifndef"         -> ~ define_find(l.arg)

\* Mutant: the bit of #else decides.
TestSkip_WrongBit(c) ==
    /\ skipping' = (c \div 2 = 1)
    /\ a' = 0

\* The label test_skip: a branch that is not selected is skipped.
TestSkip(c) ==
    /\ skipping' = (c % 2 = 0)
    /\ a' = 0

-----------------------------------------------------------------------------
(***************************************************************************)
(* Units.                                                                  *)
(***************************************************************************)

\* tcc_new: no unit yet; the -D macros are on define_stack.
Init ==
    /\ content \in Contents
    /\ file = <<>> /\ include_depth = 0
    /\ ifdef_stack = <<>>
    /\ skipping = FALSE /\ a = 0
    /\ bof = FALSE /\ endif = FALSE
    /\ cached = [f \in Names |-> None]
    /\ \E D \in SUBSET Macros :
          /\ define_stack = SetToSeq(D)
          /\ sym_define = [m \in Macros |-> IF m \in D
                              THEN CHOOSE i \in DOMAIN define_stack : define_stack[i] = m
                              ELSE 0]
    /\ define_start = Len(define_stack)
    /\ phase = "idle"

\* Mutant: include_stack_ptr is not reset.
StartUnit_KeepsDepth ==
    /\ phase = "idle" /\ Len(file) <= MaxStale
    /\ phase' = "run"
    /\ ifdef_stack' = <<>>
    /\ file' = Append(file, Opened(Main, 0))
    /\ define_start' = Len(define_stack)
    /\ bof' = TRUE /\ endif' = FALSE
    /\ UNCHANGED <<content, include_depth, skipping, a, cached, define_stack, sym_define>>

\* tcc_open, then the start of tcc_compile with preprocess_init.  What an
\* error left in the file list stays below.
StartUnit ==
    /\ phase = "idle" /\ Len(file) <= MaxStale
    /\ phase' = "run"
    /\ ifdef_stack' = <<>>
    /\ file' = Append(file, Opened(Main, 0))
    /\ include_depth' = 0
    /\ define_start' = Len(define_stack)
    /\ bof' = TRUE /\ endif' = FALSE
    /\ UNCHANGED <<content, skipping, a, cached, define_stack, sym_define>>

\* Mutant: the freed definitions stay in the token table.
FreeDefines_Dangling ==
    /\ define_stack' = SubSeq(define_stack, 1, define_start)
    /\ UNCHANGED <<sym_define, define_start>>

\* free_defines(define_start).
FreeDefines ==
    /\ sym_define' = [m \in Macros |->
          IF \E i \in define_start + 1 .. Len(define_stack) : define_stack[i] = m
          THEN 0 ELSE sym_define[m]]
    /\ define_stack' = SubSeq(define_stack, 1, define_start)
    /\ UNCHANGED define_start

\* The end of tcc_compile and the one tcc_close of its caller.  In the second
\* case tcc_error jumped there: from any line, and from those the code
\* refuses.
EndUnit ==
    /\ phase' = "idle"
    /\ FreeDefines
    /\ file' = Front(file)
    /\ skipping' = FALSE /\ a' = 0
    /\ UNCHANGED <<content, include_depth, ifdef_stack, flags, cached>>

EndOfMain ==
    /\ phase = "run" /\ ~ skipping
    /\ include_depth = 0
    /\ ifdefs = Current.ifdef_stack_ptr
    /\ EndUnit

Fail == phase = "run" /\ EndUnit

\* The program that uses the library compiles nothing more.
Quit == phase = "idle" /\ UNCHANGED vars

(***************************************************************************)
(* Lines.                                                                  *)
(***************************************************************************)

TextLine(l) ==
    /\ Process(l) /\ l.op = "text"
    /\ SetCurrent(Advanced)
    /\ NoFlags
    /\ UNCHANGED <<content, include_depth, ifdef_stack, skipping, a, cached,
                   defines, phase>>

\* #line with a file name.
LineDirective(l) ==
    /\ Process(l) /\ l.op = "line"
    /\ SetCurrent([Advanced EXCEPT !.filename = l.arg])
    /\ NoFlags
    /\ UNCHANGED <<content, include_depth, ifdef_stack, skipping, a, cached,
                   defines, phase>>

\* define_push
Define(l) ==
    /\ Process(l) /\ l.op = "define" /\ Len(define_stack) < define_start + MaxDefines
    /\ define_stack' = Append(define_stack, l.arg)
    /\ sym_define' = [sym_define EXCEPT ![l.arg] = Len(define_stack) + 1]
    /\ SetCurrent(Advanced)
    /\ NoFlags
    /\ UNCHANGED <<content, include_depth, ifdef_stack, skipping, a, cached,
                   define_start, phase>>

\* #undef: define_undef clears the name of the Sym, which stays stacked.
Undef(l) ==
    /\ Process(l) /\ l.op = "undef"
    /\ IF define_find(l.arg)
       THEN /\ define_stack' = [define_stack EXCEPT ![sym_define[l.arg]] = None]
            /\ sym_define' = [sym_define EXCEPT ![l.arg] = 0]
       ELSE UNCHANGED <<define_stack, sym_define>>
    /\ SetCurrent(Advanced)
    /\ NoFlags
    /\ UNCHANGED <<content, include_depth, ifdef_stack, skipping, a, cached,
                   define_start, phase>>

\* #include of a file that the cache says is guarded by a defined macro.
IncludeCached(l) ==
    /\ Process(l) /\ l.op = "include" /\ include_depth < IncludeStackSize
    /\ cached[l.arg] # None /\ define_find(cached[l.arg])
    /\ SetCurrent(Advanced)
    /\ NoFlags
    /\ UNCHANGED <<content, include_depth, ifdef_stack, skipping, a, cached,
                   defines, phase>>

\* #include: tcc_open, and the includer stays on the include stack.
Include(l) ==
    /\ Process(l) /\ l.op = "include" /\ include_depth < IncludeStackSize
    /\ ~ (cached[l.arg] # None /\ define_find(cached[l.arg]))
    /\ file' = Append(Append(Front(file), Advanced), Opened(l.arg, ifdefs))
    /\ include_depth' = include_depth + 1
    /\ bof' = TRUE /\ endif' = FALSE
    /\ UNCHANGED <<content, ifdef_stack, skipping, a, cached, defines, phase>>

\* The end of an included file, between two tokens.  TOK_FLAG_BOF is not
\* touched: it is still set when the file had no token.
EndOfInclude ==
    /\ phase = "run" /\ ~ skipping
    /\ include_depth > 0 /\ AtEnd
    /\ ifdefs = Current.ifdef_stack_ptr
    /\ cached' = IF endif /\ cached[Current.filename] = None
                 THEN [cached EXCEPT ![Current.filename] = Current.ifndef_macro_saved]
                 ELSE cached
    /\ endif' = FALSE
    /\ file' = Front(file)
    /\ include_depth' = include_depth - 1
    /\ UNCHANGED <<content, ifdef_stack, skipping, a, bof, defines, phase>>

\* #if, #ifdef and #ifndef.
If(l) ==
    LET c == IF Condition(l) THEN 1 ELSE 0
    IN  /\ Process(l) /\ l.op \in {"if", "ifndef"} /\ ifdefs < IfdefStackSize
        /\ SetCurrent(IF bof /\ l.op = "ifndef"
                      THEN [Advanced EXCEPT !.ifndef_macro = l.arg] ELSE Advanced)
        /\ ifdef_stack' = Append(ifdef_stack, c)
        /\ TestSkip(c)
        /\ NoFlags
        /\ UNCHANGED <<content, include_depth, cached, defines, phase>>

\* Mutant: the file still counts as guarded.
TestElse_KeepsGuard(c) ==
    /\ ifdef_stack' = Append(Front(ifdef_stack), c)
    /\ SetCurrent(Advanced)
    /\ TestSkip(c)

\* The label test_else: the group of the current file's first level is no
\* longer a plain #ifndef ... #endif.
TestElse(c) ==
    /\ ifdef_stack' = Append(Front(ifdef_stack), c)
    /\ SetCurrent(IF ifdefs = Current.ifdef_stack_ptr + 1
                  THEN [Advanced EXCEPT !.ifndef_macro = None] ELSE Advanced)
    /\ TestSkip(c)

\* Mutant: #else may follow #else.
Else_Again(l) ==
    /\ Process(l) /\ l.op = "else" /\ ifdefs # 0
    /\ TestElse(3 - Last(ifdef_stack))
    /\ NoFlags
    /\ UNCHANGED <<content, include_depth, cached, defines, phase>>

\* The check is against the bottom of the whole stack, not of this file's
\* part of it.
Else(l) ==
    /\ Process(l) /\ l.op = "else" /\ ifdefs # 0
    /\ Last(ifdef_stack) < 2
    /\ TestElse(3 - Last(ifdef_stack))
    /\ NoFlags
    /\ UNCHANGED <<content, include_depth, cached, defines, phase>>

\* Mutant: the condition is evaluated after a selected branch too.
Elif_Always(l) ==
    /\ Process(l) /\ l.op = "elif" /\ ifdefs # 0
    /\ Last(ifdef_stack) < 2
    /\ TestElse(IF Condition(l) THEN 1 ELSE 0)
    /\ NoFlags
    /\ UNCHANGED <<content, include_depth, cached, defines, phase>>

\* After a selected branch, "goto skip" leaves out the label test_else.
Elif(l) ==
    /\ Process(l) /\ l.op = "elif" /\ ifdefs # 0
    /\ \/ /\ Last(ifdef_stack) = 1
          /\ skipping' = TRUE /\ a' = 0
          /\ SetCurrent(Advanced)
          /\ UNCHANGED ifdef_stack
       \/ /\ Last(ifdef_stack) = 0
          /\ TestElse(IF Condition(l) THEN 1 ELSE 0)
    /\ NoFlags
    /\ UNCHANGED <<content, include_depth, cached, defines, phase>>

Endif(l) ==
    LET guard == /\ Current.ifndef_macro # None
                 /\ ifdefs - 1 = Current.ifdef_stack_ptr
    IN  /\ Process(l) /\ l.op = "endif"
        /\ ifdefs > Current.ifdef_stack_ptr
        /\ ifdef_stack' = Front(ifdef_stack)
        /\ SetCurrent(IF guard
                      THEN [Advanced EXCEPT !.ifndef_macro_saved = Current.ifndef_macro,
                                            !.ifndef_macro = None]
                      ELSE Advanced)
        /\ bof' = FALSE /\ endif' = guard
        /\ skipping' = FALSE /\ a' = 0
        /\ UNCHANGED <<content, include_depth, cached, defines, phase>>

\* preprocess_skip reads a line.
SkipLine(l) ==
    /\ l \in NextLines
    /\ skipping /\ ~ (a = 0 /\ l.op \in {"else", "elif", "endif"})
    /\ l.op \in {"if", "ifndef"} => a < MaxNested
    /\ a' = CASE l.op \in {"if", "ifndef"} -> a + 1
              [] l.op = "endif"            -> a - 1
              [] OTHER                     -> a
    /\ SetCurrent(Advanced)
    /\ UNCHANGED <<content, include_depth, ifdef_stack, skipping, flags, cached,
                   defines, phase>>

LineStep(l) ==
    \/ TextLine(l) \/ LineDirective(l) \/ Define(l) \/ Undef(l)
    \/ IncludeCached(l) \/ Include(l)
    \/ If(l) \/ Else(l) \/ Elif(l) \/ Endif(l) \/ SkipLine(l)

Next ==
    \/ StartUnit \/ EndOfMain \/ EndOfInclude \/ Fail \/ Quit
    \/ \E l \in NextLines : LineStep(l)

Spec == Init /\ [][Next]_vars

-----------------------------------------------------------------------------
(***************************************************************************)
(* Properties.                                                             *)
(***************************************************************************)

TypeOK ==
    /\ content \in [Headers -> Seq(Lines)]
    /\ file \in Seq(BufferedFile)
    /\ include_depth \in 0 .. IncludeStackSize
    /\ ifdef_stack \in Seq(0 .. 3) /\ ifdefs <= IfdefStackSize
    /\ skipping \in BOOLEAN /\ a \in Nat
    /\ bof \in BOOLEAN /\ endif \in BOOLEAN
    /\ cached \in [Names -> Macros \cup {None}]
    /\ define_stack \in Seq(Macros \cup {None})
    /\ sym_define \in [Macros -> Nat]
    /\ define_start \in Nat
    /\ phase \in {"idle", "run"}

\* The files opened by this unit, and those an earlier error left.
Unit  == SubSeq(file, Len(file) - include_depth, Len(file))
Stale == Len(file) - include_depth - 1

\* Outside a skipped region every open group is selected; in one, all but the
\* innermost are.  Each open file has its own part of ifdef_stack.
GroupsSelected ==
    phase = "run" =>
        /\ \A i \in 1 .. ifdefs : ifdef_stack[i] % 2 = 0 => skipping /\ i = ifdefs
        /\ \A i \in 1 .. Len(Unit) : Unit[i].ifdef_stack_ptr <= ifdefs
        /\ \A i \in 2 .. Len(Unit) :
              Unit[i - 1].ifdef_stack_ptr <= Unit[i].ifdef_stack_ptr

\* An #else or #elif of an included file was taken for a group of its
\* includer: #else and #elif compare with the bottom of the whole stack.
Borrowed == phase = "run" /\ skipping /\ ifdefs = Current.ifdef_stack_ptr

\* The includer never sees it: nothing but an error ends the region that is
\* skipped then, so that the includer is not read again.
BorrowedIsRefused == [][Borrowed => Borrowed' \/ phase' = "idle"]_vars

\* Files left by an error are never read, changed or closed by later units.
StaleUntouched ==
    [][/\ phase = "idle" /\ phase' = "run" => Stale' = Len(file)
       /\ phase = "run" =>
            \A i \in 1 .. Stale : Len(file') >= i /\ file'[i] = file[i]]_vars

\* sym_define never points to a freed definition, nor to one that a newer
\* definition of the macro hides.
DefinesExact ==
    \A m \in Macros :
        define_find(m) =>
            /\ sym_define[m] \in DOMAIN define_stack
            /\ define_stack[sym_define[m]] = m
            /\ \A i \in sym_define[m] + 1 .. Len(define_stack) : define_stack[i] # m

(***************************************************************************)
(* The lines that take effect are those that CondInclusion selects.        *)
(***************************************************************************)

\* The groups of the unit's file i, from its part of ifdef_stack and, when it
\* is the current file, the groups nested in the skipped region.
UnitGroups(i) ==
    LET first == Unit[i].ifdef_stack_ptr + 1
        last  == IF i = Len(Unit) THEN ifdefs ELSE Unit[i + 1].ifdef_stack_ptr
        st(j) == IF ifdef_stack[j] % 2 = 1
                 THEN IF skipping /\ j = ifdefs THEN "done" ELSE "on"
                 ELSE IF ifdef_stack[j] = 0 THEN "seek" ELSE "done"
    IN  [j \in 1 .. last - first + 1 |->
            [st |-> st(first + j - 1), els |-> ifdef_stack[first + j - 1] > 1]]
        \o IF i = Len(Unit) THEN [k \in 1 .. a |-> [st |-> "done", els |-> FALSE]]
           ELSE <<>>

Abs == INSTANCE CondInclusion WITH
    files  <- IF phase = "idle" THEN <<>>
              ELSE [i \in 1 .. Len(Unit) |-> [name |-> Unit[i].name, pos |-> Unit[i].pos]],
    groups <- IF phase = "idle" THEN <<>>
              ELSE [i \in 1 .. Len(Unit) |-> UnitGroups(i)],
    defs   <- Defined

\* Headers whose #ifndef ... #endif the code may take for a guard that it is
\* not.
Misleading(h) ==
    \/ \E i \in DOMAIN content[h] : content[h][i].op \in {"elif", "include"}
    \/ \E g \in Headers : \E i \in DOMAIN content[g] :
          content[g][i].op = "line" /\ content[g][i].arg = h
    \/ \E l \in MainLines(content) : l.op = "line" /\ l.arg = h

\* Every step is a step of CondInclusion, unless an #else was borrowed or the
\* cache misled.
ImplementsCondInclusion ==
    [][\/ Abs!Next
       \/ Borrowed'
       \/ \E l \in NextLines : IncludeCached(l) /\ Misleading(l.arg)]_vars

(***************************************************************************)
(* The cache of guarded files.                                             *)
(***************************************************************************)

\* A file is left unread only when reading it would have no effect.
Guarded(h) ==
    \A D \in SUBSET Macros : cached[h] \in D => Abs!Inert(content[h], D)

CacheExact == \A h \in Headers : cached[h] # None /\ ~ Misleading(h) => Guarded(h)

\* tcc.h of CachedInclude: "eliminate inclusion if the include file is
\* protected by #ifndef ... #endif".
OnlyProtectedCached == \A h \in Headers : cached[h] # None => Guarded(h)
=============================================================================
