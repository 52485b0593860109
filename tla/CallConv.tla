------------------------------ MODULE CallConv ------------------------------
(***************************************************************************)
(* How the arguments of a call get to the parameters of a function, and to *)
(* va_arg, on x86-64: gfunc_call places them in registers and on the       *)
(* stack, gfunc_prolog and __va_arg look for them, and both sides count    *)
(* alone.  A state is one call, from the value stack of the caller to the  *)
(* last parameter of the callee.                                           *)
(*                                                                         *)
(* Sizes and addresses are in words of 8 bytes.  A word is the pair of the *)
(* number of its argument (0: the place for a returned struct) and its     *)
(* index there.  Types are scalars, or structs and unions of scalars.      *)
(***************************************************************************)
EXTENDS Integers, SequencesExt

CONSTANTS
    REGN,        \* registers for integers
    SSEN,        \* and for floats
    SeenRegs,    \* how many integer registers the prologue of f(...) counts to
    Calls        \* the calls, see Call

\* A scalar is its mode; the members of a struct or a union are scalars.
Modes == {"integer", "sse", "x87"}
Scalar(m) == [tag |-> "scalar", members |-> <<m>>]
Struct(ms) == [tag |-> "struct", members |-> ms]
Union(ms) == [tag |-> "union", members |-> ms]
CTypes == {t \in [tag : {"scalar", "struct", "union"}, members : Seq(Modes)] :
              t.tag = "scalar" => Len(t.members) = 1}

\* Named parameters, what is passed beyond them, and what is returned
Call == [params : Seq(CTypes), more : Seq(CTypes), variadic : BOOLEAN, ret : CTypes]

ASSUME CallAssumption ==
    /\ REGN \in 4 .. 6 /\ SSEN \in Nat \ {0} /\ SeenRegs \in Nat /\ SeenRegs >= REGN
    /\ \A c \in Calls : c \in Call /\ (c.more # <<>> => c.variadic)

VARIABLES
    call,        \* the call
    at,          \* where it is
    args,        \* the arguments on vstack, vtop first, see ArgTypes
    run_start, run_end, arg,    \* of the loops of gfunc_call
    gen_reg, sse_reg,
    pushed,      \* what lies on the stack, from %rsp up
    regs, xmm,   \* what the registers hold, by their number
    callee,      \* the counters of gfunc_prolog
    params,      \* the words of the parameters defined so far
    va,          \* the va_list
    read         \* what va_arg has returned

vars == <<call, at, args, run_start, run_end, arg, gen_reg, sse_reg, pushed,
              regs, xmm, callee, params, va, read>>

Garbage == <<>>
Pointer == Scalar("integer")

-----------------------------------------------------------------------------
(* Types.                                                                  *)

UpTo(n, align) == ((n + align - 1) \div align) * align

Total(w) == LET T[k \in 0 .. Len(w)] == IF k = 0 THEN 0 ELSE T[k - 1] + w[k] IN T[Len(w)]

\* type_size: a long double has two words, aligned to them
ScalarSize(m) == IF m = "x87" THEN 2 ELSE 1
TypeAlign(t) == IF Contains(t.members, "x87") THEN 2 ELSE 1
TypeSize(t) ==
    IF t.members = <<>> THEN 0
    ELSE IF t.tag = "union" THEN TypeAlign(t)
    ELSE LET ms == t.members
             End[k \in 0 .. Len(ms)] ==
                 IF k = 0 THEN 0 ELSE UpTo(End[k - 1], ScalarSize(ms[k])) + ScalarSize(ms[k])
         IN  UpTo(End[Len(ms)], TypeAlign(t))

classify_x86_64_merge(a, b) ==
    CASE a = b -> a
      [] "memory" \in {a, b} -> "memory"
      [] "integer" \in {a, b} -> "integer"
      [] OTHER -> "memory"

\* The walk over the members begins with the symbol of the tag itself, whose
\* "type" is the token of struct or union, and is read as a float's.
classify_x86_64_inner(t) ==
    IF t.tag = "scalar" THEN t.members[1]
    ELSE LET C[k \in 0 .. Len(t.members)] ==
                 IF k = 0 THEN "sse" ELSE classify_x86_64_merge(C[k - 1], t.members[k])
         IN  C[Len(t.members)]

Mode(t) == IF TypeSize(t) > 2 THEN "memory" ELSE classify_x86_64_inner(t)
RegCount(t) == IF TypeSize(t) > 1 THEN 2 ELSE 1

\* The registers that types need, had every one a register
Needed(mode, ts) == Total([k \in DOMAIN ts |-> IF Mode(ts[k]) = mode THEN RegCount(ts[k]) ELSE 0])

ReturnsInMemory(c) == Mode(c.ret) = "memory"

\* The words of the n-th argument
Words(n, t) == [k \in 1 .. TypeSize(t) |-> <<n, k>>]

\* The types of all arguments.  The place for a returned struct is passed first.
ArgTypes(c) == (IF ReturnsInMemory(c) THEN <<Pointer>> ELSE <<>>) \o c.params \o c.more
FirstArg(c) == IF ReturnsInMemory(c) THEN 0 ELSE 1

\* An argument is its place among all of them.
TypeOf(a)   == ArgTypes(call)[a]
WordsOf(a)  == Words(FirstArg(call) + a - 1, TypeOf(a))
TypesOf(us) == [p \in DOMAIN us |-> TypeOf(us[p])]

-----------------------------------------------------------------------------
(* The caller.                                                             *)

\* The numbers of %rdi, %rsi, %rdx, %rcx, %r8 and %r9
arg_regs(i) == <<7, 6, 2, 1, 8, 9>>[i + 1]

\* gv(RC_INT) takes any of %rax, %rcx and %rdx
RC_INT == {0, 1, 2}

\* %r10 and %r11 stand for %rdx and %rcx while arguments are loaded
arg_prepare_reg(i) == IF i \in {2, 3} THEN i + 8 ELSE arg_regs(i)

Pushed(words) == words \o pushed

CalleeUntouched == UNCHANGED <<callee, params, va, read>>
Fails == at' = "failed" /\ UNCHANGED <<call, args, run_start, run_end, arg, gen_reg, sse_reg,
                                       pushed, regs, xmm, callee, params, va, read>>

\* The number of register arguments
CountArgs ==
    /\ at = "count"
    /\ gen_reg' = Needed("integer", TypesOf(args))
    /\ sse_reg' = Needed("sse", TypesOf(args))
    /\ at' = "run"
    /\ UNCHANGED <<call, args, run_start, run_end, arg, pushed, regs, xmm>>
    /\ CalleeUntouched

\* Does the argument in place p of args go to the stack?  Those before it in the
\* run have been counted off.
OnStack(p) ==
    LET t == TypeOf(args[p])
        passed == TypesOf(SubSeq(args, run_start + 1, p - 1))
    IN  \/ Mode(t) \in {"memory", "x87"}
        \/ Mode(t) = "sse" /\ sse_reg - Needed("sse", passed) > SSEN
        \/ Mode(t) = "integer" /\ gen_reg - Needed("integer", passed) > REGN

\* What is pushed above the words of a run
Adjust(words) == IF words % 2 = 1 THEN <<Garbage>> ELSE <<>>

\* A run ends before the first argument on the stack that is aligned to 16 bytes
MeasureRun ==
    /\ at = "run" /\ run_start # Len(args)
    /\ LET stored == {p \in run_start + 1 .. Len(args) : OnStack(p)}
           aligned == {p \in stored : TypeAlign(TypeOf(args[p])) = 2}
           end == IF aligned = {} THEN Len(args) ELSE Min(aligned) - 1
           size == Total([p \in DOMAIN args |->
                             IF p \in stored /\ p <= end THEN TypeSize(TypeOf(args[p])) ELSE 0])
       IN  /\ run_end' = end
           /\ pushed' = Pushed(Adjust(size))
    /\ arg' = run_start
    /\ at' = "store"
    /\ UNCHANGED <<call, args, run_start, gen_reg, sse_reg, regs, xmm>>
    /\ CalleeUntouched

\* Arguments of a run are stored, if they are not for registers
StoreArg ==
    /\ at = "store" /\ arg < run_end
    /\ LET a == args[arg + 1]
           mode == Mode(TypeOf(a))
           c == RegCount(TypeOf(a))
       IN  \/ /\ \/ mode = "memory"
                 \/ mode = "sse" /\ sse_reg > SSEN
                 \/ mode = "integer" /\ gen_reg > REGN
              /\ pushed' = Pushed(WordsOf(a))
              /\ args' = RemoveAt(args, arg + 1)
              /\ run_end' = run_end - 1
              /\ gen_reg' = IF mode = "integer" THEN gen_reg - c ELSE gen_reg
              /\ sse_reg' = IF mode = "sse" THEN sse_reg - c ELSE sse_reg
              /\ arg' = arg
           \/ /\ \/ mode = "sse" /\ sse_reg <= SSEN
                 \/ mode = "integer" /\ gen_reg <= REGN
              /\ arg' = arg + 1
              /\ UNCHANGED <<args, run_end, pushed, gen_reg, sse_reg>>
    /\ UNCHANGED <<call, at, run_start, regs, xmm>>
    /\ CalleeUntouched

AlignedNext == at = "store" /\ arg = run_end /\ arg < Len(args) /\ TypeAlign(TypeOf(args[arg + 1])) = 2

\* The aligned arguments behind a run
StoreAligned ==
    /\ AlignedNext
    /\ LET a == args[arg + 1]
       IN  IF Mode(TypeOf(a)) \in {"x87", "memory"}
           THEN /\ pushed' = Pushed(WordsOf(a))
                /\ args' = RemoveAt(args, arg + 1)
                /\ UNCHANGED <<call, at, run_start, run_end, arg, gen_reg, sse_reg, regs, xmm>>
                /\ CalleeUntouched
           ELSE Fails        \* assert(mode == x86_64_mode_memory)

EndOfRun ==
    /\ at = "store" /\ arg = run_end /\ ~AlignedNext
    /\ run_start' = run_end
    /\ at' = "run"
    /\ UNCHANGED <<call, args, run_end, arg, gen_reg, sse_reg, pushed, regs, xmm>>
    /\ CalleeUntouched

\* assert(gen_reg <= REGN), assert(sse_reg <= 8)
PrepareRegs ==
    /\ at = "run" /\ run_start = Len(args)
    /\ IF gen_reg <= REGN /\ sse_reg <= SSEN
       THEN /\ at' = "regs"
            /\ UNCHANGED <<call, args, run_start, run_end, arg, gen_reg, sse_reg, pushed, regs, xmm>>
            /\ CalleeUntouched
       ELSE Fails

\* A pair of floats is loaded into %xmm0 and %xmm1, and moved from there, the
\* first one first.
PairLoaded(words, n) ==
    LET loaded == [xmm EXCEPT ![0] = words[1], ![1] = words[2]]
        first == [loaded EXCEPT ![n] = loaded[0]]
    IN  IF n = 0 THEN loaded ELSE [first EXCEPT ![n + 1] = first[1]]

\* The word in place k; an empty struct has none, and its register has anything
WordOf(words, k) == IF k \in DOMAIN words THEN words[k] ELSE Garbage

LoadFloat ==
    /\ at = "regs" /\ args # <<>> /\ Mode(TypeOf(args[1])) = "sse"
    /\ LET words == WordsOf(args[1])
           c == RegCount(TypeOf(args[1]))
           n == sse_reg - c
       IN  /\ sse_reg' = n
           /\ xmm' = IF c = 2 THEN PairLoaded(words, n)
                     ELSE [xmm EXCEPT ![n] = WordOf(words, 1)]
    /\ args' = Tail(args)
    /\ UNCHANGED <<call, at, run_start, run_end, arg, gen_reg, pushed, regs>>
    /\ CalleeUntouched

LoadInteger ==
    /\ at = "regs" /\ args # <<>> /\ Mode(TypeOf(args[1])) = "integer"
    /\ LET words == WordsOf(args[1])
           c == RegCount(TypeOf(args[1]))
           n == gen_reg - c
       IN  /\ gen_reg' = n
           /\ regs' = [r \in DOMAIN regs |->
                          IF r = arg_prepare_reg(n) THEN words[1]
                          ELSE IF c = 2 /\ r = arg_prepare_reg(n + 1) THEN words[2]
                          ELSE IF r \in RC_INT THEN Garbage ELSE regs[r]]
    /\ args' = Tail(args)
    /\ UNCHANGED <<call, at, run_start, run_end, arg, sse_reg, pushed, xmm>>
    /\ CalleeUntouched

\* %r10 and %r11 are copied, and the function is called
DoCall ==
    /\ at = "regs" /\ args = <<>>
    /\ LET nb_reg_args == Needed("integer", ArgTypes(call))
       IN  IF gen_reg = 0 /\ sse_reg = 0
           THEN /\ regs' = [regs EXCEPT ![2] = IF nb_reg_args > 2 THEN regs[10] ELSE @,
                                        ![1] = IF nb_reg_args > 3 THEN regs[11] ELSE @]
                /\ at' = "prolog"
                /\ UNCHANGED <<call, args, run_start, run_end, arg, gen_reg, sse_reg, pushed, xmm>>
                /\ CalleeUntouched
           ELSE Fails

-----------------------------------------------------------------------------
(* The callee.                                                             *)

CallerDone == UNCHANGED <<call, args, run_start, run_end, arg, gen_reg, sse_reg, pushed, regs, xmm>>

\* The words at an address above the frame; what is above the arguments is
\* garbage
StackWords(addr, n) == [k \in 1 .. n |-> WordOf(pushed, addr + k)]

\* One parameter counted by the prologue of a variadic function
Seen(s, t) ==
    LET stacked(u) == [u EXCEPT !.overflow = UpTo(@, TypeAlign(t)) + TypeSize(t)]
        c == RegCount(t)
    IN  CASE Mode(t) = "integer" ->
                IF s.gp + c <= SeenRegs THEN [s EXCEPT !.gp = @ + c]
                ELSE stacked([s EXCEPT !.gp = SeenRegs])
          [] Mode(t) = "sse" ->
                IF s.fp + c <= SSEN THEN [s EXCEPT !.fp = @ + c]
                ELSE stacked([s EXCEPT !.fp = SSEN])
          [] OTHER -> stacked(s)

SeenAll(ts) ==
    LET S[k \in 0 .. Len(ts)] ==
            IF k = 0 THEN [gp |-> 0, fp |-> 0, overflow |-> 0] ELSE Seen(S[k - 1], ts[k])
    IN  S[Len(ts)]

\* What va_start finds below the frame of a variadic function: where va_arg
\* goes on in the saved registers and on the stack.  Then the place of the
\* returned struct is taken from the first register.
Prolog ==
    /\ at = "prolog"
    /\ va' = IF call.variadic THEN SeenAll(call.params) ELSE va
    /\ callee' = IF ReturnsInMemory(call)
                 THEN [callee EXCEPT !.func_vc = regs[arg_regs(0)], !.reg_param_index = 1]
                 ELSE callee
    /\ at' = "params"
    /\ UNCHANGED <<params, read>> /\ CallerDone

\* Mutant: a struct that does not fit leaves the register for the next one.
Skipped_None(t) == 0

\* A parameter on the stack uses up the registers it would have had
Skipped(t) == RegCount(t)

\* A parameter is where gfunc_prolog looks for it: in registers, or on the
\* stack after those before it.
DefineParam ==
    /\ at = "params" /\ Len(params) < Len(call.params)
    /\ LET t == call.params[Len(params) + 1]
           c == RegCount(t)
           r == callee.reg_param_index
           s == callee.sse_param_index
           addr == UpTo(callee.addr, TypeAlign(t))
           Stacked(next) == /\ params' = Append(params, StackWords(addr, TypeSize(t)))
                            /\ callee' = [next EXCEPT !.addr = addr + TypeSize(t)]
       IN  CASE Mode(t) = "integer" /\ r + c <= REGN ->
                    /\ params' = Append(params, [k \in 1 .. c |-> regs[arg_regs(r + k - 1)]])
                    /\ callee' = [callee EXCEPT !.reg_param_index = r + c]
             [] Mode(t) = "integer" /\ r + c > REGN ->
                    Stacked([callee EXCEPT !.reg_param_index = r + Skipped(t)])
             [] Mode(t) = "sse" /\ s + c <= SSEN ->
                    /\ params' = Append(params, [k \in 1 .. c |-> xmm[s + k - 1]])
                    /\ callee' = [callee EXCEPT !.sse_param_index = s + c]
             [] Mode(t) = "sse" /\ s + c > SSEN ->
                    Stacked([callee EXCEPT !.sse_param_index = s + c])
             [] OTHER -> Stacked(callee)
    /\ UNCHANGED <<at, va, read>> /\ CallerDone

\* The saved registers are one area: those for integers, then those for floats,
\* of which each has two words.
SavedWord(k) ==
    IF k < REGN THEN regs[arg_regs(k)]
    ELSE IF (k - REGN) % 2 = 0 /\ (k - REGN) \div 2 < SSEN THEN xmm[(k - REGN) \div 2] ELSE Garbage

\* Mutant: what is aligned on the stack is not.
OverflowAlign_One(t) == 1

OverflowAlign(t) == TypeAlign(t)

\* __va_arg
VaArg ==
    /\ at = "params" /\ Len(params) = Len(call.params) /\ Len(read) < Len(call.more)
    /\ LET t == call.more[Len(read) + 1]
           Saved(k) == [i \in 1 .. TypeSize(t) |-> SavedWord(k + i - 1)]
           Overflow(size) ==
               LET end == UpTo(va.overflow + size, OverflowAlign(t))
               IN  /\ va' = [va EXCEPT !.overflow = end]
                   /\ read' = Append(read, StackWords(end - size, TypeSize(t)))
       IN  CASE Mode(t) = "integer" /\ va.gp < REGN ->
                    va' = [va EXCEPT !.gp = @ + 1] /\ read' = Append(read, Saved(va.gp))
             [] Mode(t) = "sse" /\ va.fp < SSEN ->
                    va' = [va EXCEPT !.fp = @ + 1] /\ read' = Append(read, Saved(REGN + 2 * va.fp))
             [] Mode(t) \in {"memory", "x87"} -> Overflow(TypeSize(t))
             [] OTHER -> Overflow(1)
    /\ UNCHANGED <<at, callee, params>> /\ CallerDone

Returned ==
    /\ \/ at = "failed"
       \/ at = "params" /\ Len(params) = Len(call.params) /\ Len(read) = Len(call.more)
    /\ UNCHANGED vars

-----------------------------------------------------------------------------

Init ==
    /\ call \in Calls
    /\ at = "count"
    /\ args = Reverse([a \in DOMAIN ArgTypes(call) |-> a])
    /\ run_start = 0 /\ run_end = 0 /\ arg = 0 /\ gen_reg = 0 /\ sse_reg = 0
    /\ pushed = <<>>
    /\ regs = [r \in 0 .. 11 |-> Garbage]
    /\ xmm = [r \in 0 .. SSEN - 1 |-> Garbage]
    /\ callee = [reg_param_index |-> 0, sse_param_index |-> 0, addr |-> 0, func_vc |-> Garbage]
    /\ params = <<>>
    /\ va = [gp |-> 0, fp |-> 0, overflow |-> 0]
    /\ read = <<>>

Next == \/ CountArgs \/ MeasureRun \/ StoreArg \/ StoreAligned \/ EndOfRun
            \/ PrepareRegs \/ LoadFloat \/ LoadInteger \/ DoCall
            \/ Prolog \/ DefineParam \/ VaArg \/ Returned

Spec == Init /\ [][Next]_vars

-----------------------------------------------------------------------------
(* Calls that the code gets wrong.                                         *)

\* The move of the first float of a pair to %xmm1 overwrites the second one.
PairOverwritten(c) ==
    \E i \in DOMAIN ArgTypes(c) : LET t == ArgTypes(c)[i] IN
        /\ Mode(t) = "sse" /\ RegCount(t) = 2
        /\ Needed("sse", SubSeq(ArgTypes(c), 1, i - 1)) = 1

\* A union whose first member is an integer is one although it holds a long
\* double: an assertion fails when it is on the stack, or beside an argument
\* that is aligned there.
UnionAsInteger(c) ==
    \E i \in DOMAIN ArgTypes(c) :
        Mode(ArgTypes(c)[i]) = "integer" /\ TypeAlign(ArgTypes(c)[i]) = 2

\* Named parameters beyond the registers are counted as if they were in one,
\* and read again by va_arg.
SeenInRegisters(c) == c.variadic /\ Needed("integer", c.params) > REGN

\* The place of the returned struct is not counted at all.
PlaceNotSeen(c) == c.variadic /\ ReturnsInMemory(c)

\* va_arg goes on one word for any struct in registers.
OneWordRead(c) ==
    \E i \in DOMAIN c.more : Mode(c.more[i]) \in {"integer", "sse"} /\ TypeSize(c.more[i]) # 1

-----------------------------------------------------------------------------
(* Properties                                                              *)

\* No assertion of gfunc_call fails, the stack is aligned at the call, and
\* each parameter that gfunc_prolog defines has the words of its argument.
ParamsExact ==
    ~PairOverwritten(call) /\ ~UnionAsInteger(call) =>
        /\ at # "failed"
        /\ at \in {"prolog", "params"} => Len(pushed) % 2 = 0
        /\ at = "params" /\ ReturnsInMemory(call) => callee.func_vc = <<0, 1>>
        /\ \A k \in DOMAIN params :
              IsPrefix(Words(k, call.params[k]), params[k])

\* Each va_arg returns the next argument beyond the named ones, wherever
\* these have left the registers and the stack.
VaArgsExact ==
    ~(\/ PairOverwritten(call) \/ UnionAsInteger(call) \/ SeenInRegisters(call)
      \/ PlaceNotSeen(call) \/ OneWordRead(call)) =>
        \A k \in DOMAIN read :
            read[k] = Words(Len(call.params) + k, call.more[k])
=============================================================================
