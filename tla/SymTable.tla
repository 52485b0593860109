------------------------------ MODULE SymTable ------------------------------
(***************************************************************************)
(* The symbol table of tccgen.c.  An identifier token (or a struct tag)    *)
(* has one head pointer in the token table, sym_identifier (sym_struct);   *)
(* the declarations of one name are chained from it through prev_tok, the  *)
(* innermost first.  The same Sym objects are also linked, in order of     *)
(* declaration, on global_stack or local_stack, which is how a scope is    *)
(* undone.  The table is right only while both views agree, and every      *)
(* operation below moves both.                                             *)
(*                                                                         *)
(* The actions are the steps of one process that compiles translation      *)
(* units one after the other in a TCCState (tcc_compile), can be stopped   *)
(* at any point of a unit by tcc_error's longjmp, and may replace its      *)
(* state (tcc_delete, tcc_new).  Symbols that are never hashed (fields,    *)
(* anonymous types) are left out, except the markers of a scope.           *)
(***************************************************************************)
EXTENDS Naturals, Sequences, FiniteSetsExt

CONSTANTS
    Slots,      \* the Sym objects of sym_pools
    Names,      \* the hashed names: identifiers and struct tags
    Nil,        \* the null pointer
    Anon,       \* the v of a marker (SYM_FIELD) and of a free Sym
    MaxBlocks,  \* bound: nested blocks
    MaxInline   \* bound: recorded static inline functions of a unit

ASSUME SymTableAssumption ==
    /\ Nil \notin Slots
    /\ Anon \notin Names
    /\ MaxBlocks \in Nat
    /\ MaxInline \in Nat

VARIABLES
    v,                  \* v[s]: the name of Sym s
    prev_tok,           \* prev_tok[s]: the declaration of v[s] that s hides
    next,               \* next[s]: for a marker, the enclosing marker
    sym_of,             \* sym_of[n]: what sym_find (struct_find) returns
    global_stack,       \* both stacks, oldest symbol first
    local_stack,
    scope_stack_bottom, \* the marker at which the redeclaration check stops
    blocks,             \* the 's' of each active block(): length of local_stack
    phase,              \* where tcc_compile is
    fn,                 \* where gen_function is
    inline_fns,         \* number of recorded functions not generated yet
    dirty               \* history: an error was raised with local symbols pushed

vars == <<v, prev_tok, next, sym_of, global_stack, local_stack,
          scope_stack_bottom, blocks, phase, fn, inline_fns, dirty>>

Pointer == Slots \cup {Nil}

Elems(S) == {S[i] : i \in 1 .. Len(S)}

Used == Elems(global_stack) \cup Elems(local_stack)

(***************************************************************************)
(* The operations on the table.                                            *)
(***************************************************************************)

\* Mutant: the walk starts one symbol too low.
Redeclared_SkipsTop(n) ==
    \E i \in 1 .. Len(local_stack) - 1 :
        /\ v[local_stack[i]] = n
        /\ \A j \in i .. Len(local_stack) : local_stack[j] # scope_stack_bottom

\* sym_push2's check: n was declared after the innermost marker.  The walk
\* stops at scope_stack_bottom, or at the bottom of the stack when that
\* pointer is not met.
Redeclared(n) ==
    \E i \in 1 .. Len(local_stack) :
        /\ v[local_stack[i]] = n
        /\ \A j \in i .. Len(local_stack) : local_stack[j] # scope_stack_bottom

\* sym_push on the local stack.
PushLocal(s, n) ==
    /\ local_stack' = Append(local_stack, s)
    /\ v' = [v EXCEPT ![s] = n]
    /\ prev_tok' = [prev_tok EXCEPT ![s] = sym_of[n]]
    /\ sym_of' = [sym_of EXCEPT ![n] = s]
    /\ UNCHANGED <<next, global_stack>>

\* sym_push on the global stack.
PushGlobal(s, n) ==
    /\ global_stack' = Append(global_stack, s)
    /\ v' = [v EXCEPT ![s] = n]
    /\ prev_tok' = [prev_tok EXCEPT ![s] = sym_of[n]]
    /\ sym_of' = [sym_of EXCEPT ![n] = s]
    /\ UNCHANGED <<next, local_stack>>

\* Mutant: the caller does not look the name up first.
PushUnderLocals_NoLookup(s, n) ==
    /\ global_stack' = Append(global_stack, s)
    /\ v' = [v EXCEPT ![s] = n]
    /\ prev_tok' = [prev_tok EXCEPT ![s] = Nil]
    /\ sym_of' = [sym_of EXCEPT ![n] = s]
    /\ UNCHANGED <<next, local_stack>>

\* global_identifier_push of a name that is not visible, which is how every
\* caller calls it: the walk to the end of the chain ends at its head.
PushUnderLocals(s, n) ==
    /\ sym_of[n] = Nil
    /\ global_stack' = Append(global_stack, s)
    /\ v' = [v EXCEPT ![s] = n]
    /\ prev_tok' = [prev_tok EXCEPT ![s] = Nil]
    /\ sym_of' = [sym_of EXCEPT ![n] = s]
    /\ UNCHANGED <<next, local_stack>>

\* Mutant: the enclosing marker is not recorded.
PushMarker_NotLinked(s, enclosing) ==
    /\ local_stack' = Append(local_stack, s)
    /\ v' = [v EXCEPT ![s] = Anon]
    /\ UNCHANGED <<next, prev_tok, sym_of, global_stack>>

\* sym_push2 of a SYM_FIELD symbol: a marker, never hashed.
PushMarker(s, enclosing) ==
    /\ local_stack' = Append(local_stack, s)
    /\ v' = [v EXCEPT ![s] = Anon]
    /\ next' = [next EXCEPT ![s] = enclosing]
    /\ UNCHANGED <<prev_tok, sym_of, global_stack>>

\* Mutant: the head is cleared instead of going back to prev_tok.
HeadsAfterPop_Cleared(heads, S, b) ==
    [n \in Names |->
        IF \E i \in (b + 1) .. Len(S) : v[S[i]] = n THEN Nil ELSE heads[n]]

\* The heads after popping S down to length b.  A name's head takes the
\* prev_tok of each popped symbol in turn, the oldest of them last.
HeadsAfterPop(heads, S, b) ==
    [n \in Names |->
        LET popped == {i \in (b + 1) .. Len(S) : v[S[i]] = n}
        IN  IF popped = {} THEN heads[n] ELSE prev_tok[S[Min(popped)]]]

\* sym_free of every symbol of F: its fields no longer mean anything.
Freed(F) ==
    /\ v' = [s \in Slots |-> IF s \in F THEN Anon ELSE v[s]]
    /\ prev_tok' = [s \in Slots |-> IF s \in F THEN Nil ELSE prev_tok[s]]
    /\ next' = [s \in Slots |-> IF s \in F THEN Nil ELSE next[s]]

\* sym_pop(&local_stack, s), where s was the top at length b.
PopLocal(b) ==
    /\ local_stack' = SubSeq(local_stack, 1, b)
    /\ sym_of' = HeadsAfterPop(sym_of, local_stack, b)
    /\ Freed({local_stack[i] : i \in (b + 1) .. Len(local_stack)})
    /\ UNCHANGED global_stack

(***************************************************************************)
(* The steps of a compilation.                                             *)
(***************************************************************************)

\* A declaration can appear: at file scope, among the parameters of a
\* function, or inside a block.
AtFileScope == phase = "file" /\ fn = "no" /\ blocks = <<>>
InFunction  == fn # "no"
Declaring   == AtFileScope \/ fn = "params" \/ blocks # <<>>

Init ==
    /\ v = [s \in Slots |-> Anon]
    /\ prev_tok = [s \in Slots |-> Nil]
    /\ next = [s \in Slots |-> Nil]
    /\ sym_of = [n \in Names |-> Nil]
    /\ global_stack = <<>> /\ local_stack = <<>>
    /\ scope_stack_bottom = Nil
    /\ blocks = <<>>
    /\ phase = "idle" /\ fn = "no"
    /\ inline_fns = 0
    /\ dirty = FALSE

\* tcc_compile enters its setjmp block.
StartUnit ==
    /\ phase = "idle"
    /\ phase' = "file"
    /\ UNCHANGED <<v, prev_tok, next, sym_of, global_stack, local_stack,
                   scope_stack_bottom, blocks, fn, inline_fns, dirty>>

\* sym_push: a declaration goes on the local stack if there is one.  A
\* redeclaration in one local scope is refused (that is RaiseError).
Declare(n) ==
    /\ Declaring
    /\ \E s \in Slots \ Used :
          IF local_stack # <<>>
          THEN ~ Redeclared(n) /\ PushLocal(s, n)
          ELSE PushGlobal(s, n)
    /\ UNCHANGED <<scope_stack_bottom, blocks, phase, fn, inline_fns, dirty>>

\* external_global_sym: a reference to a name declared nowhere declares it
\* globally, below the local scopes that are open.
DeclareImplicitly(n) ==
    /\ Declaring
    /\ \E s \in Slots \ Used : PushUnderLocals(s, n)
    /\ UNCHANGED <<scope_stack_bottom, blocks, phase, fn, inline_fns, dirty>>

\* decl0 at a function definition: the name is looked up, and pushed if it is
\* not declared.  A static inline function is only recorded; for any other
\* gen_function is called.
DefineFunction(n) ==
    /\ AtFileScope
    /\ \/ /\ sym_of[n] # Nil
          /\ UNCHANGED <<v, prev_tok, next, sym_of, global_stack, local_stack>>
       \/ \E s \in Slots \ Used : PushUnderLocals(s, n)
    /\ \/ fn' = "entered" /\ UNCHANGED inline_fns
       \/ /\ inline_fns < MaxInline
          /\ inline_fns' = inline_fns + 1
          /\ UNCHANGED fn
    /\ UNCHANGED <<scope_stack_bottom, blocks, phase, dirty>>

\* gen_inline_functions takes a recorded function that is referenced.
GenInline ==
    /\ phase = "tail" /\ fn = "no" /\ inline_fns > 0
    /\ fn' = "entered"
    /\ inline_fns' = inline_fns - 1
    /\ UNCHANGED <<v, prev_tok, next, sym_of, global_stack, local_stack,
                   scope_stack_bottom, blocks, phase, dirty>>

\* gen_function pushes a dummy symbol: the local stack is not empty any more,
\* so that what gfunc_prolog and block() declare is local.
BeginFunction ==
    /\ fn = "entered"
    /\ \E s \in Slots \ Used : PushMarker(s, Nil)
    /\ fn' = "params"
    /\ UNCHANGED <<scope_stack_bottom, blocks, phase, inline_fns, dirty>>

\* block() at '{' or at 'for': gfunc_prolog is over, or a block is nested, or
\* a statement expression appears in a declaration at file scope.
EnterBlock ==
    /\ Declaring /\ Len(blocks) < MaxBlocks
    /\ \E s \in Slots \ Used :
          /\ PushMarker(s, scope_stack_bottom)
          /\ scope_stack_bottom' = s
    /\ blocks' = Append(blocks, Len(local_stack))
    /\ fn' = IF fn = "params" THEN "body" ELSE fn
    /\ UNCHANGED <<phase, inline_fns, dirty>>

\* Mutant: scope_stack_bottom is not restored.
LeaveBlock_KeepsBottom ==
    /\ blocks # <<>>
    /\ PopLocal(blocks[Len(blocks)])
    /\ blocks' = SubSeq(blocks, 1, Len(blocks) - 1)
    /\ UNCHANGED <<scope_stack_bottom, phase, fn, inline_fns, dirty>>

\* block() at '}', or at the end of 'for'.
LeaveBlock ==
    /\ blocks # <<>>
    /\ scope_stack_bottom' = next[scope_stack_bottom]
    /\ PopLocal(blocks[Len(blocks)])
    /\ blocks' = SubSeq(blocks, 1, Len(blocks) - 1)
    /\ UNCHANGED <<phase, fn, inline_fns, dirty>>

\* The end of gen_function.
EndFunction ==
    /\ fn = "body" /\ blocks = <<>>
    /\ scope_stack_bottom' = Nil
    /\ PopLocal(0)
    /\ fn' = "no"
    /\ UNCHANGED <<blocks, phase, inline_fns, dirty>>

\* decl() returned at the end of the file.
EndOfFile ==
    /\ AtFileScope
    /\ phase' = "tail"
    /\ UNCHANGED <<v, prev_tok, next, sym_of, global_stack, local_stack,
                   scope_stack_bottom, blocks, fn, inline_fns, dirty>>

\* tcc_error: the longjmp abandons the blocks and the function; in
\* gen_inline_functions no jump buffer is set and the process exits.
RaiseError ==
    /\ phase = "file" \/ (phase = "tail" /\ InFunction)
    /\ phase' = IF phase = "file" THEN "tail" ELSE "exit"
    /\ blocks' = <<>>
    /\ fn' = "no"
    /\ dirty' = (dirty \/ local_stack # <<>>)
    /\ UNCHANGED <<v, prev_tok, next, sym_of, global_stack, local_stack,
                   scope_stack_bottom, inline_fns>>

\* Mutant: only the local stack is unhashed.
FinishUnit_GlobalsKept ==
    /\ phase = "tail" /\ fn = "no"
    /\ sym_of' = HeadsAfterPop(sym_of, local_stack, 0)
    /\ Freed(Used)
    /\ global_stack' = <<>> /\ local_stack' = <<>>
    /\ phase' = "idle"
    /\ inline_fns' = 0
    /\ UNCHANGED <<scope_stack_bottom, blocks, fn, dirty>>

\* The end of tcc_compile: the global stack is popped first, then the local
\* one.
FinishUnit ==
    /\ phase = "tail" /\ fn = "no"
    /\ sym_of' = HeadsAfterPop(HeadsAfterPop(sym_of, global_stack, 0),
                               local_stack, 0)
    /\ Freed(Used)
    /\ global_stack' = <<>> /\ local_stack' = <<>>
    /\ phase' = "idle"
    /\ inline_fns' = 0
    /\ UNCHANGED <<scope_stack_bottom, blocks, fn, dirty>>

\* tcc_delete and tcc_new: tcc_cleanup drops the token table and the pools;
\* scope_stack_bottom keeps its value.
Recreate ==
    /\ phase = "idle"
    /\ sym_of' = [n \in Names |-> Nil]
    /\ dirty' = FALSE
    /\ UNCHANGED <<v, prev_tok, next, global_stack, local_stack,
                   scope_stack_bottom, blocks, phase, fn, inline_fns>>

\* exit(1) was called.
Exited == phase = "exit" /\ UNCHANGED vars

Next ==
    \/ StartUnit \/ EndOfFile \/ RaiseError \/ FinishUnit \/ Recreate \/ Exited
    \/ \E n \in Names : Declare(n) \/ DeclareImplicitly(n) \/ DefineFunction(n)
    \/ GenInline \/ BeginFunction \/ EnterBlock \/ LeaveBlock \/ EndFunction

Spec == Init /\ [][Next]_vars

-----------------------------------------------------------------------------
(***************************************************************************)
(* Properties.                                                             *)
(***************************************************************************)

TypeOK ==
    /\ v \in [Slots -> Names \cup {Anon}]
    /\ prev_tok \in [Slots -> Pointer]
    /\ next \in [Slots -> Pointer]
    /\ sym_of \in [Names -> Pointer]
    /\ global_stack \in Seq(Slots)
    /\ local_stack \in Seq(Slots)
    /\ scope_stack_bottom \in Pointer
    /\ blocks \in Seq(Nat)
    /\ phase \in {"idle", "file", "tail", "exit"}
    /\ fn \in {"no", "entered", "params", "body"}
    /\ inline_fns \in Nat
    /\ dirty \in BOOLEAN

\* s is the newest declaration of n among the first k symbols of stack S, whose
\* names are w.
Newest(w, S, k, n, s) ==
    \E i \in 1 .. k :
        /\ S[i] = s /\ w[s] = n
        /\ \A j \in (i + 1) .. k : w[S[j]] # n

Absent(w, S, k, n) == \A i \in 1 .. k : w[S[i]] # n

NewestOrNil(w, S, k, n, s) ==
    Newest(w, S, k, n, s) \/ (Absent(w, S, k, n) /\ s = Nil)

\* s is what a search for n finds: the first b symbols of the local stack L
\* from top to bottom, then the global stack G.
Found(w, G, L, b, n, s) ==
    \/ Newest(w, L, b, n, s)
    \/ Absent(w, L, b, n) /\ NewestOrNil(w, G, Len(G), n, s)

Visible(n, s) == Found(v, global_stack, local_stack, Len(local_stack), n, s)

Heads == \A n \in Names : Visible(n, sym_of[n])

\* Every head is the declaration that a search of the stacks finds, unless an
\* error was raised inside a function (or inside a block) since tcc_new.
HeadsExact == ~ dirty => Heads

\* The value of scope_stack_bottom outside every active block: Nil, unless an
\* error left it behind.
OuterBottom ==
    IF blocks = <<>> THEN scope_stack_bottom
    ELSE next[local_stack[blocks[1] + 1]]

\* The lengths of the local stack at which the open scopes began.
Bases == (IF fn \in {"params", "body"} THEN <<0>> ELSE <<>>) \o blocks

\* sym_push2 refuses a name exactly when the innermost open scope declares it.
RedeclaredExact ==
    ~ dirty /\ OuterBottom = Nil /\ Bases # <<>> /\ Declaring =>
        \A n \in Names :
            Redeclared(n) <=> \E i \in Bases[Len(Bases)] + 1 .. Len(local_stack) :
                                 v[local_stack[i]] = n

\* Two declarations of a name on the local stack are in different scopes: the
\* check of sym_push2 stops neither too early nor too late.
OnePerScope ==
    OuterBottom = Nil =>
        \A i, j \in 1 .. Len(local_stack) :
            i < j /\ v[local_stack[i]] = v[local_stack[j]]
                  /\ v[local_stack[i]] \in Names
            => \E k \in i .. j : v[local_stack[k]] = Anon

\* Between units nothing is visible and no scope is open.
NothingLeft ==
    phase = "idle" /\ ~ dirty =>
        /\ \A n \in Names : sym_of[n] = Nil
        /\ blocks = <<>> /\ fn = "no"

(***************************************************************************)
(* The inductive invariant behind HeadsExact and OnePerScope.              *)
(***************************************************************************)

\* A Sym is on one stack, once; only named symbols are global.
StacksOK ==
    /\ \A i, j \in 1 .. Len(global_stack) :
          global_stack[i] = global_stack[j] => i = j
    /\ \A i, j \in 1 .. Len(local_stack) :
          local_stack[i] = local_stack[j] => i = j
    /\ \A i \in 1 .. Len(global_stack), j \in 1 .. Len(local_stack) :
          global_stack[i] # local_stack[j]
    /\ \A i \in 1 .. Len(global_stack) : v[global_stack[i]] \in Names

\* Which stacks and blocks there can be at each point of tcc_compile.
ControlOK ==
    /\ phase = "idle" => global_stack = <<>> /\ local_stack = <<>>
    /\ phase \in {"idle", "exit"} => fn = "no"
    /\ fn \in {"entered", "params"} => blocks = <<>>
    /\ fn = "no" /\ blocks # <<>> => phase = "file"
    /\ ~ dirty /\ fn \in {"no", "entered"} =>
          IF blocks = <<>> THEN local_stack = <<>> ELSE blocks[1] = 0

\* The markers of the active blocks are linked from scope_stack_bottom.
BlocksOK ==
    /\ \A k \in 1 .. Len(blocks) :
          blocks[k] < Len(local_stack) /\ v[local_stack[blocks[k] + 1]] = Anon
    /\ \A j, k \in 1 .. Len(blocks) : j < k => blocks[j] < blocks[k]
    /\ \A k \in 2 .. Len(blocks) :
          next[local_stack[blocks[k] + 1]] = local_stack[blocks[k - 1] + 1]
    /\ blocks # <<>> =>
          scope_stack_bottom = local_stack[blocks[Len(blocks)] + 1]

\* prev_tok is what was visible when the symbol was pushed.
Chains ==
    /\ \A i \in 1 .. Len(global_stack) :
          NewestOrNil(v, global_stack, i - 1, v[global_stack[i]],
                      prev_tok[global_stack[i]])
    /\ \A i \in 1 .. Len(local_stack) :
          v[local_stack[i]] \in Names =>
              Found(v, global_stack, local_stack, i - 1,
                    v[local_stack[i]], prev_tok[local_stack[i]])

ChainsOK == ~ dirty => Chains

IndInv ==
    /\ TypeOK /\ StacksOK /\ ControlOK /\ BlocksOK /\ ChainsOK
    /\ HeadsExact /\ OnePerScope

(***************************************************************************)
(* The table implements Scopes as long as no error struck inside a scope.  *)
(***************************************************************************)

Below(b) ==
    [n \in Names |->
        CHOOSE s \in Pointer : Found(v, global_stack, local_stack, b, n, s)]

Abs == INSTANCE Scopes
    WITH Decls <- Slots, None <- Nil, env <- sym_of,
         saved <- [k \in 1 .. Len(Bases) |-> Below(Bases[k])]

\* Every step is a step of Scopes: above all, '}' gives back exactly what was
\* visible at '{', implicit global declarations included.
ImplementsScopes == [][~ dirty' => Abs!Next \/ UNCHANGED Abs!vars]_vars

(***************************************************************************)
(* What the documentation says, with no exception for errors.              *)
(***************************************************************************)

\* tcc-doc.texi of sym_find: "The local stack is searched first from top to
\* bottom, then the global stack."
SymFindSearchesStacks ==
    phase = "file" => Heads
=============================================================================
