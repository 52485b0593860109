# Verification of the inherpreter compiler

The program in `src/` is a C compiler in the TinyCC family whose keywords are
spelled differently. It reads, parses and generates code in one pass: there is
no syntax tree and no second look at anything, so every part of it lives on
global state that must be put back exactly as it was. This directory models
those parts in TLA+, checks them with TLC on small instances, and proves with
TLAPS, for every size, that the symbol table finds the right symbol, that open
groups select the branches they should and the macro table holds exactly what is
defined, that the passes over inline functions generate each once and none too
few, and that struct members never share memory.

Contents: [parts of the program](#1-the-parts-of-the-program) ·
[modules](#2-the-modules) · [runs](#3-the-runs) · [findings](#4-disagreements-between-code-and-documentation) ·
[proofs](#5-the-proofs) · [assumptions and limits](#6-assumptions-bounds-and-limits) ·
[plan](#7-plan)

## 1. The parts of the program

A unit goes through `tcc_compile` (libtcc.c): it opens a `BufferedFile`, sets a
jump buffer for `tcc_error`, and calls `decl`, which pulls tokens from the
preprocessor (`next`), pushes declarations on the symbol stacks, and calls the
code generator while it parses. What is generated goes into sections and ELF
symbols; after the last unit they are linked, and written or run in memory.
An error anywhere in a unit is a `longjmp` back to the end of `tcc_compile`.
One process may compile many units in one `TCCState`, and use several states
one after the other.

There are no threads. What is hard here is not concurrency: it is long legal
sequences of calls over shared global state, abandoned in the middle by
`longjmp`, and two views of the same data (a stack and a hash chain, a chain of
jumps and the code it is stored in, a list of regions and the cells they cover)
that every operation must move together.

| Part | State | Operations | What is hard | What makes it correct |
|---|---|---|---|---|
| Symbol stacks (tccgen.c, libtcc.c) | `global_stack`, `local_stack`, `sym_identifier`, `prev_tok`, `scope_stack_bottom`, the pool | `sym_push`, `global_identifier_push`, `sym_pop`, `block`, `gen_function`, end of unit | two stacks that share the chains of names; errors inside a function | a lookup finds the innermost declaration; closing a scope restores what was visible |
| Files, groups, include cache, definitions (tccpp.c) | `file`, `include_stack`, `ifdef_stack`, `preprocess_skip`, `CachedInclude`, `define_stack` | every directive, end of file, `preprocess_init`, `free_defines` | groups that span files; the cache must be transparent; errors leave files open | exactly the selected lines take effect, each file's groups nest |
| Macro expansion (tccpp.c) | `macro_ptr`, `nested_list`, token strings, `can_read_stream` | `next`, `macro_subst`, `macro_arg_subst`, `macro_twosharps` | calls whose arguments cross the end of an expansion; arguments that are expanded twice | what is read is an expansion that the hide sets of the standard allow |
| Input buffer and tokens (tccpp.c) | `buf_ptr`, `buf_end`, the token hash | `handle_eob`, `\`-newline, `next_nomacro1` | a token across a refill | the same tokens whatever the buffer size |
| Code generation (tccgen.c, x86_64-gen.c) | `vstack`, `ind`, `rsym`, stack slots, labels | `block`, `expr_*`, `gtst`, `gsym`, `gv`, `save_regs` | values that wait in flags or in jump chains; branches that merge | the code has the effects of the program |
| Labels (tccpp.c, tccgen.c) | `global_label_stack`, `local_label_stack`, `sym_label` | `label_push`, `label_pop`, goto, `&&label` | `__label__` in nested blocks; labels after an error | every jump reaches the label of its scope |
| Inline functions (tccgen.c) | `inline_fns`, token strings | `gen_inline_functions` | repeated passes until none is referenced | each is generated once, and the passes end |
| Integer expressions (tccgen.c, x86_64-gen.c) | `vstack`, types, what registers hold | `gen_op`, `gen_opic`, `gen_cast`, `vstore` | folding in 64 bits; casts that are delayed; bit-fields | values and types as C gives them, folded or not |
| Calls (x86_64-gen.c, lib/libtcc1.c) | `vstack`, registers and the stack at run time, the counters of the prologue | `gfunc_call`, `gfunc_prolog`, `__va_start`, `__va_arg` | caller and callee count alone, from opposite ends | each parameter is its argument |
| Struct layout (tccgen.c, tccpp.c) | `offset`, `bit_pos`, `prevbt`, `maxalign`, `pack_stack` | `struct_decl`, `#pragma pack` | units that several bit-fields share | fields are inside, aligned and apart |
| Initializers (tccgen.c) | `index`, `f`, `array_length` of each level, the section or the stack | `decl_initializer`, `decl_designator`, `init_putv`, `init_putz` | elided braces with designators; zeros after the values | each part has its last value, or zero |
| Variable length arrays (tccgen.c) | `vla_sp_loc`, `vla_flags`, slots for the stack pointer | at blocks, declarations, labels, gotos | flags that follow the text, while jumps do not | at every place the arrays in scope are on the stack, and nothing else |
| ELF symbols (tccelf.c, libtcc.c) | the symbol section, its hash table, `Sym.c` | `put_elf_sym`, `add_elf_sym`, `find_elf_sym`, `sort_syms` | merging in any order of files, growth, sorting | a name has one symbol; a stronger definition is never lost; references keep their symbol |
| ELF linking (tccelf.c) | relocations, GOT, PLT, dynamic symbols | `build_got_entries`, `relocate_section`, `tcc_load_alacarte` | tables that must agree entry by entry; names that have several symbols | what each reference reaches when the program runs |
| Bounds checker (lib/bcheck.c) | a table of two levels, lists of regions | `__bound_new_region`, `__bound_delete_region`, `__bound_ptr_add/indir`, malloc hooks | lists that share cells; lookups that reorder them; unsigned wrap | the table is exactly the set of live regions |
| Library interface (libtcc.c, tcc.c) | `TCCState` | `tcc_new`, `tcc_compile`, `tcc_delete` | what an error leaves for the next unit | units do not disturb one another |
| Running in memory (tccrun.c) | the code of the process | `tcc_relocate_ex`, backtraces | two passes that must agree | what is run is what was compiled |
| Assembler, other back ends, PE, COFF | | | | not modelled: tables of encodings and formats |
| Runtime library, Windows tools, headers | | | | not modelled: no state |

They interact by calls and through globals: the preprocessor is called by the
parser one token at a time; the parser pushes symbols and emits code in the
same function; a `Sym` keeps the index of its ELF symbol (`Sym.c`), which the
linker may change under it; labels and inline functions keep token strings of
the preprocessor.

## 2. The modules

| Module | What it models |
|---|---|
| `SymTable` | the two symbol stacks and the token table, through units, functions, blocks, inline functions, errors, `tcc_delete`/`tcc_new` |
| `Scopes` | abstract: what is visible, and what a closed scope gives back |
| `Preproc` | files and lines: every conditional directive, `#include` with its stack and cache, `#define`, `#undef`, `#line`, the start and end of a unit, errors at any line |
| `CondInclusion` | abstract: which lines take effect |
| `Macros` | the expansion of macros, token by token, from the file to the parser |
| `MacroMeaning` | abstract: the expansions that hide sets allow |
| `Units` | a process that compiles many units: where tokens come from, functions with their labels, recorded inline functions and the passes over them, errors |
| `Labels` | the label table, as operators on a record of its globals |
| `UnitMeaning` | abstract: which functions of a unit are in error or needed, and where each goto leads |
| `CodeGen` | the code generator for statements and conditions, as operators on a record of its globals |
| `CSource` | abstract: what a statement of C does, as a machine on the source |
| `CodeRun` | both machines side by side: the generated code on an x86-64, and the source |
| `IntExpr` | the value stack with types: operators, folding, casts, assignments, bit-fields |
| `CIntegers` | abstract: types, conversions and operators of C, as far as C defines them |
| `CallConv` | a call on x86-64: where `gfunc_call` puts each argument, and where the prologue and `va_arg` look for it |
| `StructLayout` | `struct_decl` with bit-fields, attributes, anonymous members, flexible arrays and `#pragma pack` |
| `Initializers` | `decl_initializer` and `decl_designator` on the structs that `StructLayout` has made |
| `InitMeaning` | abstract: for which part of an object each value of a list is |
| `ElfSym` | the symbol table of the linker with its hash table, filled by units and object files, and sorted at the end |
| `Resolution` | abstract: which definition of a name is used |
| `ElfLink` | from symbols and relocations to a program that is loaded: GOT, PLT, dynamic symbols, relocation in files and in memory |
| `BoundCheck` | the table of the bounds checker, its lookups, and malloc, free, realloc and the arrays of functions |
| `Regions` | abstract: the set of regions, and what a check may answer |
| `SymTable_proofs`, `Preproc_proofs`, `ElfSym_proofs`, `ElfLink_proofs`, `Units_proofs`, `StructLayout_proofs`, `BoundCheck_proofs`, `CallConv_proofs` | proofs |
| `MC...` | instances of these for TLC |

Each component is written against an abstract module that knows nothing of the
compiler. `SymTable`, `Preproc`, `ElfSym` and `BoundCheck` implement theirs by
a refinement mapping (INSTANCE ... WITH, the last definition of the module).
`CodeRun`, `Initializers` and `IntExpr` carry the state of both sides and
compare them at each step. `Units`, `Macros` and `ElfLink` compare a result
with an operator of the abstract one.

### SymTable

A state is the stacks as sequences of `Sym` objects (`Slots`) with the fields
`v`, `prev_tok` and, for the markers of blocks, `next`; `sym_of` is
`sym_identifier` and `sym_struct`. The phases of `tcc_compile` and
`gen_function` are `phase` and `fn`; `blocks` is the C stack of `block()`,
which an error abandons. Actions: `StartUnit`, `Declare` (`sym_push` with the
redeclaration check of `sym_push2`), `DeclareImplicitly` and `DefineFunction`
(`global_identifier_push`), `BeginFunction`, `EnterBlock`, `LeaveBlock`,
`EndFunction`, `GenInline`, `EndOfFile`, `RaiseError`, `FinishUnit` (which pops
the global stack *before* the local one, as the code does) and `Recreate`.
`dirty` is a history variable: an error was raised while there were local
symbols. `sym_pop` is modelled by its result (`HeadsAfterPop`): a head takes the
`prev_tok` of the oldest popped symbol of the name.

### Preproc

A line is one record; lines of a header are fixed when the state is made
(`Contents`), lines of the main file are chosen as they are read. `ifdef_stack`
has the two bits of the code. Skipping with `preprocess_skip` is a mode, and
its nested groups are counted in `a`. The labels `test_skip`, `test_else` and
`skip` are operators, so that what each `goto` leaves out is left out here.
`Fail` is `tcc_error` from any line; it keeps the files that the code keeps.

### Macros

The globals are a record that the operators take and return: `macro_ptr`,
`nested_list`, `can_read_stream` with what is left of each enclosing stream,
and the token string that is filled. `macro_subst_tok`, `macro_arg_subst`,
`macro_twosharps` and `macro_subst` are operators of these names, mutually
recursive as in the code; the one action is a `next()` of the parser. A token
is a sequence of strings, so that `##` joins two; a token with `TOK_NOSUBST`
before it is marked. `lost` says that the end of a replacement was noticed
while another macro was the innermost (see section 4).

### Units and Labels

A token stands for a statement or a bracket. `input` is where `next()` reads:
the expansion of a macro or a recorded function (`macro_ptr`), the token that
`unget_tok` has put back, and the file. `Compile` is one step of the compiler
inside `tcc_compile`: the head of a function, a token that is recorded, a
statement, the end of a block with `label_pop`, a step of
`gen_inline_functions`, or its return. `Error` is `tcc_error`: a `longjmp`, or
the end of the process once `error_set_jmp_enabled` is cleared. Nothing is reset
that the code does not reset: labels, `macro_ptr`, the pushed back token and
the ends of blocks stay for the next unit. Two history variables: `clean_start`,
set by `StartUnit` alone, says that no error had left anything when the unit
started, and is the premise of what is claimed of a whole unit; `tainted` says
that something which an error left, also one of the same unit, may be used again, and
is the premise of what is claimed of each step. The code of a unit is a
sequence of cells, one for each token, with the address that a goto leads to;
jumps that wait for a label are the list `jumps` of its `Sym`.

### CodeGen, CSource, CodeRun

`CodeGen` translates function by function: `block`, `expr_land`, `expr_lor`,
`expr_cond`, `unary`, `gvtst`, `gtst`, `gv`, `get_reg`, `save_reg`, `psym`,
`gsym_addr`. An operator takes the globals and returns the new globals.
Jumps that are not resolved are chained through their operands as in the code,
and a label is a place in it. Values are the integers 0..2 and conditions, and
floats that are only compared. In `CodeRun` the initial states are the programs
of `MCCodeRun`, each compiled; a step takes both machines to their next call,
operation or return, with every result the call may have.

For variable length arrays the globals `vla_sp_loc` and `vla_flags`, and the ints
`block_vla_sp_loc` that `block` and its callers hand each other by address, are part of
`CodeGen`: `Braces` is the whole branch for `{`, with what it saves
(`EnterVla`) and puts back (`LeaveVla`). The address of a variable of a call of `block` that has
returned is pointer 0, and reading through it gives a slot that is never stored;
programs that do so are left out (section 4). The processor has the stack pointer and the address
of each array; that the right ones are there is `ArraysKept`, which takes the scopes
from the source.

### IntExpr

An entry of the value stack has its type, where it is (constant, register,
flags, memory), the bits that are there, whether a cast is delayed
(`VT_MUSTCAST`), and beside these the type and the value that C gives to the
expression (`ct`, `cv`). An action is a token of an expression: a literal, a
variable, a bit-field, a cast, an operator, an assignment, `?:`, `!`, the saving
of registers; or what uses it: a test, a switch, an argument. An operator reads
the two entries on top only, and whatever an expression of any depth can leave
there is reached by some sequence of actions, since results go on as operands;
so the stack has two entries and the depth of expressions has no bound.

### CallConv

A state is one call. `args` is `vstack` with `vtop` first. An argument is its place among
all of them, from which it has its type (`TypeOf`) and its words (`WordsOf`), which are
numbered, so that the properties say which word came where. The caller counts the
registers (`CountArgs`), goes through the arguments from the last one in runs that end at
16 byte alignment (`MeasureRun`, `StoreArg`, `StoreAligned`, `EndOfRun`; `pushed` is the
stack from `%rsp` up), and loads what is left into registers (`LoadFloat`, `LoadInteger`,
with `%r10` and `%r11` for `%rdx` and `%rcx`, which `gv` overwrites). The assertions of
`gfunc_call` are steps to `failed`. The callee has counters of its own: `Prolog` counts
what is named for `va_start` and takes the place of a returned struct, `DefineParam` finds
one parameter, `VaArg` is `__va_arg`. A type is a scalar, a struct or a union by the modes
of its members.

### StructLayout and Initializers

`StructLayout` has the locals of `struct_decl` as variables. A member is one
action: `Member`, `BitField`, or `WholeField` for the widths that have a branch of
their own. `own` says whether a field is in memory that the struct has
allotted; the code allots none for an unnamed bit-field. `#pragma pack` may come
between any two members. What `Close` makes joins `tags` and can be a member, or
an object.

`Initializers` has the recursion of `decl_initializer` as a stack of frames
with `index` or `f` (`cur`) and `array_length` (`length`); `pc` is the place
inside one. Every token that `next` brings is also read by `InitMeaning`, which
keeps the path of the current object and the values so far, and says which
tokens C allows next (`Legal`). So TLC writes every initializer that C allows
for every object of the session. Static objects are bytes that are zero,
automatic ones bytes of garbage.

### ElfSym

`syms` are the symbols in the order of their indices, `buckets` and `chain` the
section `.hash`. `Added` is `add_elf_sym` with `put_elf_sym`, `find_elf_sym`,
`rebuild_hash` under it. `Load` is a symbol of an object file; `Weaken`,
`Refer`, `Define` and `Common` are what a unit does to a name through
`weaken_symbol`, `greloc`, `put_extern_sym` and `decl_initializer_alloc`;
`Write` is `sort_syms`. `relocs` are the indices handed out, with the name and
the kind for which each was.

### ElfLink

A program is a list of references, made by `Refer` in any order, and of
definitions. The steps of `elf_output_file` follow in its order: `BindExe` or
`BindDll` (dynamic symbols and copies in `.bss`), `build_got_entries`,
`Layout` (`prepare_dynamic_rel`), `relocate_syms`, `relocate_section` of each
section, `Write`. `Load` is the dynamic loader, which is external: it looks
names up in the program first and then in the library, copies objects, and
applies the tables. `Callbacks` are the names that the libraries leave undefined:
`tcc_load_dll` enters them into the same table as what they define (tccelf.c:2836), and they
have no type there, as linkers write them, so that the pass that binds symbols does nothing for
them. For code in memory the two passes of `tcc_relocate_ex` use
`runtime`.

### BoundCheck

The table is `t1` and `t2`, with the shared pages `__bound_empty_t2` and
`__bound_invalid_t2` as such; a cell has its list of entries and `is_invalid`.
Arithmetic is modulo the size of the address space. The program allocates
where the C library may put a region, calls functions with arrays, frees, and
looks up and checks every pointer with every offset.

## 3. The runs

Each passing run shows that its properties hold in every state of its instance;
for every property there is a mutation of a definition of the model (the
operators marked `Mutant`) that breaks it in the same run.

| Run | Instance | Shows |
|---|---|---|
| `symtable` | 5 symbols, 2 names, 2 nested blocks, 1 recorded inline function; symmetric | lookups (`HeadsExact`) and redeclaration checks (`RedeclaredExact`, `OnePerScope`) are exact while no error strikes inside a scope; nothing is left between units; the inductive invariant of the proofs, which contains the type invariant; every step is one of `Scopes` |
| `preproc` | a header with every content of at most 4 lines, over `#if #elif #else #endif` and one line of text, or with `#ifndef` in place of `#elif`; a header that goes on in a group of its includer has 3; main file with `#include`, and groups or `#define #undef #line`; 1 stale file; 2 levels of groups, 1 of includes | the lines that take effect are the selected ones (`ImplementsCondInclusion`), across files and errors; definitions and stacks are exact; a file is left unread only if reading it has no effect; an included file that continues its includer's group never returns to it |
| `macros` | 12 200 sets of definitions of 3 to 4 macros in 15 files: nested replacements, `#` and `##` with every operand, variadic parameters | the parser reads one of the expansions that hide sets allow, and an error is reported for wrong calls only |
| `units` | one function with every balanced body of at most 4 label items, and of 6 with one label; two inline functions and a plain one with 11 bodies each, in both orders; unfinished and repeated definitions | a unit is accepted exactly when it is correct, every goto leads to the label of its scope, each needed function is generated once, the passes end (`Terminates`) |
| `units_error` | several such units, 2 labels left over | violated: what an error leaves |
| `codegen` | all conditions of depth 2 and a part of depth 3 over 9 atoms, in 6 contexts, and two nested loops or switches with every jump and a label; up to four items with arrays of two sizes, blocks, loops, gotos and labels | same effects as the source (`SameEffects`), exactly the arrays in scope on the stack (`ArraysKept`), all jumps resolved, `vstack` balanced |
| `intexpr` | types of 2, 3, 4 and 5 bits; 4 sessions: operators, cascades of casts and assignments, bit-fields, constant expressions | what an entry holds is the value and has the type of C (`ValuesExact`), and so does what is stored, tested, switched on or passed (`UsesExact`) |
| `callconv` | 4 integer and 3 float registers; up to 4 arguments of seven types and 3 of ten, a returned struct, and variadic functions with 2 named and 3 other arguments | every parameter is its argument, the stack is aligned, no assertion fails (`ParamsExact`); so is every `va_arg` (`VaArgsExact`) |
| `initializers` | 8 sessions, each with one or two structs or unions of 2 to 3 members | fields are inside, aligned and apart (`LayoutExact`); every list that C allows is accepted and gives each part its value (`InitExact`) |
| `elfsym` | 3 names in one bucket; one name with every kind of symbol (weak or global; undefined, defined, common, absolute; three visibilities), two that are only referred to or defined, local symbols; 4 symbols, 2 definitions | lookups are exact through growth, references keep their symbol through merging and sorting, visibility narrows, a definition yields only to a stronger one |
| `elflink` | every sequence of 3 references out of 24, 10 names, 5 kinds of output | what each reference reaches in the loaded program, the callbacks of the libraries, the tables entry by entry, the entries kept for the loader |
| `boundcheck` | 5 pages of 2 cells of 2 addresses; regions of 0, 2, 5 bytes, at most 3; functions with one or two arrays | the cells hold exactly the regions (`CellsExact`), every check answers for the right region (`ChecksExact`), and the program is stopped exactly at the frees and reallocs of pointers at which no region starts, of malloc or of an array (`ImplementsRegions`) |

### Why these bounds

* `symtable`: five symbols allow a function marker, a block marker, and a name
  declared globally, in the function and in the block. The redeclaration check
  and the chains differ only in how many symbols lie between two markers; the
  theorems cover every size.
* `preproc`: four lines are the shortest file in which a complete group is
  followed, or preceded, by something that makes it not a guard. Two levels of
  `ifdef_stack` give a group around an `#include` and one inside. A stack that
  is full refuses the next push, which is reached. `MaxDefines` counts the
  definitions of one unit.
* `macros`: two tokens in a replacement are a name and its parenthesis, or two
  names; with three macros each can end in the name of another, and a call can
  begin in one, go on in another and end in the file. The operands of `##`
  reach from nothing to another `##`.
* `units`: four items make a block with a label of its own and a jump into, out
  of or over it; six make two blocks after or in each other. `MaxLabels` = 5 is
  one more than a body can have. `MaxStale` = 0 keeps units that start with
  labels left over out of `units`; `units_error` is about them. With three
  functions one inline function makes another referenced, in an earlier or
  later place of the list, and in a later pass.
* `codegen`: three registers leave `get_reg` a choice; the programs keep two
  values at a time, and what forces them to the stack are calls and merging
  branches. Every operator has every other as a child, every loop and switch is
  in every other, and every jump leaves both. For arrays an item before a block, two
  in it (which may be a block with a goto) and one behind it are what each
  left out case of section 4 takes to fail.
* `intexpr`: the code distinguishes which of two types is wider and which of
  them are narrower than int, and folds in the widest one; four widths in that
  order reach each of these tests. Every value of every type is a literal, so
  that every overflow, sign and truncation happens.
* `callconv`: two structs of two words fill four registers, three arguments leave one word
  over that straddles the last one, and two doubles with a pair do so for floats. Only the
  first four integer registers differ in kind (`%rdx` and `%rcx` are loaded late). With four
  arguments a run has something before, in and behind it. `SeenRegs` is as much
  more than `REGN` as in the code.
* `initializers`: sessions with structs in structs, arrays of structs, arrays
  without length, bit-fields and strings; 2 elements, since the code treats the
  first, the next and the end of a level differently. Lists have no bound of
  their own: designators may go back, and TLC covers the states. Values are 1
  and 2 (their `|` is 3, so that a second value for a part is seen); the
  garbage byte is 91, which is no value. The layouts have the widths that end a
  unit exactly, leave room, or leave none.
* `elflink`: three references make two uses of one name with the table entry of
  a third between them, in both sections. A use of each type, of each kind of
  symbol that the code treats differently, is among the 24; one name
  that the program and a library both leave undefined is among them.
* `boundcheck`: the regions start and end inside a cell, at its border, and in
  cells with those of others; 5 bytes span two cells and cross a page; a page
  lies below the heap, one is shared with it, and one above.
* `elfsym`: the table starts with one bucket, so that the third global symbol
  makes it grow, with a local one before it. The first two buckets hold two
  names and one. Two definitions meet once; with a third one the first two
  have been merged into one already.

What the code does not bound is bounded by a guard on one action
(`MaxRegions`, `MaxStale`, `MaxDefines`, `MaxNested`, `MaxBlocks`, `MaxInline`,
`MaxSyms`, `MaxDefs`, `MaxLabels`, `MaxRefs`, `MaxLength`, `Fuel`); each constant
says so where it is declared. `Room` is the guard of `MaxLabels`.

### Fairness

`Units` states `WF_vars(Compile)`: once `tcc_compile` has been called, the
compiler, which is one thread that waits for nobody, goes on. Whether another
unit is compiled (`StartUnit`, `Recreate`) is the caller's choice and has no
fairness. The liveness to show is that of the passes: `gen_inline_functions` runs
until a pass generates nothing, and generating makes functions referenced. The
other components are called by a parser that may stop at any time; no fairness
is justified for them, and their properties are safety.

## 4. Disagreements between code and documentation

### As a run

A run with one violated property, and a finding with its quotation in
`PROJECT.json`.

1. `units_error`: what an error leaves is not reset. `label_pop` raises the
   error for an undefined label before it removes it, so that every later
   unit with a function is refused for it; the counterexample of the run is this
   one. The same property fails when an inline function is in error (the
   process ends, since `error_set_jmp_enabled` is cleared before the passes),
   when an error strikes in the expansion of a macro (the next unit reads the rest
   of it), and after an undeclared name (`unget_buffer_enabled` stays set).

### By a property that the module states

These are stated next to the others but no run checks them: the module leaves the
case out of its properties by name. To see the counterexample, name the property
in the configuration of the module as shown.

2. `ObjectsExact` (`MCElfLink.cfg`): an executable that has a pointer to an object of a
   library in its initialized data, and also uses the object in its code, finds NULL in
   the pointer: `put_got_entry` adds a second, undefined dynamic symbol, and
   `relocate_syms` finds it first (tccelf.c:1134). `CopiedTwice` below breaks it, too.
3. `SymFindSearchesStacks` (add it to the INVARIANTS of `MCSymTable.cfg`): at
   the end of a unit the global stack is popped before the local one
   (libtcc.c:810). `HeadsExact` and `NothingLeft` leave this out (`dirty`). After an error inside a function, a local that hides a
   global puts the freed global back into the token table, and `sym_find` of the
   next unit returns a freed `Sym`, although tcc-doc.texi:1049 says that the
   local stack is searched, then the global one.
4. `OnlyProtectedCached` (`MCPreproc.cfg`): `#elif` after the selected
   `#ifndef` branch jumps over the label that cancels the guard (tccpp.c:1549),
   so that the file is cached as guarded although its other branch may be
   selected later. The same holds for a file whose name `#line` changes
   (tccpp.c:1590), and after an included file with no token at all
   (tccpp.c:2142). `Misleading` names these headers; only the second kind is in the
   instance of the run. Add `elif` to the operations of `Guards` for the first.
5. `UnorderedMeansFalse` (`MCCodeRun.cfg` with `Programs <- FloatNegations`): `!` of an
   ordered float comparison in the flags is false when an operand is not a
   number (tccgen.c:3665).
6. `SavedBeforeLoaded` (`MCCodeRun.cfg` with `Programs <- StatementExpressions`):
   a condition on top of `vstack` is in no register yet when `save_regs(0)`
   runs before `({ })` (tccgen.c:3627), and is saved in one branch only.
7. `StrictlyInside` (`MCBoundCheck.cfg`): only the end of an access is compared
   with its region (bcheck.c:199).
8. `KeptOrReported` (`MCElfSym.cfg` with `Overlap = TRUE`, as a PROPERTY):
   `put_extern_sym2` writes a definition through a kept index without
   `add_elf_sym` (libtcc.c:523), by a function the unit has called before it
   defines it, and `decl_initializer_alloc` writes `SHN_COMMON` over another
   file's definition (tccgen.c:5563), although tccelf.c:189 says "check if it is
   already defined".
9. `ScopesEnd` (`MCMacros.cfg` with `MCScopes` and `MCScopesInputs`): the end of
   a replacement marks the innermost nested macro, which is another one when
   several replacements end together (tccpp.c:2692):
   `#define G ab`, `ab a`, `a s`, `s(x) x`.

### Faults that the models leave out by name

Each is a guard or a disjunct in the module; what the code does there was
confirmed on the compiler itself.

* `Macros`: calls whose arguments go beyond the end of an expansion that is
  marked by another macro (`lost`); `f(b(1))` with `#define f(x) [x]` and
  `#define b f` keeps `f (1)` (tccpp.c:2598); the reading of the arguments of
  `#define a f(` in `a 1)` has no end (tccpp.c:2736); the strings of `#` keep
  the marks of their argument (tccpp.c:2551).
* `IntExpr`, where they are numbered: (1) `(unsigned)` of a long long keeps the
  upper half of its register when it is widened again; (2) `(char)` and
  `(short)` of a long long that is no constant shift in 64 bits; (3) bit-fields
  of type unsigned that are narrower than int are not promoted to int; (4) `&&`
  and `||` of constant expressions have the type of their operands, so that
  `(1u && 1u) - 2 < 0` is 0; (5) `?:` of constant expressions keeps the type of
  the operand it takes; (6) the value of an assignment to a char or a short is
  tested, switched on and stored in a bit-field as it was before the delayed
  cast; (7) the value of an assignment to a bit-field is its source; (8) `!` of
  a comparison that was cast to unsigned int stays unsigned.
* `MCCodeRun`, variable length arrays (tccgen.c:4537), each a predicate on the program; without
  it `ArraysKept` fails. `Forgetful`: a block without an array in the scope of one leaves
  `vla_sp_loc` with the address of a variable of `block` that is gone, and the block around it,
  if it has none either, then restores the stack pointer from whatever slot
  `vla_sp_loc_tmp` has: the code of `char a[n]; { { f(); } } f();` begins with
  `mov 0(%rbp),%rsp` behind the braces, and crashes. `OnCondition`: `char a[n]; if (x) goto L; L: f();`
  saves the stack pointer at the goto only, and restores it at the label from a slot that was not
  stored, although tccgen.c:4839 says "this is a no-op when combined with the load immediately
  after the label unless we arrive via goto". `Between`: so does the second label of
  `char a[n]; L: ; { char b[n]; } M: f();`, as `VLA_SP_LOC_SET` does not outlive the block.
  `Unsaved`: a goto over the declaration of another array, or into a block, comes to a label
  whose slot it did not pass. Beside these, break and continue restore nothing:
  an array in a loop that is left or continued so is never released, although tests/vla_test.c:2 expects
  "that allocating a variable length array in a loop does not use up a linear
  amount of memory"; no program of the instance leaves the scope of an array so.
* `CallConv`, each a predicate on the call. `PairOverwritten`: a struct of two
  doubles that begins in `%xmm1` is moved there from `%xmm0` before its second half is
  taken from `%xmm1` (x86_64-gen.c:1306): `f(1.0, s)` sees `s.a` twice. `UnionAsInteger`:
  `union { long y; long double x; }` is an integer for `classify_x86_64_merge`, and when it is
  passed on the stack or beside a long double the assertion x86_64-gen.c:1268 fails.
  `SeenInRegisters`: the prologue of a variadic function counts to 8 integer registers
  of 6, so that `va_arg` begins with the last named parameters. `PlaceNotSeen`: if it
  returns a struct in memory, `va_arg` begins one argument too early. `OneWordRead`:
  `va_arg` of a struct of two words in registers goes on one word, and for floats
  reads words that lie 16 bytes apart.
  Not in the model: an argument that is still an array keeps the alignment of the argument
  classified before it, so that `printf("%s %Lf", "abc", x)` fails in the same assertion; and
  include/stdarg.h uses `#else`, which this compiler spells differently, so that
  its last `va_start` is the one that remains.
* `StructLayout`: an unnamed bit-field allots no memory, so that the fields
  that go on in its unit lie outside (`struct { int :3; int b:4; }` has size 0) or over
  other members (`own = FALSE`). `aligned` and `packed` on a bit-field that goes
  on in a unit have no effect.
* `Initializers` (`Fault` and `LeftOver`): a designator inside values without
  braces of their own is refused or misread; so is the value after one with
  several designators. A union around an anonymous struct takes further values
  at wrong places. A second value for a part of a static object is or-ed with
  the first, and for an aggregate on the stack without braces zeroes what it should
  keep. A designator that turns a union to another member leaves the bits of the
  old one. Braces around the members of an anonymous struct, and a comma after
  the only value in braces, are refused. On the stack, several designators
  into a part that has no value yet, and bit-fields without a value beside one
  with a value, leave garbage.
* `BoundCheck`: `free` and `realloc` accept the start of an array of a function that
  runs, although malloc did not return it: `__bound_delete_region` finds a region
  there (bcheck.c:573), takes it from the table and reports nothing (bcheck.c:745, 767), so that
  the array is no longer checked; it would do the same with a static array. This is in the
  model: `Free` and `Realloc` end such a region, which is why `ImplementsRegions`
  says no more than that a region must start at the pointer. `libc_free` is then called with
  the array; the model goes on from where it returns.
* `SymTable`: an error inside a block also leaves `scope_stack_bottom` at a `Sym` that is
  then freed. In the next function the redeclaration check of the parameters stops at that `Sym` (tccgen.c:158),
  which may by then be the `Sym` of a parameter, and so misses a second parameter of a name that
  lies below it. The model does the same; `RedeclaredExact`
  and `OnePerScope` leave it out (`dirty`, `OuterBottom = Nil`).
* Not in a model: `__bound_memalign` calls `memalign(size + 1, align)` (bcheck.c:734), whose first
  argument is the alignment; the model has the case where enough is allocated. `__bound_realloc` copies
  `old_size` bytes into the new region also when that is smaller (bcheck.c:770).
* Not in a model: `typedef int T[];` gives every later array the length of the
  first initializer of one; `(-0x7fffffffffffffffLL-1)/-1` in a constant
  expression ends the compiler with SIGFPE (tccgen.c:1384).
* `ElfLink` (`Broken`): `HidesCopy` is finding 2. `CopiedTwice`: two names of an
  object are copied to two places if the weak one comes first. `PointsOutside`:
  a shared library gives a pointer to an undefined variable its own load
  address. `Displaced`: a relocation of a shared library that is kept takes
  the `r_offset` of one that is not. `NamesPlt`: a function of the program that
  is called through the PLT is exported with its offset in the PLT, counted from the section of
  the function; `CallbacksExact` names this address (`ExportedPlt`) as the only other one that a library
  may find. `Accepted`: a name that nobody defines is not reported as undefined when a
  library leaves it undefined, too, since `find_elf_sym` finds that entry
  (tccelf.c:1630, 2836); the reference then leads to address 0.

The steps of 8 are left out of `elfsym` by `Overlap = FALSE`, the orders of floats under
`!` of 5 and `({ })` of 6 are no programs of `codegen`; a unit of `units` starts
without leftovers (`MaxStale = 0`, `clean_start`). A unit in error may still end the
process, or use a label that was freed, in the inline functions generated after its error:
`VerdictExact` allows both.

## 5. The proofs

### SymTable_proofs

For any sets of symbols and names and any bounds:

* `Invariant`: `Spec => []IndInv`;
* `TypeCorrect`: `Spec => []TypeOK`;
* `LookupCorrect`: `Spec => []HeadsExact`, what `sym_find` returns is what a
  search of both stacks finds;
* `ScopesHaveNoDuplicate`: `Spec => []OnePerScope`;
* `RedeclarationsRefused`: `Spec => []RedeclaredExact`;
* `UnitsAreSeparate`: `Spec => []NothingLeft`.

Assumed: `SymTableAssumption` (the null pointer is no symbol, the name of a marker is
no name, the bounds are natural numbers). The sets need not be finite.

`HeadsExact` is not inductive: popping restores `prev_tok` of the oldest popped
symbol, which is right only if `prev_tok` was what a search found below that
symbol (`Chains`). Chains must survive `global_identifier_push` under open
scopes, where a new symbol joins the *global* stack while symbols above it have
`prev_tok` fields already: it is called only for a name that is not visible, so
that no local chain of this name exists. They must also survive the end of a
unit, which pops the global stack first: without an error the local stack is empty by then
(`ControlOK`). That pops remove whole scopes needs `BlocksOK`, which links the
markers of the active blocks from `scope_stack_bottom`; `OnePerScope` needs it,
too. `StacksOK` (a symbol is on one stack, once) lets every stack operation
change one symbol's fields only. `IndInv` is their conjunction, and the run
`symtable` checks it first.

The proof has one lemma per action (`EnterBlockInd`, `LeaveBlockInd`, ...), one
per primitive (`PushLocalTable`, `PopLocalTable`, ...), and three facts about
searches: pushing another name does not change what is found (`NewestSkip`),
popping leaves what was found below (`NewestAfterPop`), and the head after a pop
(`HeadAfterPop`).

The module ends with the refinement, `Refinement`: `Spec => Abs!Init /\ ImplementsScopes`, the stacks implement `Scopes`.
What a search returns is defined by CHOOSE, so that the proof first shows that
there is one such symbol: a bounded set of positions has one greatest element, and a symbol
is on a stack once (`StacksOK`). It adds one invariant to `IndInv`, `DummyStays`:
the null pointer never gets a name, a scope or a link. Then there is one lemma
per action, which maps it to the step of `Scopes` or to a stutter: opening
a block appends an empty scope, popping removes the last one.

### Preproc_proofs

For any macros, headers, texts and depths of the two stacks:

* `TypeCorrect`, `BranchesSelected` (`GroupsSelected`), `DefinitionsExact`
  (`DefinesExact`), `BorrowRefused` (`[][BorrowedIsRefused]`) and
  `StaleFilesUntouched` (`[][StaleUntouched]`), all from
  `Invariance`: `Spec => []IInv`.

Assumed: `PreprocAssumption`. The set of macros is finite, since a state starts with a
list of the predefined ones; the lines are any records of the types named there.

`GroupsSelected` speaks of the groups of the current unit and is not inductive: when a
file ends, the group that is looked at next is one of its includer, and what
is skipped is told by a single flag. `SelectedOK` says that of all open groups
only the innermost one can have a branch that is not selected, and then
`preprocess_skip` is on; `PtrsOK` says that the parts of `ifdef_stack` that belong
to the open files are nested; `IdleOK` that an error leaves nothing that is skipped.
`BorrowOK` is about an `#else` or `#elif` of a header that has no group open: it is
taken for the group of the includer, which had a selected branch, so that what is
skipped from then on is never selected again. `DefinesOK` adds to `DefinesExact` that `define_start` is inside
`define_stack`, which `free_defines` relies on. There is one lemma per action
(`DefineOK`, `EndifOK`, `IncludeOK`, `EndUnitOK`, ...); those that only advance
in the current file share `AdvancedOK`.

The second half of the module has, from `CacheInvariance`: `Spec => []CacheInv`:

* `GuardsExact`: `Spec => []CacheExact`, a header that the cache lets `#include`
  leave unread would have no effect, with any macros among which the one it is cached
  with is;
* `InclusionRefined`: `Spec => ImplementsCondInclusion`, every step is a step
  of `CondInclusion`, or one that changes nothing it sees, up to the two exceptions
  that the property names (section 4).

`CacheExact` is not inductive, since it is about files that were read and closed, and
a header becomes cached by flags that were set line by line. `GuardOK` says what
`ifndef_macro` stands for while its header is read: wherever that macro is
defined, the lines read so far have no effect, and the groups that are open, on
`ifdef_stack` and in `preprocess_skip`, begin with one that is not selected. After the
`#endif` with `TOK_FLAG_ENDIF`, the same holds of all the lines so far with no group
open. `FlagsOK` says when `TOK_FLAG_BOF` may be set, `FilesRead` which file of the unit is
the main one, where an included file went on and where another name comes from.
Whether lines have an effect is a function of their number defined by recursion. No
induction over it is needed: a header is read one line at a step, so that
`NoEffect` is carried from the values at one line to those at the next
(`NoEffectLine`), in a state whatever macros are defined in it, and the induction is that of
the steps.

The refinement takes the groups of each file from its part of `ifdef_stack`
(`GroupsOfFile`). `LineMaps` shows that a line of the current file changes the last
file and the last groups alone. What is left is one lemma about the groups of the current
file for each conditional line (`IfTop`, `ElseTop`, `ElifTop`, `EndifTop`, `SkipTop`),
where the two bits of an entry are compared with the states of a group, and one for the
start and the end of an included file (`IncluderGroups`, `ReturnGroups`). An `#else`
that is taken for a group of the includer satisfies the second disjunct, and stays there
by the proof of `BorrowRefused`.

`CacheInv` quantifies over all functions and is not for TLC, which checks
`CacheExact` and the refinement themselves.

### ElfSym_proofs

For any names, any `elf_hash`, any symbols of object files and any bounds:

* `TypeCorrect`, `LookupIsExact` (`HashExact`), `RelocationsFollow` (`RelocsExact`) and
  `SortedTable` (`LocalsFirst`), from `ElfInvariant`: `Spec => []ElfInv`;
* `VisibilitiesNarrow`: `Spec => VisibilityNarrows`;
* `DefinitionsYield`: `Spec => ImplementsResolution`, if `~ Overlap`.

Assumed: `ElfSymAssumption`. With `Overlap` the last theorem is false: a unit
patches the symbol it knows without a question (section 4).

`HashExact` is about a function that is defined by recursion along `chain`.
`Chained` says what the arrays hold: the head of a bucket is the greatest
symbol of the bucket, and the link of a symbol the greatest one of its bucket below
it. Chains descend, so the walk has a closed form (`WalkFrom`), which the recursion can
only agree with (`WalkIs`: the least index where it does not would need a lesser one).
`rebuild_hash` makes any table `Chained` whatever it was before
(`RebuiltTable`), a new symbol becomes the greatest of its bucket
(`PutHashed`), and a symbol that is replaced keeps its name and stays local or not
(`ChangedTable`). `Unique`: a name has one symbol that is not local, since
`add_elf_sym` looks it up first. `UnitOK`: the index that a unit remembers is that of a
symbol of the name, which `put_extern_sym` patches and `sort_syms` would invalidate.

That `sort_syms` keeps the relocations needs its map to be a permutation
(`NewIndexIs`): it is injective since counting the elements up to one is strictly
monotonic (`UpToIs`), and an injection of a finite set into itself is onto.

For the last two theorems, `StepIs` says that a step changes or appends one symbol
(`OneChanged`) and what becomes of it: its visibility is narrowed
(`Narrows`) and its definition yields as `Resolution` allows (`Yields`). `Undefs`, an
undefined symbol has no definition, is what lets one take the place of another.

### ElfLink_proofs

For any program, libraries, references and bound of their number, and every kind of
output:

* `SlotsAreExact`: `Spec => []SlotsExact`;
* `EntriesAreCounted`: `Spec => []EntriesCounted`;
* `CallbacksAreExact`: `Spec => []CallbacksExact`.

Assumed: `ElfLinkAssumption` (a library defines and refers to names of the program's
name space only, and leaves finitely many undefined, none of which it defines).

All three come from `Invariance`: `Spec => []IInv`, and speak of what was laid out
several passes earlier. `PhaseInv` is the order of the passes, `ProgInv` what they find:
the symbols have distinct names, and the relocations of a section are for a word of it and a
symbol. It is claimed of a section only until `relocate_section` rewrites its
table (`Pending`).

`TabInv` is about the GOT. `GotOK`: the words after the first three and the
symbols that have one are in a bijection. `SlotOK`: while the tables are filled, a
`JUMP_SLOT` has a PLT entry that jumps through its word, and the value of its dynamic symbol
is the place of that entry. The layout turns these places into addresses, so that only
`SlotLaid` is left of it. `HasSlot`: a word of a symbol has a relocation for a
dynamic symbol of the same name. Every pass that adds dynamic symbols or entries
(`PutOK`, `PutCall`, and one lemma per fold over the symbols, relocations and
callbacks) carries the three.

`CallInv` is about what the libraries find. A name may have several dynamic symbols: one that
`put_got_entry` has left undefined, one with the value zero, one for the PLT, one that
exports it; the loader takes the last one that is defined and not zero.
`CallOK`, and `LaidCall` after the layout, say that there is one, and that each one
after it is as good: it has the place of the function or the offset of a PLT entry that
jumps through a word of the function (`OwnJump`). Since the PLT only grows, such an
offset stays one (`PltGrown`); the layout adds the address of the function's own section
to it, and so it is what `ExportedPlt` says.

`CountInv` is about `reserved` and `kept`: a table that is not yet relocated has
the reserved number of entries that will count (`CountedTo`), one that is has kept them.
`RelocatedOK` shows this for `relocate_section`, which overwrites the table from its start while it
still reads it: after k entries at most k are kept, so that those to come are the old ones.

The passes are folds, written as functions over the number of elements done.
That these functions exist is `FoldExists`; the invariants are then carried from
one value to the next by induction over that number (`LoopKeeps`, `NoLeast`).

### Units_proofs

For any texts, expansions, names and bounds, and any number of units with or without errors:

* `InlineFunctionsComplete`: `Spec => []InlinesComplete`. No function is generated
  twice, and when `tcc_compile` returns no recorded function is referenced and
  without code, whatever errors there were;
* `LabelsFound`: `Spec => []HeadsExact`, `label_find` gives the newest local label of a
  name, or else the one of the function, or none, in every unit that found
  nothing an error had left;
* `TypeCorrect`: `Spec => []TypeOK`, which includes that every address in the code is a
  place in it.

Assumed: `LabelsAssumption` and `UnitsAssumption` (the texts and the expansion are
sequences of tokens; a replacement is not empty and has no macro in it).

The invariant of the first is `InlineInv`. `OncePlaced`: a function is recorded once, being
compiled, or generated once, and only one of these; it has then been defined,
which is what refuses a second definition. `PassOK`: since a pass has begun without generating
anything, the functions it went over have no symbol. This is what makes the
end of a pass the end of the work: generating a function is the only thing in a
pass that makes others referenced, and it sets `inline_generated`. `ShapeOK`
says that the lists are sequences of records, as far as the proof needs it.
One lemma per action: `BeginFunctionInline`, `RecordInline`, `GenerateInlineInline`,
`PassInline`, ...; statements, blocks and errors only add symbols outside the
passes.

`LabelsFound` and `TypeCorrect` come from `LabelsKept`:
`Spec => [](InlineInv /\ TypeInv /\ LabelInv)`. `HeadsExact` is not inductive: `label_pop`
restores `prev_tok` of the oldest freed label, so that it must be known what each
label hides. `ChainsOK` says that the head of a name is what a search finds (`Finds`),
that `prev_tok` of a local label is what a search finds *below* it, and that a
function has one global label of a name, which hides nothing. A goto to a label that is not declared makes a global label while local ones of
other names lie on the local stack. It is made only for a name that no search finds, so that the chains of this
name are empty (`PushGlobalChains`); this is also why the end of the chain that
`label_push` looks for is never needed. `PopLocalChains` is about all blocks at once:
the oldest freed label of a name hid what is visible at depth `d`.

`Fresh` says when the chains are right: nothing was freed and left on a stack,
and the first block begins at the bottom of the local stack. `ChainsOK` is
claimed under `Fresh` only, since errors break it: `label_pop` that fails in the middle
has put back some heads, but then a stack dangles (`FailedPop`), and labels that an error
leaves on the local stack are below the first block of later units. `Recreate` clears the heads of labels that are still
on a stack, and then these dangle, too. `DepthsOK` (the blocks begin at depths that
do not decrease) makes the depth of a block one to which the stack can be cut.

What next() gives is typed by `TokenTyped` and `AdvanceTyped`: at the end of a
token string `macro_ptr` becomes null or what `unget_tok` has kept, but never a string that is
empty where one is read.

### StructLayout_proofs

`LayoutIsExact`: `LayoutSpec => []LayoutExact`, for any scalars and arrays whose
alignments are powers of two up to 16, any members, widths, attributes and
`#pragma pack` in any order, and structs as members to any depth. Assumed:
`LayoutAssumption`.

The invariant is `LayoutInv`. That two bit-fields are apart needs `UnitFree`: the unit of
the last bit-field is the last memory of the struct, it has the size of the
type of the next one that may go on in it (`prevbt`), and no field reaches
beyond its bit `bit_pos`. An ordinary member ends the unit by `bit_pos = 0`,
which the mutant leaves out. `FieldsFit` and `TagsOK` carry that fields are inside and
aligned; a struct that is copied as an anonymous member keeps its alignments since of
two powers of two the smaller one divides the other (`PowersOrdered`,
`PowersDivide`), and rounding up makes room and aligns (`RoundUpAligned`). Fields without memory of their own
(`own = FALSE`, section 4) are excluded by `Inside` and `Apart`.

### BoundCheck_proofs

For tables of any sizes, any heap, any arrays, sizes, offsets and accesses:

* `Invariant`: `Spec => []Inv`;
* `CellsAreExact`: `Spec => []CellsExact`, the cells hold the regions of the program and
  nothing else;
* `ChecksAreExact`: `Spec => []ChecksExact`, every pointer is checked against its own region;
* `Implements`: `Spec => ImplementsRegions`.

Assumed, as the code and the machine have it:

* `BoundCheckAssumption`: a cell has more than one address; the heap is below the last page,
  which `__bound_init` marks as invalid; no access is larger than a page (the largest has 16
  bytes, a page 512 kB);
* `FramesAssumption`: arrays are below the last page, and those of one function do not overlap;
* `OffsetsAssumption`: an offset does not lead around the address space and back into the
  region. Without it `ChecksExact` is false: the code subtracts and adds modulo the
  address space.

The invariant is `Inv`. `TableOK` relates each cell to the regions that meet it
(`Of`): its list holds the entry of each once, in any order (`Lists`), and is the one
blank entry if there are none. Since it says nothing of the order, a lookup that moves
an entry to the head keeps it (`LookedOK`), and since regions are apart by a byte
(`RegionsOK`) a pointer matches no entry but that of its own region (`MatchesIs`,
`OneRegion`); so the one that is found does not depend on the order either (`FoundIs`).
`add_region` looks for a blank head, and `delete_region` leaves one when it removes
the last entry; the cells between the first and the last of a region belong to it alone
(`InnerCell`), so that both may overwrite them. The last page never gets a table of its own,
which is why `INVALID_POINTER` is never taken for a pointer into a region. Without
`FramesOK` (no region but the array itself meets the bytes of an array of a function that
runs, also after that was freed) `__bound_local_delete` might end what it did not begin; `LocalDeleteOK` has a case for
an array that is a region and one for an array that was freed, which is not found.

`NewRegionOK` and `DeletedOK` show this for one region, `LocalNewOK` and
`LocalDeleteOK` for the arrays of a function by induction over their number; that the
functions they are defined by exist is shown from the least number for which they do not
(`NoLeast`). `TopMark` and `HeapMark` are the two uses of `mark_invalid`, the second of which
may begin and end inside a page.

### CallConv_proofs

For any number of floating point registers, four to six integer registers (the six that
`arg_regs` has, or fewer), a prologue that counts to at least as many, and any calls
with any number of arguments of any types:

* `TheParamsExact`: `Spec => []ParamsExact`;
* `TheVaArgsExact`: `Spec => []VaArgsExact`.

Assumed: `CallAssumption` (only a variadic function is passed more than its parameters). The
calls that are left out are those that the properties name (section 4).

The caller goes from the last argument to the first, the callee from the first to the
last, and neither knows the counters of the other. The proof has a third count: the
`Plan` of a call has for each argument the marks up to it (`int`, `sse`: registers,
had every argument some; `rint`, `rsse`: registers that are used; `end`: words on the stack).
An argument is in registers if the marks up to it fit (`In`), or on the stack from `Start` on.
`IInv` is `CallerState` and `CalleeState`. In the loops of the caller there is an
argument `j` such that those after it are stored (`Laid`) or still in `args` (`Listed`), and
`gen_reg` and `sse_reg` are the greater of what is needed up to `j` and what is used
at all (`Counted`): so the test of the loop, which compares the counter with the number of
registers, says whether the next argument is `In` (`CountTests`), although the counter
never goes below the registers that are used. A run stops before an argument that
is aligned, and its padding makes the sum of its words even, so the address at which
it begins is the next mark, rounded (`RunMeasured`, `RunGoesOn`). While arguments are
loaded, those after `j` are `Placed`, in `%r10` and `%r11` where the third and fourth register
are; `gv` takes none of the registers in `PrepReg` (`PrepRegs`), and later arguments have
others (`LaterRegs`). `AllMoved`: the two copies before the call bring every word to `ArgReg`.
The callee has the marks of the last parameter it has defined (`CounterState`).

For `TheVaArgsExact`, `VaInv` says that the `va_list` is at the marks of the last argument that
was read, cut off at the number of registers (`VaCounters`). `AllSeen`: the prologue begins
so, which needs that the named integers fit (`SeenInRegisters` is the exception), and
`AlignedSum`: `__va_arg` rounds the end of an argument where the caller has rounded its start,
which is the same since sizes are multiples of alignments (`TypesAreGood`).

What the recursive functions `Total`, `TypeSize`, `classify_x86_64_inner`, `SeenAll` and `Plan`
return is proved as in `ElfLink_proofs`: `FoldExists` gives a function with their equation, and a
property that every step keeps holds of all their values (`FoldKeeps`, `Upwards`).

### Only model-checked

All other properties. `CodeGen`, `CSource`, `Macros`, `MacroMeaning`, `IntExpr`,
`Initializers` and `InitMeaning` use RECURSIVE operators or modules that have no
proof support here. `Terminates` is liveness under fairness, which is out of the
prover's reach. That the code and the verdict of `Units` are those of the
text (`CodeExact`, `VerdictExact`) compares them with functions over a whole text.
`ReferencesExact` of
`ElfLink` is stated for the kinds of references that the run has: a section of a shared library
that mixes entries that are not kept with kept `PC32` and `64` entries, and a `PC32`
reference to an object of a library in memory, are further exceptions which it does not
name. It stays a property of the run.

## 6. Assumptions, bounds and limits

* Memory never runs out (`tcc_malloc` exits then). A free symbol is any symbol
  that is on no stack.
* `SymTable`: fields of structs and anonymous types are never in the token table
  and are left out. Local label and struct tag tables have their own heads; tags
  behave as names.
* `Preproc`: tokens within a line are text; `#error` and the search for a file
  are not modelled. `#pragma pack` is in `StructLayout`.
* `Macros`: tokens are names; the lexer that reads the two halves of a `##`
  again joins names only. `__LINE__`, `__FILE__`, `defined`, and directives among the
  arguments of a call are left out. `GNU` variadic calls are those of the code.
* `Units`: a function is called before its definition only if the unit has
  declared it; types, storage and the files of errors are left out. One macro,
  whose replacement is a statement.
* `CodeGen`: ints and comparisons of floats; no `nocode_wanted`,
  computed goto, asm, or returned structs. Calls take no
  arguments and overwrite every register.
* `IntExpr`: no pointers, enums or floats. Registers are as wide as a long
  long; what a 32 bit instruction leaves in the upper half is zero. Shifts by
  the width or more and signed overflow have no meaning in C and are left out of
  the inputs.
* `CallConv`: scalars are words; members are scalars; `aligned` and `packed`, arguments that are
  arrays, and how a struct is returned in registers are left out. Values are in memory when
  they are loaded (`save_regs` stores what is not), and each load overwrites all the
  registers that `gv` may take.
* `Initializers`: ranges of designators, adjacent strings, expressions of struct
  type, flexible arrays, labels (`n:`), addresses and floats are left out.
  Values are constants.
* `ElfSym`: one symbol table; sections that are linked once, aliases, static
  symbols of units, symbols of DLLs and the initialized variables of a unit
  are left out. The value of a symbol is the number of its definition, of
  which there is none for a local symbol.
* `ElfLink`: x86-64 and ELF. Addends and encodings are left out: a word that is
  relative to its place stands for the address it leads to. Program headers, the hash tables of
  the output, versions, TLS and debug sections are not modelled. The order of
  sections is fixed.
* `BoundCheck`: the checker exists on 32 bit systems. Static arrays, the
  checked string functions, `alloca` and `longjmp` are left out; the zone that
  `mark_invalid` marks contains a whole page. `malloc(size + 1)` is as large as its
  region. The contents of regions are left out. What is said of a pointer into no region is left open.

### Not modelled

`PROJECT.json` lists every component. Most of the lines in `src/` are not
program logic that a state machine can say anything about: the headers of
`win32/include` alone are nearly half of the repository, and instruction tables,
encoders of five processors, PE and COFF writers, option parsing and the
runtime library are another quarter. Of what is left, not modelled yet are:

* the input buffer (`handle_eob`, stray backslashes) and the lexer;
* the assembler with its two passes over labels;
* `type_decl`, compatible types, enums, function types, floats;
* archives (`tcc_load_alacarte`) and linker scripts;
* backtraces and the signal handler of `tccrun.c`.

## 7. Plan

In this order:

1. `JumpChains`: the chains of `CodeGen` as sets of addresses, in a form that
   can be proved about.
2. `InputBuffer`: tokens across refills and `\`-newlines, against the same text in
   one buffer.
3. `Archive`: the passes of `tcc_load_alacarte` over an index, with termination.
