------------------------------ MODULE ElfLink ------------------------------
(***************************************************************************)
(* elf_output_file and tcc_relocate_ex: the symbols and the relocations of *)
(* a program become an executable, a shared library, a static executable   *)
(* or code in memory; then the dynamic loader, which is not part of the    *)
(* compiler, applies the tables that were written.                         *)
(*                                                                         *)
(* A section is a sequence of words, and an entry of the GOT, of the PLT or*)
(* of a relocation table takes one place.  Every reference has a word of   *)
(* its own.  A word relative to the place where it is (PC32, PLT32,        *)
(* GOTPCREL) is modelled by the address it stands for, so that addends do  *)
(* not appear.                                                             *)
(***************************************************************************)
EXTENDS Integers, Sequences, FiniteSets, SequencesExt

CONSTANTS
    Program,    \* the symbols a program may have: [type, bind, sec, value]
    Library,    \* the symbols of the dynamic libraries: [type, bind, value]
    Callbacks,  \* the names they leave undefined, and that none of them defines
    Uses,       \* the references a program may make: [sec, type, name]
    Outputs,    \* the kinds of output
    MaxRefs     \* bound: references

Names == DOMAIN Program

ASSUME ElfLinkAssumption ==
    /\ \A n \in Names : Program[n] \in
        [type : {"func", "object", "notype"}, bind : {"local", "weak", "global"},
         sec : {"undef", "text", "data"}, value : Nat]
    /\ DOMAIN Library \subseteq Names
    /\ Callbacks \subseteq Names \ DOMAIN Library /\ IsFiniteSet(Callbacks)
    /\ \A n \in DOMAIN Library :
        Library[n] \in [type : {"func", "object"}, bind : {"weak", "global"}, value : Nat]
    /\ Uses \subseteq [sec : {"text", "data"},
                       type : {"64", "PC32", "PLT32", "GOTPCREL"}, name : Names]
    /\ Outputs \subseteq {"exe", "rdynamic", "dll", "static", "memory"}
    /\ MaxRefs \in Nat

VARIABLES
    phase,      \* what is done next
    out,        \* output_type, with static_link and rdynamic
    refs,       \* the references as the program made them
    syms,       \* symtab_section: [name, type, bind, sec, value]
    rels,       \* the relocation tables of the sections: [off, type, sym, addend]
    tables,     \* the tables of the dynamic loader
    to_dynsym,  \* symtab_to_dynsym, of the symbols that have one
    reserved,   \* the entries prepare_dynamic_rel reserves for each section
    kept,       \* qrel: the entries relocate_section has kept
    image,      \* the words of the sections
    runtime,    \* runtime_plt_and_got: [val, jump]
    refused     \* an error was reported

vars == <<phase, out, refs, syms, rels, tables, to_dynsym, reserved, kept,
          image, runtime, refused>>

Sections == {"text", "data"}
IsExe     == out \in {"exe", "rdynamic"}
IsDynamic == IsExe \/ out = "dll"

(***************************************************************************)
(* Where the sections are, and the shared library and the others once they *)
(* are loaded.                                                             *)
(***************************************************************************)
sh_addr  == [text |-> 100, data |-> 200, bss |-> 300, got |-> 400, plt |-> 500]
RunBase  == 600                     \* runtime_plt_and_got
LoadBase == IF out = "dll" THEN 1000 ELSE 0
LibBase  == 5000

NoTables == [dynsym |-> <<>>, got |-> <<0, 0, 0>>, relgot |-> <<>>, plt |-> <<>>,
             bss |-> 0, relbss |-> <<>>, got_offset |-> <<>>]

Init ==
    /\ phase = "compile" /\ out \in Outputs /\ refused = FALSE
    /\ refs = <<>> /\ syms = <<>> /\ runtime = <<>>
    /\ rels = [s \in Sections |-> <<>>] /\ image = [s \in Sections |-> <<>>]
    /\ tables = NoTables /\ to_dynsym = <<>>
    /\ reserved = [s \in Sections |-> 0] /\ kept = [s \in Sections |-> 0]

-----------------------------------------------------------------------------
(***************************************************************************)
(* The units and object files.                                             *)
(***************************************************************************)

SymOf(n) == SelectInSeq(syms, LAMBDA s : s.name = n)

NewSym(n) == [name |-> n, type |-> Program[n].type, bind |-> Program[n].bind,
              sec |-> Program[n].sec, value |-> Program[n].value]

\* greloc, and the symbol of the name when it is the first reference to it.
Refer(u) ==
    LET i   == IF SymOf(u.name) = 0 THEN Len(syms) + 1 ELSE SymOf(u.name)
        off == Len(rels[u.sec]) + 1
    IN  /\ phase = "compile" /\ Len(refs) < MaxRefs
        /\ refs' = Append(refs, [sec |-> u.sec, off |-> off, type |-> u.type, name |-> u.name])
        /\ syms' = IF i > Len(syms) THEN Append(syms, NewSym(u.name)) ELSE syms
        /\ rels' = [rels EXCEPT ![u.sec] =
                        Append(@, [off |-> off, type |-> u.type, sym |-> i, addend |-> 0])]
        /\ image' = [image EXCEPT ![u.sec] = Append(@, 0)]
        /\ UNCHANGED <<phase, out, tables, to_dynsym, reserved, kept, runtime, refused>>

\* A definition that nothing in the program refers to.
Define(n) ==
    /\ phase = "compile" /\ Program[n].sec # "undef" /\ SymOf(n) = 0
    /\ n \in Callbacks
    /\ syms' = Append(syms, NewSym(n))
    /\ UNCHANGED <<phase, out, refs, rels, tables, to_dynsym, reserved, kept, image,
                   runtime, refused>>

EndOfInput ==
    /\ phase = "compile"
    /\ phase' = IF IsDynamic THEN "bind" ELSE "got"
    /\ tables' = [tables EXCEPT !.got_offset = [i \in DOMAIN syms |-> 0]]
    /\ to_dynsym' = [i \in DOMAIN syms |-> 0]
    /\ UNCHANGED <<out, refs, syms, rels, reserved, kept, image, runtime, refused>>

-----------------------------------------------------------------------------
(***************************************************************************)
(* The tables: .dynsym, .got, .rel.got, .plt, .rel.bss and got_offset.     *)
(* Offsets count from 0; the first three words of the GOT and the first    *)
(* entry of the PLT belong to the loader.                                  *)
(***************************************************************************)

DynSym(T, n, bind, sec, value) ==
    [T EXCEPT !.dynsym = Append(@, [name |-> n, bind |-> bind, sec |-> sec, value |-> value])]

\* The PLT with an entry that jumps through a word of the GOT.
PltWith(plt, slot) == Append(IF plt = <<>> THEN <<0>> ELSE plt, slot)

\* Mutant: a symbol that has an entry gets another one.
HasEntry_Never(T, i) == FALSE

\* "if a got entry already exists for that symbol, no need to add one"
HasEntry(T, i) == T.got_offset[i] # 0

put_got_entry(T, type, bind, i) ==
    LET s    == syms[i]
        slot == Len(T.got)
        plt  == IF type = "JUMP_SLOT" THEN PltWith(T.plt, slot) ELSE T.plt
        \* "the symbol is modified so that it will be relocated to the PLT"
        val  == IF type = "JUMP_SLOT" THEN Len(plt) - 1 ELSE s.value
        D    == [DynSym(T, s.name, bind, s.sec, val) EXCEPT
                    !.plt    = plt,
                    !.relgot = Append(@, [off |-> slot, type |-> type,
                                          sym |-> Len(T.dynsym) + 1])]
    IN  IF HasEntry(T, i) THEN T
        ELSE [IF IsDynamic THEN D ELSE T EXCEPT
                !.got_offset[i] = slot, !.got = Append(@, 0)]

\* The index of the symbol n in .dynsym: the last one is found first.
find_dynsym(T, n) == SelectLastInSeq(T.dynsym, LAMBDA d : d.name = n /\ d.bind # "local")

-----------------------------------------------------------------------------
(***************************************************************************)
(* The symbols of the program that the loader has to know.                 *)
(***************************************************************************)

\* Another name of the same object, which the library itself may use.
Aliases(n) == {m \in DOMAIN Library : /\ m # n /\ Library[m].value = Library[n].value
                                      /\ Library[m].bind = "global"}

\* "Ensure R_COPY works for weak symbol aliases"
HasAlias(n) == Library[n].bind = "weak" /\ Aliases(n) # {}
Alias(n)    == CHOOSE m \in Aliases(n) : TRUE

\* An object of a library gets a place in .bss, where the loader copies it.
Copy(T, n) ==
    LET put(U, m) == DynSym(U, m, Library[m].bind, "bss", T.bss)
        own == put(T, n)
    IN  [IF HasAlias(n) THEN put(own, Alias(n)) ELSE own EXCEPT
            !.relbss = Append(@, [off |-> T.bss, sym |-> Len(T.dynsym) + 1]),
            !.bss    = @ + 1]

\* In an executable: symbols of the libraries, and what -rdynamic exports.
Bind(T, i) ==
    LET s == syms[i]
    IN  CASE s.sec = "undef" /\ s.name \in DOMAIN Library ->
                IF Library[s.name].type = "func" THEN put_got_entry(T, "JUMP_SLOT", "global", i)
                ELSE Copy(T, s.name)
          [] s.sec # "undef" /\ out = "rdynamic" /\ s.bind # "local" ->
                DynSym(T, s.name, s.bind, s.sec, s.value)
          [] OTHER -> T

\* dynsymtab_section has the names that the libraries leave undefined, too; such
\* a symbol has no type there, so that it is not bound, and not reported.
Unbound == {i \in DOMAIN syms : /\ syms[i].sec = "undef" /\ syms[i].bind # "weak"
                                /\ syms[i].name \notin DOMAIN Library \cup Callbacks}

\* "now look at unresolved dynamic symbols and export corresponding symbol"
Export(T, n) ==
    IF SymOf(n) = 0 THEN T
    ELSE LET s == syms[SymOf(n)] IN DynSym(T, n, s.bind, s.sec, s.value)

\* Mutant: the names that the libraries need are not exported.
Exported_None(T) == T

Exported(T) ==
    LET names == SetToSeq(Callbacks)
        E[k \in 0 .. Len(names)] == IF k = 0 THEN T ELSE Export(E[k - 1], names[k])
    IN  E[Len(names)]

Bound(T) ==
    LET B[i \in 0 .. Len(syms)] == IF i = 0 THEN T ELSE Bind(B[i - 1], i)
    IN  B[Len(syms)]

BindExe ==
    /\ phase = "bind" /\ IsExe
    /\ refused' = (Unbound # {})
    /\ IF Unbound # {} THEN phase' = "done" /\ UNCHANGED tables
       ELSE phase' = "got" /\ tables' = Exported(Bound(tables))
    /\ UNCHANGED <<out, refs, syms, rels, to_dynsym, reserved, kept, image, runtime>>

\* In a shared library every symbol that is not local is exported.  The ones
\* that get an entry of the GOT have no index in symtab_to_dynsym.
SlotType(s) ==
    CASE s.type = "func" /\ s.sec = "undef" -> "JUMP_SLOT"
      [] s.type = "object" -> "GLOB_DAT"
      [] OTHER -> "none"

ExportDll(T, i) ==
    LET s == syms[i]
    IN  IF s.bind = "local" THEN T
        ELSE IF SlotType(s) # "none" THEN put_got_entry(T, SlotType(s), s.bind, i)
        ELSE DynSym(T, s.name, s.bind, s.sec, s.value)

DynIndex(T, i) ==
    IF syms[i].bind = "local" \/ SlotType(syms[i]) # "none" THEN 0
    ELSE find_dynsym(T, syms[i].name)

ExportedDll(T) ==
    LET E[i \in 0 .. Len(syms)] == IF i = 0 THEN T ELSE ExportDll(E[i - 1], i)
    IN  E[Len(syms)]

BindDll ==
    /\ phase = "bind" /\ out = "dll"
    /\ phase' = "got"
    /\ tables' = ExportedDll(tables)
    /\ to_dynsym' = [i \in DOMAIN syms |-> DynIndex(tables', i)]
    /\ UNCHANGED <<out, refs, syms, rels, reserved, kept, image, runtime, refused>>

-----------------------------------------------------------------------------
(***************************************************************************)
(* build_got_entries, and the addresses of the sections.                   *)
(***************************************************************************)

EntryFor(T, r) ==
    CASE r.type = "GOTPCREL" -> put_got_entry(T, "GLOB_DAT", syms[r.sym].bind, r.sym)
      [] r.type = "PLT32"    -> put_got_entry(T, "JUMP_SLOT", syms[r.sym].bind, r.sym)
      [] OTHER -> T

EntriesFor(T, rs) ==
    LET E[k \in 0 .. Len(rs)] == IF k = 0 THEN T ELSE EntryFor(E[k - 1], rs[k])
    IN  E[Len(rs)]

build_got_entries ==
    /\ phase = "got"
    /\ phase' = CASE IsDynamic -> "layout" [] out = "memory" -> "size" [] OTHER -> "symbols"
    /\ tables' = EntriesFor(tables, rels["text"] \o rels["data"])
    /\ UNCHANGED <<out, refs, syms, rels, to_dynsym, reserved, kept, image, runtime, refused>>

\* Mutant: a relative jump to an exported symbol is not counted.
IsCounted_NoJumps(r) == r.type = "64"

\* prepare_dynamic_rel
IsCounted(r) == r.type = "64" \/ (r.type = "PC32" /\ to_dynsym[r.sym] # 0)

\* Mutant: an undefined symbol keeps its place in the PLT.
DynValue_NoPlt(d) == IF d.sec = "undef" THEN d.value ELSE d.value + sh_addr[d.sec]

\* "relocate symbols in .dynsym"
DynValue(d) ==
    IF d.sec # "undef" THEN d.value + sh_addr[d.sec]
    ELSE IF d.value # 0 THEN d.value + sh_addr["plt"] ELSE 0

Layout ==
    /\ phase = "layout"
    /\ phase' = "symbols"
    /\ tables' = [tables EXCEPT !.dynsym =
                    [k \in DOMAIN @ |-> [@[k] EXCEPT !.value = DynValue(tables.dynsym[k])]]]
    /\ reserved' = IF out # "dll" THEN reserved
                   ELSE [s \in Sections |-> Cardinality({k \in DOMAIN rels[s] : IsCounted(rels[s][k])})]
    /\ UNCHANGED <<out, refs, syms, rels, to_dynsym, kept, image, runtime, refused>>

-----------------------------------------------------------------------------
(***************************************************************************)
(* relocate_syms and relocate_section.                                     *)
(***************************************************************************)

\* resolve_sym asks the process, the others their dynamic symbols.
IsFound(s) ==
    CASE out = "memory" -> s.name \in DOMAIN Library
      [] out = "static" -> FALSE
      [] OTHER -> find_dynsym(tables, s.name) # 0

FoundValue(s) ==
    IF out = "memory" THEN LibBase + Library[s.name].value
    ELSE tables.dynsym[find_dynsym(tables, s.name)].value

\* The pass that only finds the size of the code in memory has no addresses.
SectionAddress(sec) == IF phase = "size" THEN 0 ELSE sh_addr[sec]

SymValue(s) ==
    IF s.sec # "undef" THEN s.value + SectionAddress(s.sec)
    ELSE IF IsFound(s) THEN FoundValue(s) ELSE 0

Lost == {i \in DOMAIN syms : /\ syms[i].sec = "undef" /\ syms[i].bind # "weak"
                             /\ ~IsFound(syms[i])}

\* Twice for code in memory, once for a file.
relocate_syms ==
    /\ phase \in {"size", "symbols"}
    /\ refused' = (Lost # {})
    /\ phase' = IF Lost # {} THEN "done" ELSE IF phase = "size" THEN "symbols" ELSE "text"
    /\ syms' = [i \in DOMAIN syms |-> [syms[i] EXCEPT !.value = SymValue(syms[i])]]
    /\ UNCHANGED <<out, refs, rels, tables, to_dynsym, reserved, kept, image, runtime>>

\* R is a record of the table, the kept entries, the words and the runtime table.

Advanced(R) == [R EXCEPT !.kept = @ + 1]

\* The entry qrel becomes a dynamic one: r_offset is not set here.
Relative(R, r, val) ==
    LET q == R.kept + 1
    IN  Advanced([R EXCEPT !.rels[q] = [@ EXCEPT !.type = "RELATIVE", !.sym = 0,
                                                 !.addend = R.words[r.off] + val]])

Jump(R, r) ==
    LET q == R.kept + 1
    IN  Advanced([R EXCEPT !.rels[q] = [off |-> r.off, type |-> "PC32",
                                        sym |-> to_dynsym[r.sym], addend |-> R.words[r.off]]])

\* add_jmp_table and add_got_table
Runtime(R, r, val, jump) ==
    [R EXCEPT !.words[r.off] = @ + RunBase + Len(R.runtime) + 1,
              !.runtime = Append(@, [val |-> val, jump |-> jump])]

Word(R, r, val) == [R EXCEPT !.words[r.off] = @ + val]

\* Memory of the process is too far from its libraries for a jump.
IsFar(val) == out = "memory" /\ val >= LibBase

RelocateEntry(R, k) ==
    LET r   == R.rels[k]
        val == syms[r.sym].value
    IN  CASE r.type = "64" ->
                Word(IF out = "dll" THEN Relative(R, r, val) ELSE R, r, val)
          [] r.type = "PC32" /\ out = "dll" /\ to_dynsym[r.sym] # 0 -> Jump(R, r)
          [] r.type \in {"PC32", "PLT32"} /\ IsFar(val) -> Runtime(R, r, val, TRUE)
          [] r.type = "GOTPCREL" /\ out = "memory" -> Runtime(R, r, val, FALSE)
          [] r.type = "GOTPCREL" -> Word(R, r, sh_addr["got"] + tables.got_offset[r.sym])
          [] OTHER -> Word(R, r, val)

Relocated(s) ==
    LET R[k \in 0 .. Len(rels[s])] ==
            IF k = 0 THEN [rels |-> rels[s], kept |-> 0, words |-> image[s], runtime |-> runtime]
            ELSE RelocateEntry(R[k - 1], k)
    IN  R[Len(rels[s])]

relocate_section(s) ==
    LET R == Relocated(s)
    IN  /\ phase = s
        /\ phase' = IF s = "text" THEN "data" ELSE "write"
        /\ rels' = [rels EXCEPT ![s] = R.rels]
        /\ kept' = [kept EXCEPT ![s] = R.kept]
        /\ image' = [image EXCEPT ![s] = R.words]
        /\ runtime' = R.runtime
        /\ UNCHANGED <<out, refs, syms, tables, to_dynsym, reserved, refused>>

(***************************************************************************)
(* What is done last: fill_got of a static executable, and                 *)
(* patch_dynsym_undef of a file for the loader.                            *)
(***************************************************************************)

IsFilled(r) == r.type \in {"GOTPCREL", "PLT32"}

fill_got_entry(g, r) == [g EXCEPT ![tables.got_offset[r.sym] + 1] = syms[r.sym].value]

fill_got ==
    LET rs == rels["text"] \o rels["data"]
        G[k \in 0 .. Len(rs)] ==
            IF k = 0 THEN tables.got
            ELSE IF IsFilled(rs[k]) THEN fill_got_entry(G[k - 1], rs[k]) ELSE G[k - 1]
    IN  G[Len(rs)]

\* "zero plt offsets of weak symbols in .dynsym"
Patched(d) == IF d.sec = "undef" /\ d.bind = "weak" THEN [d EXCEPT !.value = 0] ELSE d

patch_dynsym_undef == [k \in DOMAIN tables.dynsym |-> Patched(tables.dynsym[k])]

Write ==
    /\ phase = "write"
    /\ phase' = IF IsDynamic THEN "load" ELSE "done"
    /\ tables' = CASE IsDynamic      -> [tables EXCEPT !.dynsym = patch_dynsym_undef]
                   [] out = "static" -> [tables EXCEPT !.got = fill_got]
                   [] out = "memory" -> tables
    /\ UNCHANGED <<out, refs, syms, rels, to_dynsym, reserved, kept, image, runtime, refused>>

-----------------------------------------------------------------------------
(***************************************************************************)
(* The dynamic loader (external).  A name is looked up in the program and  *)
(* then in the libraries.  An undefined symbol of the program stands for   *)
(* its place in the PLT, except for the entry of the PLT itself.           *)
(***************************************************************************)

Provides(n, call) ==
    SelectLastInSeq(tables.dynsym,
        LAMBDA d : d.name = n /\ d.value # 0 /\ (call => d.sec # "undef"))

Lookup(n, call) ==
    IF Provides(n, call) # 0 THEN LoadBase + tables.dynsym[Provides(n, call)].value
    ELSE IF n \in DOMAIN Library THEN LibBase + Library[n].value
    ELSE 0

LoadedGot ==
    LET load(g, e) == [g EXCEPT ![e.off + 1] =
                        Lookup(tables.dynsym[e.sym].name, e.type = "JUMP_SLOT")]
        G[k \in 0 .. Len(tables.relgot)] ==
            IF k = 0 THEN tables.got ELSE load(G[k - 1], tables.relgot[k])
    IN  G[Len(tables.relgot)]

LoadedWords(s) ==
    LET load(w, e) == [w EXCEPT ![e.off] =
                        IF e.type = "RELATIVE" THEN LoadBase + e.addend
                        ELSE Lookup(tables.dynsym[e.sym].name, FALSE) - LoadBase]
        W[k \in 0 .. reserved[s]] ==
            IF k = 0 THEN image[s] ELSE load(W[k - 1], rels[s][k])
    IN  W[reserved[s]]

\* The loader refuses a program with a name that nobody defines.
Unresolved ==
    \E e \in Range(tables.relgot) \cup
            UNION {Range(SubSeq(rels[s], 1, reserved[s])) : s \in Sections} :
        /\ e.sym # 0 /\ tables.dynsym[e.sym].bind # "weak"
        /\ Lookup(tables.dynsym[e.sym].name, e.type = "JUMP_SLOT") = 0

Load ==
    /\ phase = "load"
    /\ phase' = "done" /\ refused' = Unresolved
    /\ tables' = [tables EXCEPT !.got = LoadedGot]
    /\ image' = [s \in Sections |-> LoadedWords(s)]
    /\ UNCHANGED <<out, refs, syms, rels, to_dynsym, reserved, kept, runtime>>

Next ==
    \/ \E u \in Uses : Refer(u)
    \/ \E n \in Names : Define(n)
    \/ EndOfInput \/ BindExe \/ BindDll \/ build_got_entries \/ Layout
    \/ relocate_syms \/ (\E s \in Sections : relocate_section(s)) \/ Write \/ Load

Spec == Init /\ [][Next]_vars

-----------------------------------------------------------------------------
(***************************************************************************)
(* Properties.                                                             *)
(***************************************************************************)

IsLoaded == phase = "done" /\ ~refused

\* The word of the GOT at an address, and the place an address of code leads to.
InGot(a)  == a - LoadBase - sh_addr["got"] + 1
GotWord(a) == tables.got[InGot(a)]

Reached(a) ==
    LET k == a - LoadBase - sh_addr["plt"] + 1
    IN  CASE k \in DOMAIN tables.plt -> tables.got[tables.plt[k] + 1]
          [] a > RunBase /\ a - RunBase \in DOMAIN runtime -> runtime[a - RunBase].val
          [] OTHER -> a

\* The address a reference stands for at run time.
Address(r) ==
    LET w == image[r.sec][r.off]
    IN  CASE r.type = "64" -> w
          [] r.type = "GOTPCREL" /\ out = "memory" -> runtime[w - RunBase].val
          [] r.type = "GOTPCREL" -> GotWord(LoadBase + w)
          [] OTHER -> LoadBase + w

IsHere(n)   == Program[n].sec # "undef"
Home(n)     == LoadBase + sh_addr[Program[n].sec] + Program[n].value
IsObject(n) == n \in DOMAIN Library /\ Library[n].type = "object"

\* The name under which a library uses an object of its own.
OwnName(n) == IF Aliases(n) = {} THEN n ELSE Alias(n)

\* Where a function is, and where everybody has to find an object.
Place(n) ==
    CASE IsHere(n) -> Home(n)
      [] IsObject(n) /\ IsDynamic -> Lookup(OwnName(n), FALSE)
      [] n \in DOMAIN Library -> LibBase + Library[n].value
      [] OTHER -> 0

\* A function may be reached through the PLT, or a pointer to it may; only a
\* weak name may lead nowhere.
Exact(r) ==
    \/ /\ Address(r) = Place(r.name)
       /\ Place(r.name) # 0 \/ Program[r.name].bind = "weak"
    \/ /\ Program[r.name].type # "object" /\ Place(r.name) # 0
       /\ Reached(Address(r)) = Place(r.name)

Mentions(type, n) == \E r \in Range(refs) : r.type = type /\ r.name = n

\* put_got_entry adds an undefined symbol for an object that has a place in
\* .bss, and relocate_syms finds that one.
HidesCopy(r) == IsExe /\ r.type = "64" /\ IsObject(r.name) /\ Mentions("GOTPCREL", r.name)

\* Two names of an object are copied to two places when the weak one is first.
CopiedTwice(r) ==
    /\ IsExe /\ IsObject(r.name) /\ Library[r.name].bind = "weak"
    /\ \E m \in Aliases(r.name) : SymOf(r.name) < SymOf(m)

\* A shared library gives pointers to what others define its own address.
PointsOutside(r) ==
    /\ out = "dll" /\ r.type = "64" /\ ~IsHere(r.name)
    /\ Place(r.name) = 0 \/ Program[r.name].type = "object"

\* R_X86_64_64 takes the place of an entry that is not kept, with its r_offset,
\* and the reference at that place is overwritten.
Displaces(a, b) ==
    /\ out = "dll" /\ a.sec = b.sec /\ a.off < b.off /\ b.type = "64"
    /\ a.type # "64" /\ ~(a.type = "PC32" /\ to_dynsym[SymOf(a.name)] # 0)

Displaced(r) == \E q \in Range(refs) : Displaces(q, r) \/ Displaces(r, q)

\* The offsets of the entries of the PLT through which n is called.
PltOffsets(n) ==
    {k - 1 : k \in {k \in DOMAIN tables.plt :
        \E e \in Range(tables.relgot) : /\ e.type = "JUMP_SLOT" /\ e.off = tables.plt[k]
                                        /\ tables.dynsym[e.sym].name = n}}

\* The symbol of a function of the program which is called through the PLT
\* is exported with the offset of its entry, counted from the start of the
\* section of the function.
ExportedPlt(n) == {LoadBase + sh_addr[Program[n].sec] + k : k \in PltOffsets(n)}

NamesPlt(r) == /\ IsHere(r.name) /\ PltOffsets(r.name) # {}
               /\ r.type = "GOTPCREL" \/ (r.type = "PC32" /\ out = "dll")

\* An executable is not refused for a name that nobody defines when a library
\* leaves it undefined, too.
Accepted(r) == IsExe /\ r.name \in Callbacks /\ ~IsHere(r.name)

Broken(r) == HidesCopy(r) \/ CopiedTwice(r) \/ PointsOutside(r) \/ Displaced(r)
             \/ NamesPlt(r) \/ Accepted(r)

(***************************************************************************)
(* In a program that has been loaded, every reference leads to what its    *)
(* name means: the function or object of the program, or the one of the    *)
(* library that the library itself uses; to nothing only a weak name       *)
(* without a definition.  The exceptions are the ones named above.         *)
(***************************************************************************)
ReferencesExact == IsLoaded => \A r \in Range(refs) : Exact(r) \/ Broken(r)

(***************************************************************************)
(* The libraries find what they left undefined in the executable, where it *)
(* is.  The exception is a function that the program calls through the     *)
(* PLT: they may find the wrong address of ExportedPlt there.              *)
(***************************************************************************)
CallbacksExact ==
    IsLoaded /\ IsExe =>
        \A n \in Callbacks : SymOf(n) # 0 /\ IsHere(n) =>
            Lookup(n, TRUE) \in {Home(n)} \cup ExportedPlt(n)

(***************************************************************************)
(* Each word of the GOT after the first three belongs to one symbol, whose *)
(* got_offset it is; the relocation of the word names a dynamic symbol of  *)
(* that name, and an entry of the PLT jumps through the word of the symbol *)
(* whose dynamic symbol stands for the entry.                              *)
(***************************************************************************)
SlotsExact ==
    phase \notin {"compile", "done"} =>
    /\ \A g \in 3 .. Len(tables.got) - 1 :
        \E i \in DOMAIN syms : \A j \in DOMAIN syms : tables.got_offset[j] = g <=> i = j
    /\ IsDynamic => \A i \in DOMAIN syms : tables.got_offset[i] # 0 =>
        \E e \in Range(tables.relgot) :
            /\ e.off = tables.got_offset[i]
            /\ tables.dynsym[e.sym].name = syms[i].name
            /\ e.type = "JUMP_SLOT" =>
                \E k \in 2 .. Len(tables.plt) :
                    /\ tables.plt[k] = e.off
                    /\ phase \in {"bind", "got", "layout"} => tables.dynsym[e.sym].value = k - 1

(***************************************************************************)
(* The entries of a table that relocate_section keeps for the loader are   *)
(* as many as prepare_dynamic_rel has reserved for it.                     *)
(***************************************************************************)
EntriesCounted == phase = "load" => kept = reserved

(***************************************************************************)
(* An executable finds an object of a library where it has it copied ("If  *)
(* a symbol STT_OBJECT is found, we add it in the .bss section with a      *)
(* suitable relocation").                                                  *)
(***************************************************************************)
ObjectsExact ==
    IsLoaded /\ IsExe => \A r \in Range(refs) : IsObject(r.name) => Exact(r)
=============================================================================
