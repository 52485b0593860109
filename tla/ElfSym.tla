------------------------------- MODULE ElfSym -------------------------------
(***************************************************************************)
(* The table symtab_section of tccelf.c and the hash table over it, filled by the  *)
(* C units that are compiled and the object files that are loaded, until   *)
(* the table is sorted and written.  Every symbol has an index, the first  *)
(* is 1; 0 is the symbol of an empty name.                                 *)
(*                                                                         *)
(* A definition is a number (st_value); a section is text or data ("sec"), *)
(* SHN_UNDEF, SHN_COMMON or SHN_ABS.                                       *)
(***************************************************************************)
EXTENDS Integers, Sequences, FiniteSets

CONSTANTS
    Names, Hash,    \* elf_hash of the names
    Loadable,       \* the symbols of object files, without their values
    UnitNames,      \* the names that C units use
    Overlap,        \* units change a symbol that another file has defined
    MaxSyms,        \* bound: symbols
    MaxDefs         \* bound: definitions

ASSUME ElfSymAssumption ==
    /\ Hash \in [Names -> Nat]
    /\ Overlap \in BOOLEAN
    /\ Loadable \subseteq [name : Names, bind : {"local", "weak", "global"},
                           sec : {"undef", "sec", "common", "abs"}, vis : 0 .. 3]
    /\ \A l \in Loadable : l.bind = "local" => l.sec = "sec"
    /\ UnitNames \subseteq Names
    /\ MaxSyms \in Nat /\ MaxDefs \in Nat

VARIABLES
    syms,       \* the symbols: [name, bind, sec, vis, def]
    nbuckets, buckets, chain, nb_hashed,    \* the section .hash
    relocs,     \* what refers to symbols by index: [sym, name, local]
    unit,       \* the Sym of each name in the unit that is compiled
    twice,      \* the names for which "defined twice" was reported
    defs,       \* the number of definitions so far
    written     \* the table was sorted

table == <<syms, nbuckets, buckets, chain, nb_hashed>>
vars  == <<table, relocs, unit, twice, defs, written>>

Binds == {"local", "weak", "global"}
Secs  == {"undef", "sec", "common", "abs"}

Symbol == [name : Names, bind : Binds, sec : Secs, vis : 0 .. 3, def : 0 .. MaxDefs]

Sym(n, bind, sec, vis, def) ==
    [name |-> n, bind |-> bind, sec |-> sec, vis |-> vis, def |-> def]

-----------------------------------------------------------------------------
(***************************************************************************)
(* The table.  T is a record of its five parts.                            *)
(***************************************************************************)

Table == [syms |-> syms, nbuckets |-> nbuckets, buckets |-> buckets,
          chain |-> chain, nb_hashed |-> nb_hashed]

SetTable(T) ==
    /\ syms' = T.syms /\ nbuckets' = T.nbuckets /\ buckets' = T.buckets
    /\ chain' = T.chain /\ nb_hashed' = T.nb_hashed

Bucket(n, nb) == Hash[n] % nb

Greatest(S) == IF S = {} THEN 0 ELSE CHOOSE i \in S : \A j \in S : j <= i

\* Mutant: local symbols are hashed.
HashedBefore_Locals(ss, i, h, nb) ==
    {j \in DOMAIN ss : j < i /\ Bucket(ss[j].name, nb) = h}

\* The symbols before i that the bucket h holds.
HashedBefore(ss, i, h, nb) ==
    {j \in DOMAIN ss : j < i /\ ss[j].bind # "local" /\ Bucket(ss[j].name, nb) = h}

\* The heads of nb buckets of all symbols.
NewBuckets(T, nb) ==
    [h \in 0 .. nb - 1 |-> Greatest(HashedBefore(T.syms, Len(T.syms) + 1, h, nb))]

\* Every symbol is put before those of its bucket that precede it.
rebuild_hash(T, nb) ==
    [T EXCEPT
        !.nbuckets = nb,
        !.buckets  = NewBuckets(T, nb),
        !.chain    = [i \in DOMAIN T.syms |->
            IF T.syms[i].bind = "local" THEN 0
            ELSE Greatest(HashedBefore(T.syms, i, Bucket(T.syms[i].name, nb), nb))]]

\* The new symbol is the head of its bucket.
Hashed(T, s) ==
    LET h == Bucket(s.name, T.nbuckets)
    IN  [T EXCEPT !.syms = Append(@, s), !.chain = Append(@, T.buckets[h]),
                  !.buckets[h] = Len(T.syms) + 1, !.nb_hashed = @ + 1]

put_elf_sym(T, s) ==
    LET g == Hashed(T, s)
    IN  IF s.bind = "local"
        THEN [T EXCEPT !.syms = Append(@, s), !.chain = Append(@, 0)]
        ELSE IF g.nb_hashed > 2 * T.nbuckets THEN rebuild_hash(g, 2 * T.nbuckets)
        ELSE g

\* The index of the symbol n, 0 when there is none.
find_elf_sym(T, n) ==
    LET walk[i \in 0 .. Len(T.syms)] ==
            IF i = 0 THEN 0
            ELSE IF T.syms[i].name = n THEN i ELSE walk[T.chain[i]]
    IN  walk[T.buckets[Bucket(n, T.nbuckets)]]

-----------------------------------------------------------------------------
(***************************************************************************)
(* A symbol s of a name whose symbol is e already.                         *)
(***************************************************************************)

\* "propagate the most constraining visibility"
Narrowed(v, w) == IF v = 0 THEN w ELSE IF w = 0 THEN v ELSE IF v < w THEN v ELSE w

Hidden(v) == v \in {1, 2}

BothGlobal(e, s) == e.bind = "global" /\ s.bind = "global"

\* Mutant: a weak definition replaces a weak one.
Replaces_Weak(e, s) ==
    /\ s.sec # "undef"
    /\ \/ e.bind = "weak"
       \/ BothGlobal(e, s) /\ ~ Hidden(s.vis) /\ e.sec = "common" /\ s.sec # "abs"

\* A definition that replaces that of e.
Replaces(e, s) ==
    /\ s.sec # "undef"
    /\ \/ s.bind = "global" /\ e.bind = "weak"
       \/ BothGlobal(e, s) /\ ~ Hidden(s.vis) /\ e.sec = "common" /\ s.sec # "abs"

\* Both claim the name.
Clash(e, s) ==
    /\ s.sec # "undef" /\ BothGlobal(e, s) /\ ~ Hidden(s.vis)
    /\ ~ Replaces(e, s)

\* Mutant: a symbol that is patched gets the visibility of s.
Merged_NewVisibility(e, s) ==
    IF e.sec = "undef" \/ Replaces(e, s) THEN s
    ELSE [e EXCEPT !.vis = Narrowed(@, s.vis)]

\* The symbol e after s.
Merged(e, s) ==
    IF e.sec = "undef" THEN s
    ELSE LET vis == Narrowed(e.vis, s.vis)
         IN  IF Replaces(e, s) THEN [s EXCEPT !.vis = vis] ELSE [e EXCEPT !.vis = vis]

\* What add_elf_sym does to the table; .index is the symbol it returns.
Added(T, s) ==
    LET i == find_elf_sym(T, s.name)
    IN  IF s.bind = "local" \/ i = 0
        THEN [T |-> put_elf_sym(T, s), index |-> Len(T.syms) + 1, twice |-> {}]
        ELSE [T |-> [T EXCEPT !.syms[i] = Merged(@, s)], index |-> i,
              twice |-> IF T.syms[i].sec # "undef" /\ Clash(T.syms[i], s)
                        THEN {s.name} ELSE {}]

\* The action; a = Added(Table, s).  The caller puts the index a.index into
\* relocations.
add_elf_sym(a, s) ==
    /\ Len(a.T.syms) <= MaxSyms
    /\ SetTable(a.T)
    /\ twice' = twice \cup a.twice
    /\ relocs' = relocs \cup
          {[sym |-> a.index, name |-> s.name, local |-> s.bind = "local"]}

-----------------------------------------------------------------------------
(***************************************************************************)
(* The files.  The Sym of a name has c, its index here, and VT_WEAK; def   *)
(* says that the unit has defined it.                                      *)
(***************************************************************************)

NoSym == [c |-> 0, weak |-> FALSE, def |-> FALSE]

\* new_symtab
Init ==
    /\ syms = <<>> /\ nbuckets = 1 /\ buckets = [h \in {0} |-> 0]
    /\ chain = <<>> /\ nb_hashed = 0
    /\ relocs = {} /\ twice = {} /\ defs = 0
    /\ unit = [n \in Names |-> NoSym]
    /\ written = FALSE

Working == ~ written

\* tcc_load_object_file: a symbol of the file; l.bind is local for a section
\* or static function, which is not a definition of the name.
Load(l) ==
    LET defines == l.sec # "undef" /\ l.bind # "local"
        d == IF defines THEN defs + 1 ELSE defs
        s == Sym(l.name, l.bind, l.sec, l.vis, IF defines THEN d ELSE 0)
    IN  /\ Working /\ d <= MaxDefs
        /\ add_elf_sym(Added(Table, s), s)
        /\ defs' = d
        /\ UNCHANGED <<unit, written>>

Bind(weak) == IF weak THEN "weak" ELSE "global"

\* Another file defined the symbol of n, which the unit has referred to.
Foreign(n) == unit[n].c # 0 /\ ~ unit[n].def /\ syms[unit[n].c].sec # "undef"

\* A prototype of n with the attribute weak: weaken_symbol.
Weaken(n) ==
    /\ Working
    /\ Foreign(n) => Overlap
    /\ unit' = [unit EXCEPT ![n].weak = TRUE]
    /\ IF unit[n].c = 0 THEN UNCHANGED syms
       ELSE syms' = [syms EXCEPT ![unit[n].c].bind = "weak"]
    /\ UNCHANGED <<nbuckets, buckets, chain, nb_hashed, relocs, twice, defs, written>>

\* greloc, from the code of the unit.
Refer(n) ==
    LET s == Sym(n, Bind(unit[n].weak), "undef", 0, 0)
        a == Added(Table, s)
    IN  /\ Working /\ unit[n].c = 0
        /\ add_elf_sym(a, s)
        /\ unit' = [unit EXCEPT ![n].c = a.index]
        /\ UNCHANGED <<defs, written>>

\* put_extern_sym for a definition of n: a symbol that the unit knows is
\* patched without a question.
put_extern_sym(n, weak, sec) ==
    LET c == unit[n].c
        s == Sym(n, Bind(weak), sec, 0, defs + 1)
        a == Added(Table, s)
    IN  IF c = 0
        THEN /\ add_elf_sym(a, s)
             /\ unit' = [unit EXCEPT ![n] = [c |-> a.index, weak |-> weak, def |-> TRUE]]
        ELSE /\ syms' = [syms EXCEPT ![c].sec = sec, ![c].def = defs + 1,
                                     ![c].bind = IF weak THEN "weak" ELSE @]
             /\ unit' = [unit EXCEPT ![n].def = TRUE, ![n].weak = weak]
             /\ UNCHANGED <<nbuckets, buckets, chain, nb_hashed, relocs, twice>>

\* gen_function: the definition of the function n.
Define(n, weak) ==
    /\ Working /\ ~ unit[n].def /\ defs < MaxDefs
    /\ Foreign(n) => Overlap
    /\ put_extern_sym(n, weak, "sec")
    /\ defs' = defs + 1
    /\ UNCHANGED written

\* decl_initializer_alloc with -fcommon: an undefined symbol is made common,
\* whatever it is.
Common(n) ==
    LET s == Sym(n, Bind(unit[n].weak), "undef", 0, 0)
        i == IF unit[n].c = 0 THEN Added(Table, s).index ELSE unit[n].c
        T == IF unit[n].c = 0 THEN Added(Table, s).T ELSE Table
    IN  /\ Working /\ ~ unit[n].def /\ defs < MaxDefs
        /\ Len(T.syms) <= MaxSyms
        /\ T.syms[i].sec # "undef" => Overlap
        /\ SetTable([T EXCEPT !.syms[i].sec = "common", !.syms[i].def = defs + 1])
        /\ unit' = [unit EXCEPT ![n].c = i, ![n].def = TRUE]
        /\ defs' = defs + 1
        /\ UNCHANGED <<relocs, twice, written>>

\* The symbols of the unit end with it.
NextUnit ==
    /\ Working
    /\ unit' = [n \in Names |-> NoSym]
    /\ UNCHANGED <<table, relocs, twice, defs, written>>

Locals(ss)   == {i \in DOMAIN ss : ss[i].bind = "local"}
UpTo(S, i)   == Cardinality({j \in S : j <= i})

\* Mutant: every symbol keeps its place.
NewIndex_Kept(ss, i) == i

\* old_to_new_syms: the local symbols first.
NewIndex(ss, i) ==
    IF i \in Locals(ss) THEN UpTo(Locals(ss), i)
    ELSE Cardinality(Locals(ss)) + UpTo(DOMAIN ss \ Locals(ss), i)

\* Mutant: relocations are not changed with the symbols.
Relocated_Not(ss, r) == r

Relocated(ss, r) == [r EXCEPT !.sym = NewIndex(ss, r.sym)]

\* sort_syms, when the file is written, after the last unit.
Write ==
    /\ Working /\ \A n \in Names : unit[n] = NoSym
    /\ syms' = [k \in DOMAIN syms |->
                   syms[CHOOSE i \in DOMAIN syms : NewIndex(syms, i) = k]]
    /\ relocs' = {Relocated(syms, r) : r \in relocs}
    /\ written' = TRUE
    /\ UNCHANGED <<nbuckets, buckets, chain, nb_hashed, unit, twice, defs>>

Written == written /\ UNCHANGED vars

Next ==
    \/ \E l \in Loadable : Load(l)
    \/ \E n \in UnitNames : Weaken(n) \/ Refer(n) \/ Common(n)
    \/ \E n \in UnitNames, weak \in BOOLEAN : Define(n, weak)
    \/ NextUnit
    \/ Write
    \/ Written

Spec == Init /\ [][Next]_vars

-----------------------------------------------------------------------------
(***************************************************************************)
(* Properties.                                                             *)
(***************************************************************************)

TypeOK ==
    /\ syms \in Seq(Symbol) /\ Len(syms) <= MaxSyms
    /\ nbuckets \in Nat \ {0}
    /\ buckets \in [0 .. nbuckets - 1 -> 0 .. Len(syms)]
    /\ chain \in Seq(0 .. Len(syms)) /\ Len(chain) = Len(syms)
    /\ nb_hashed \in 0 .. Len(syms)
    /\ relocs \subseteq [sym : 1 .. Len(syms), name : Names, local : BOOLEAN]
    /\ unit \in [Names -> [c : 0 .. Len(syms), weak : BOOLEAN, def : BOOLEAN]]
    /\ twice \subseteq Names /\ defs \in 0 .. MaxDefs /\ written \in BOOLEAN

Globals(n) == {i \in DOMAIN syms : syms[i].name = n /\ syms[i].bind # "local"}

\* A lookup finds the symbol of a name that is not local, of which there is
\* at most one, however many local ones have the name and however the hash
\* table grew.
HashExact ==
    ~ written => \A n \in Names :
        Globals(n) = IF find_elf_sym(Table, n) = 0 THEN {} ELSE {find_elf_sym(Table, n)}

\* A relocation is to the symbol it was made for, also when symbols were
\* merged and sorted since.
RelocsExact ==
    \A r \in relocs :
        /\ syms[r.sym].name = r.name
        /\ (syms[r.sym].bind = "local") = r.local

\* "the local symbols must appear below the global and weak ones"
LocalsFirst ==
    written => \A i, j \in DOMAIN syms :
        i < j /\ syms[j].bind = "local" => syms[i].bind = "local"

\* The visibility of a name that is defined never becomes less constraining.
VisibilityNarrows ==
    [][~ written' => \A n \in Names : \A i \in Globals(n) :
          syms[i].sec # "undef" => syms'[i].vis = Narrowed(syms[i].vis, syms'[i].vis)]_vars

Kind(s) ==
    IF s.sec = "undef" THEN "undef" ELSE IF s.bind = "weak" THEN "weak"
    ELSE IF s.sec = "common" THEN "common" ELSE "strong"

Kept(n) ==
    IF Globals(n) = {} THEN [kind |-> "none", def |-> 0]
    ELSE LET s == syms[CHOOSE i \in Globals(n) : TRUE] IN [kind |-> Kind(s), def |-> s.def]

Abs == INSTANCE Resolution WITH kept <- [n \in Names |-> Kept(n)]

\* The definition that is used yields to a stronger one only.
ImplementsResolution == Abs!Spec

\* add_elf_sym: "check if it is already defined", else "'%s' defined twice".
\* A definition that is not weak stays the one that is used, or its name is
\* reported.
KeptOrReported ==
    [][\A n \in Names :
          Kept(n).kind = "strong" /\ Kept(n)'.def # Kept(n).def => n \in twice']_vars
=============================================================================
