--------------------------- MODULE ElfLink_proofs ---------------------------
(***************************************************************************)
(* Proofs about ElfLink.                                                   *)
(***************************************************************************)
EXTENDS ElfLink, FiniteSetTheorems, WellFoundedInduction, TLAPS

-----------------------------------------------------------------------------
(* Sequences, and functions that are defined by recursion                  *)

LEMMA Appended ==
    ASSUME NEW S, NEW q \in Seq(S), NEW e \in S
    PROVE  /\ Len(q) \in Nat /\ DOMAIN q = 1 .. Len(q)
           /\ Append(q, e) \in Seq(S) /\ Len(Append(q, e)) = Len(q) + 1
           /\ DOMAIN Append(q, e) = 1 .. Len(q) + 1
           /\ Append(q, e)[Len(q) + 1] = e
           /\ \A k \in 1 .. Len(q) : Append(q, e)[k] = q[k]
  OBVIOUS

LEMMA NoLeast ==
    ASSUME NEW A \in SUBSET Nat, \A n \in A : \E m \in A : m < n
    PROVE  A = {}
<1> SUFFICES ASSUME A # {} PROVE FALSE
  OBVIOUS
<1>1. PICK n \in A : \A m \in A : ~ (<<m, n>> \in OpToRel(<, Nat))
  BY NatLessThanWellFounded, WFMin
<1>2. PICK m \in A : m < n
  OBVIOUS
<1>3. <<m, n>> \in OpToRel(<, Nat)
  BY <1>2 DEF OpToRel
<1> QED
  BY <1>1, <1>3

\* A property that every step keeps.
LEMMA FoldKeeps ==
    ASSUME NEW S, NEW n \in Nat, NEW F,
           F[0] \in S, \A k \in 1 .. n : F[k - 1] \in S => F[k] \in S
    PROVE  \A k \in 0 .. n : F[k] \in S
<1> DEFINE A == {k \in 0 .. n : F[k] \notin S}
<1>1. A \in SUBSET Nat /\ \A k : k \in A <=> k \in 0 .. n /\ F[k] \notin S
  OBVIOUS
<1> HIDE DEF A
<1>2. ASSUME NEW k \in A PROVE \E j \in A : j < k
  <2>1. k \in 1 .. n /\ F[k] \notin S
    BY <1>1
  <2>2. k - 1 \in 0 .. n /\ k - 1 < k
    BY <2>1
  <2> QED
    BY <1>1, <2>1, <2>2
<1>3. A = {}
  BY <1>1, <1>2, NoLeast
<1> QED
  BY <1>1, <1>3

\* F is made by g, value by value.
MadeBy(F, S, b, n, g) == F \in [0 .. n -> S] /\ F[0] = b /\ \A k \in 1 .. n : F[k] = g[k][F[k - 1]]

\* A function that is defined by recursion exists when each of its values is
\* made from the one before it, inside of a set.
LEMMA FoldExists ==
    ASSUME NEW S, NEW b \in S, NEW n \in Nat, NEW g \in [1 .. n -> [S -> S]]
    PROVE  \E F : MadeBy(F, S, b, n, g)
<1> DEFINE Is(F, m) == F \in [0 .. m -> S] /\ F[0] = b /\ \A k \in 1 .. m : F[k] = g[k][F[k - 1]]
           A == {m \in 0 .. n : ~ \E F : Is(F, m)}
<1>1. A \in SUBSET Nat /\ \A m : m \in A <=> m \in 0 .. n /\ ~ \E F : Is(F, m)
  OBVIOUS
<1>2. \E F : Is(F, 0)
  <2>1. PICK F : F = [k \in 0 .. 0 |-> b]
    OBVIOUS
  <2> QED
    BY <2>1
<1>3. ASSUME NEW m \in 0 .. n, m + 1 <= n, NEW F, Is(F, m)
      PROVE  \E G : Is(G, m + 1)
  <2>1. PICK G : G = [k \in 0 .. m + 1 |-> IF k = m + 1 THEN g[m + 1][F[m]] ELSE F[k]]
    OBVIOUS
  <2>2. m + 1 \in 1 .. n /\ F[m] \in S
    BY <1>3
  <2>3. g[m + 1][F[m]] \in S
    BY <2>2
  <2>4. \A k \in 0 .. m : G[k] = F[k] /\ G[k] \in S
    BY <1>3, <2>1
  <2>5. G[m + 1] = g[m + 1][F[m]]
    BY <2>1
  <2>6. G \in [0 .. m + 1 -> S]
    BY <2>1, <2>3, <1>3
  <2>7. ASSUME NEW k \in 1 .. m + 1 PROVE G[k] = g[k][G[k - 1]]
    <3>1. CASE k = m + 1
      BY <2>4, <2>5, <3>1
    <3>2. CASE k \in 1 .. m
      <4>1. k - 1 \in 0 .. m /\ k \in 0 .. m
        BY <3>2
      <4> QED
        BY <1>3, <2>4, <3>2, <4>1
    <3> QED
      BY <3>1, <3>2
  <2>8. G[0] = b
    BY <1>3, <2>4
  <2> QED
    BY <2>6, <2>7, <2>8
<1> HIDE DEF A, Is
<1>4. ASSUME NEW m \in A PROVE \E l \in A : l < m
  <2>1. m \in 1 .. n /\ ~ \E F : Is(F, m)
    BY <1>1, <1>2
  <2>2. PICK l \in 0 .. n : l + 1 = m /\ l + 1 <= n
    BY <2>1
  <2>3. ~ \E F : Is(F, l)
    BY <1>3, <2>1, <2>2
  <2> QED
    BY <1>1, <2>2, <2>3
<1>5. A = {}
  BY <1>1, <1>4, NoLeast
<1>6. n \in 0 .. n
  OBVIOUS
<1>7. \E F : Is(F, n)
  BY <1>1, <1>5, <1>6
<1> QED
  BY <1>7 DEF Is, MadeBy

LEMMA MaxIs ==
    ASSUME NEW I \in SUBSET Nat, I # {}, NEW n \in Nat, \A i \in I : i <= n
    PROVE  Max(I) \in I /\ \A i \in I : i <= Max(I)
<1>1. \E m \in I : \A i \in I : i <= m
  <2> DEFINE A == {n - i : i \in I}
  <2>1. A \in SUBSET Nat
    OBVIOUS
  <2>2. A # {}
    OBVIOUS
  <2> HIDE DEF A
  <2>3. PICK a \in A : \A c \in A : ~ (c < a)
    BY <2>1, <2>2, NoLeast
  <2>4. PICK i \in I : a = n - i
    BY DEF A
  <2>5. ASSUME NEW j \in I PROVE j <= i
    <3>1. n - j \in A
      BY DEF A
    <3> QED
      BY <2>3, <2>4, <3>1
  <2> QED
    BY <2>5
<1> QED
  BY <1>1 DEF Max

LEMMA MinIs ==
    ASSUME NEW I \in SUBSET Nat, I # {}
    PROVE  Min(I) \in I /\ \A i \in I : Min(I) <= i
<1>1. PICK m \in I : \A i \in I : ~ (i < m)
  BY NoLeast
<1>2. \A i \in I : m <= i
  BY <1>1
<1> QED
  BY <1>2 DEF Min

\* The symbol of a name, or none.
LEMMA SymOfIs ==
    ASSUME NEW n, NEW m \in Nat, DOMAIN syms = 1 .. m, Len(syms) = m
    PROVE  \/ SymOf(n) = 0 /\ \A i \in 1 .. m : syms[i].name # n
           \/ SymOf(n) \in 1 .. m /\ syms[SymOf(n)].name = n
<1> DEFINE I == {i \in 1 .. m : syms[i].name = n}
<1>1. SymOf(n) = IF I # {} THEN Min(I) ELSE 0
  BY DEF SymOf, SelectInSeq
<1>2. I \in SUBSET Nat
  OBVIOUS
<1>3. I # {} => Min(I) \in I
  BY <1>2, MinIs
<1> QED
  BY <1>1, <1>3

-----------------------------------------------------------------------------
(* The tables                                                              *)

Types   == {"func", "object", "notype"}
Binds   == {"local", "weak", "global"}
RefTypes == {"64", "PC32", "PLT32", "GOTPCREL"}

Places   == {"undef", "text", "data"}
DynPlaces == Places \cup {"bss"}

DynSyms == [name : Names, bind : Binds, sec : DynPlaces, value : Nat]
Slots   == [off : Nat, type : {"JUMP_SLOT", "GLOB_DAT"}, sym : Nat]

\* The tables of a program of m symbols.
TableSet(m) ==
    [dynsym : Seq(DynSyms), got : Seq(Int), relgot : Seq(Slots), plt : Seq(Nat),
     bss : Nat, relbss : Seq([off : Nat, sym : Nat]), got_offset : [1 .. m -> Nat]]

\* The k-th relocation of the GOT names a symbol, and is for a word that a
\* symbol has; one of the PLT is for the word an entry of it jumps through,
\* and its symbol has the place of that entry.
SlotOK(T, k) ==
    /\ T.relgot[k].sym \in 1 .. Len(T.dynsym)
    /\ T.relgot[k].type = "JUMP_SLOT" =>
          \E p \in 2 .. Len(T.plt) : /\ T.plt[p] = T.relgot[k].off
                                    /\ T.dynsym[T.relgot[k].sym].value = p - 1

\* The i-th symbol has a relocation for its word of the GOT.
HasSlot(T, i) ==
    \E k \in 1 .. Len(T.relgot) :
        /\ T.relgot[k].off = T.got_offset[i]
        /\ T.dynsym[T.relgot[k].sym].name = syms[i].name

\* Each word of the GOT, after the three of the loader, is for one symbol.
GotOK(T, m) ==
    /\ Len(T.got) >= 3
    /\ \A i \in 1 .. m : T.got_offset[i] # 0 => T.got_offset[i] \in 3 .. Len(T.got) - 1
    /\ \A i, j \in 1 .. m : T.got_offset[i] # 0 /\ T.got_offset[i] = T.got_offset[j] => i = j
    /\ \A g \in 3 .. Len(T.got) - 1 : \E i \in 1 .. m : T.got_offset[i] = g

TabOK(T, m) ==
    /\ T \in TableSet(m)
    /\ GotOK(T, m)
    /\ \A k \in 1 .. Len(T.relgot) : SlotOK(T, k)
    /\ IsDynamic => \A i \in 1 .. m : T.got_offset[i] # 0 => HasSlot(T, i)

SymSet == [name : Names, type : Types, bind : Binds, sec : Places, value : Nat]

\* One symbol of each name.
SymsOK(m) ==
    /\ syms \in Seq(SymSet) /\ Len(syms) = m
    /\ \A i, j \in 1 .. m : syms[i].name = syms[j].name => i = j
    /\ \A i \in 1 .. m : LET p == Program[syms[i].name] IN
          syms[i].type = p.type /\ syms[i].bind = p.bind /\ syms[i].sec = p.sec

\* U is T with d as another dynamic symbol.
WithSym(m, T, d, U) ==
    /\ U \in TableSet(m)
    /\ U.got = T.got /\ U.relgot = T.relgot /\ U.plt = T.plt /\ U.bss = T.bss
    /\ U.relbss = T.relbss /\ U.got_offset = T.got_offset
    /\ Len(T.dynsym) \in Nat /\ Len(U.dynsym) = Len(T.dynsym) + 1
    /\ U.dynsym = Append(T.dynsym, d) /\ U.dynsym[Len(T.dynsym) + 1] = d
    /\ \A k \in 1 .. Len(T.dynsym) : U.dynsym[k] = T.dynsym[k]

LEMMA DynSymIs ==
    ASSUME NEW m \in Nat, NEW T \in TableSet(m),
           NEW n \in Names, NEW bind \in Binds, NEW sec \in DynPlaces,
           NEW value \in Nat, NEW U, U = DynSym(T, n, bind, sec, value),
           NEW d, d = [name |-> n, bind |-> bind, sec |-> sec, value |-> value]
    PROVE  WithSym(m, T, d, U)
<1>1. d = [name |-> n, bind |-> bind, sec |-> sec, value |-> value] /\ d \in DynSyms
  BY DEF DynSyms
<1>2. PICK q : q = Append(T.dynsym, d) /\ T.dynsym \in Seq(DynSyms)
  BY DEF TableSet
<1>3. /\ q \in Seq(DynSyms) /\ Len(T.dynsym) \in Nat /\ Len(q) = Len(T.dynsym) + 1
      /\ q[Len(T.dynsym) + 1] = d /\ \A k \in 1 .. Len(T.dynsym) : q[k] = T.dynsym[k]
  BY <1>1, <1>2, Appended
<1>4. U = [T EXCEPT !.dynsym = q]
  BY <1>1, <1>2 DEF DynSym
<1>5. /\ U \in TableSet(m) /\ U.dynsym = q
      /\ U.got = T.got /\ U.relgot = T.relgot /\ U.plt = T.plt /\ U.bss = T.bss
      /\ U.relbss = T.relbss /\ U.got_offset = T.got_offset
  BY <1>3, <1>4 DEF TableSet
<1> QED
  BY <1>2, <1>3, <1>5 DEF WithSym

\* T and U have the same GOT, PLT and relocations of the GOT, and U may have
\* more dynamic symbols.
Extends(T, U) ==
    /\ U.got = T.got /\ U.relgot = T.relgot /\ U.plt = T.plt /\ U.got_offset = T.got_offset
    /\ Len(T.dynsym) <= Len(U.dynsym)
    /\ \A k \in 1 .. Len(T.dynsym) : U.dynsym[k] = T.dynsym[k]

LEMMA ExtendedOK ==
    ASSUME NEW m \in Nat, NEW T, TabOK(T, m), NEW U \in TableSet(m), Extends(T, U)
    PROVE  TabOK(U, m)
<1>1. /\ Len(T.dynsym) \in Nat /\ Len(U.dynsym) \in Nat /\ Len(T.relgot) \in Nat
      /\ T.relgot \in Seq(Slots)
  BY DEF TabOK, TableSet
<1>2. GotOK(U, m)
  BY SMTT(30) DEF TabOK, GotOK, Extends
<1>3. ASSUME NEW k \in 1 .. Len(U.relgot)
      PROVE  SlotOK(U, k) /\ U.dynsym[U.relgot[k].sym] = T.dynsym[T.relgot[k].sym]
  <2>1. k \in 1 .. Len(T.relgot) /\ SlotOK(T, k)
    BY <1>3 DEF TabOK, Extends
  <2>2. U.dynsym[U.relgot[k].sym] = T.dynsym[T.relgot[k].sym]
    BY <2>1 DEF SlotOK, Extends
  <2>3. U.relgot[k].sym \in 1 .. Len(U.dynsym)
    BY <1>1, <2>1 DEF SlotOK, Extends
  <2>4. U.relgot = T.relgot /\ U.plt = T.plt
    BY DEF Extends
  <2> QED
    BY <2>1, <2>2, <2>3, <2>4 DEF SlotOK
<1>4. ASSUME IsDynamic, NEW i \in 1 .. m, U.got_offset[i] # 0
      PROVE  HasSlot(U, i)
  <2>1. HasSlot(T, i)
    BY <1>4 DEF TabOK, Extends
  <2> QED
    BY <1>3, <2>1 DEF HasSlot, Extends
<1> QED
  BY <1>2, <1>3, <1>4 DEF TabOK
LEMMA SymIs ==
    ASSUME NEW m \in Nat, SymsOK(m), NEW i \in 1 .. m
    PROVE  /\ syms[i] \in SymSet /\ DOMAIN syms = 1 .. m
           /\ syms[i].name \in Names /\ syms[i].type \in Types /\ syms[i].bind \in Binds
           /\ syms[i].sec \in Places /\ syms[i].sec \in DynPlaces /\ syms[i].value \in Nat
<1>1. syms \in Seq(SymSet) /\ Len(syms) = m
  BY DEF SymsOK
<1>2. syms[i] \in SymSet /\ DOMAIN syms = 1 .. m
  BY <1>1
<1> QED
  BY <1>2 DEF SymSet, DynPlaces

\* The PLT gets an entry.
LEMMA PltIs ==
    ASSUME NEW plt \in Seq(Nat), NEW slot \in Nat, NEW q, q = PltWith(plt, slot)
    PROVE  /\ q \in Seq(Nat) /\ Len(q) \in Nat /\ Len(q) >= 2 /\ q[Len(q)] = slot
           /\ Len(plt) <= Len(q) /\ \A k \in 2 .. Len(plt) : q[k] = plt[k]
<1>1. CASE plt = <<>>
  <2>1. q = Append(<<0>>, slot) /\ <<0>> \in Seq(Nat) /\ Len(<<0>>) = 1
    BY <1>1 DEF PltWith
  <2>2. q \in Seq(Nat) /\ Len(q) = 2 /\ q[2] = slot
    BY <2>1
  <2>3. Len(plt) = 0
    BY <1>1
  <2> QED
    BY <2>2, <2>3
<1>2. CASE plt # <<>>
  <2>1. q = Append(plt, slot) /\ Len(plt) \in Nat /\ Len(plt) >= 1
    BY <1>2 DEF PltWith
  <2> QED
    BY <2>1, Appended
<1> QED
  BY <1>1, <1>2

\* What becomes of the PLT, and the value of the dynamic symbol.
PltFor(T, type)       == IF type = "JUMP_SLOT" THEN PltWith(T.plt, Len(T.got)) ELSE T.plt
ValueFor(T, type, i)  == IF type = "JUMP_SLOT" THEN Len(PltFor(T, type)) - 1 ELSE syms[i].value

\* The symbol gets the next word of the GOT and, in files that are loaded, an entry
\* of the PLT, a dynamic symbol and a relocation.
IsPut(m, T, i, type, bind, U, slot, plt, val) ==
    /\ U \in TableSet(m)
    /\ U.got = Append(T.got, 0) /\ slot \in Nat /\ val \in Nat
    /\ U.got_offset = [T.got_offset EXCEPT ![i] = slot]
    /\ IsDynamic =>
         /\ U.plt = plt
         /\ U.dynsym = Append(T.dynsym, [name |-> syms[i].name, bind |-> bind,
                                        sec |-> syms[i].sec, value |-> val])
         /\ U.relgot = Append(T.relgot, [off |-> slot, type |-> type,
                                        sym |-> Len(T.dynsym) + 1])
    /\ ~ IsDynamic => U.plt = T.plt /\ U.dynsym = T.dynsym /\ U.relgot = T.relgot

\* In plt the entries of T.plt stay, and a jump through slot has the place val.
Grown(T, plt, slot, type, val) ==
    /\ \A p \in 2 .. Len(T.plt) : p \in 2 .. Len(plt) /\ plt[p] = T.plt[p]
    /\ type = "JUMP_SLOT" => \E u \in 2 .. Len(plt) : plt[u] = slot /\ val = u - 1

LEMMA PltGrown ==
    ASSUME NEW m \in Nat, NEW T \in TableSet(m), NEW type, NEW i
    PROVE  Grown(T, PltFor(T, type), Len(T.got), type, ValueFor(T, type, i))
<1>1. CASE type = "JUMP_SLOT"
  <2>1. PICK tp \in Seq(Nat), slot \in Nat : tp = T.plt /\ slot = Len(T.got)
    BY DEF TableSet
  <2>2. PICK q : q = PltWith(tp, slot)
    OBVIOUS
  <2>3. PltFor(T, type) = q /\ ValueFor(T, type, i) = Len(q) - 1
    BY <1>1, <2>1, <2>2 DEF PltFor, ValueFor
  <2>4. /\ Len(q) \in Nat /\ Len(q) >= 2 /\ q[Len(q)] = slot
        /\ Len(tp) <= Len(q) /\ \A k \in 2 .. Len(tp) : q[k] = tp[k]
    BY <2>2, PltIs
  <2>5. \A k \in 2 .. Len(tp) : k \in 2 .. Len(q)
    BY <2>4
  <2>6. Len(q) \in 2 .. Len(q)
    BY <2>4
  <2>7. Grown(T, q, slot, type, Len(q) - 1)
    BY <2>1, <2>4, <2>5, <2>6 DEF Grown
  <2> QED
    BY <2>1, <2>3, <2>7
<1>2. CASE type # "JUMP_SLOT"
  <2>1. PltFor(T, type) = T.plt
    BY <1>2 DEF PltFor
  <2> QED
    BY <1>2, <2>1 DEF Grown
<1> QED
  BY <1>1, <1>2

\* put_got_entry for a symbol that has no entry.
LEMMA PutIs ==
    ASSUME NEW m \in Nat, SymsOK(m), NEW T \in TableSet(m), NEW i \in 1 .. m,
           NEW type \in {"JUMP_SLOT", "GLOB_DAT"}, NEW bind \in Binds,
           ~ HasEntry(T, i), NEW U, U = put_got_entry(T, type, bind, i),
           NEW slot, slot = Len(T.got), NEW plt, plt = PltFor(T, type),
           NEW val, val = ValueFor(T, type, i)
    PROVE  IsPut(m, T, i, type, bind, U, slot, plt, val)
<1>1. /\ T.got \in Seq(Int) /\ T.plt \in Seq(Nat) /\ T.relgot \in Seq(Slots)
      /\ T.dynsym \in Seq(DynSyms) /\ T.got_offset \in [1 .. m -> Nat]
  BY DEF TableSet
<1>2. slot \in Nat /\ Append(T.got, 0) \in Seq(Int) /\ Len(T.dynsym) \in Nat
  BY <1>1
<1>3. plt \in Seq(Nat) /\ val \in Nat
  <2> PICK tp \in Seq(Nat), tv \in Nat : tp = T.plt /\ tv = syms[i].value
    BY <1>1, SymIs
  <2>1. CASE type = "JUMP_SLOT"
    <3>1. plt = PltWith(tp, slot)
      BY <2>1 DEF PltFor
    <3>2. plt \in Seq(Nat) /\ Len(plt) \in Nat /\ Len(plt) >= 2
      BY <1>2, <3>1, PltIs
    <3>3. val = Len(plt) - 1
      BY <2>1 DEF ValueFor
    <3> QED
      BY <3>2, <3>3
  <2>2. CASE type # "JUMP_SLOT"
    BY <2>2 DEF PltFor, ValueFor
  <2> QED
    BY <2>1, <2>2
<1>4. PICK D : D = DynSym(T, syms[i].name, bind, syms[i].sec, val)
  OBVIOUS
<1> PICK d : d = [name |-> syms[i].name, bind |-> bind, sec |-> syms[i].sec, value |-> val]
  OBVIOUS
<1>5. WithSym(m, T, d, D)
  <2> PICK n \in Names, sec \in DynPlaces : n = syms[i].name /\ sec = syms[i].sec
    BY SymIs
  <2>1. /\ D = DynSym(T, n, bind, sec, val) /\ val \in Nat
        /\ d = [name |-> n, bind |-> bind, sec |-> sec, value |-> val]
    BY <1>3, <1>4
  <2> QED
    BY <2>1, DynSymIs
<1> PICK e : e = [off |-> slot, type |-> type, sym |-> Len(T.dynsym) + 1]
  OBVIOUS
<1>6. e \in Slots /\ Append(T.relgot, e) \in Seq(Slots)
  BY <1>1, <1>2 DEF Slots
<1> PICK E : E = [D EXCEPT !.plt = plt, !.relgot = Append(@, e)]
  OBVIOUS
<1>7. /\ E \in TableSet(m) /\ E.got = T.got /\ E.got_offset = T.got_offset /\ E.plt = plt
      /\ E.relgot = Append(T.relgot, e) /\ E.dynsym = D.dynsym
  BY <1>3, <1>5, <1>6 DEF TableSet, WithSym
<1>8. U = [IF IsDynamic THEN E ELSE T EXCEPT !.got_offset[i] = slot, !.got = Append(@, 0)]
  BY <1>4 DEF put_got_entry, PltFor, ValueFor
<1>9. [T.got_offset EXCEPT ![i] = slot] \in [1 .. m -> Nat]
  BY <1>1, <1>2
<1>10. CASE IsDynamic
  <2> PICK g, q : g = [T.got_offset EXCEPT ![i] = slot] /\ q = Append(T.got, 0)
    OBVIOUS
  <2>0. U = [E EXCEPT !.got_offset[i] = slot, !.got = Append(@, 0)]
    BY <1>8, <1>10
  <2>1. U = [E EXCEPT !.got_offset = g, !.got = q]
    BY <1>7, <2>0 DEF TableSet
  <2>2. /\ U \in TableSet(m) /\ U.got = Append(E.got, 0)
        /\ U.got_offset = [E.got_offset EXCEPT ![i] = slot]
        /\ U.plt = E.plt /\ U.dynsym = E.dynsym /\ U.relgot = E.relgot
    <3>1. g \in [1 .. m -> Nat] /\ q \in Seq(Int)
      BY <1>2, <1>9
    <3>2. U \in TableSet(m) /\ U.got = q /\ U.got_offset = g
          /\ U.plt = E.plt /\ U.dynsym = E.dynsym /\ U.relgot = E.relgot
      <4> HIDE <1>10
      <4>1. E \in TableSet(m)
        BY <1>7
      <4> QED
        BY <2>1, <3>1, <4>1 DEF TableSet
    <3> QED
      BY <1>7, <3>2
  <2> QED
    BY <1>2, <1>3, <1>5, <1>7, <1>10, <2>2 DEF WithSym, IsPut
<1>11. CASE ~ IsDynamic
  <2> PICK g, q : g = [T.got_offset EXCEPT ![i] = slot] /\ q = Append(T.got, 0)
    OBVIOUS
  <2>0. U = [T EXCEPT !.got_offset[i] = slot, !.got = Append(@, 0)]
    BY <1>8, <1>11
  <2>1. U = [T EXCEPT !.got_offset = g, !.got = q]
    BY <2>0 DEF TableSet
  <2>2. /\ U \in TableSet(m) /\ U.got = Append(T.got, 0)
        /\ U.got_offset = [T.got_offset EXCEPT ![i] = slot]
        /\ U.plt = T.plt /\ U.dynsym = T.dynsym /\ U.relgot = T.relgot
    BY <1>2, <1>9, <2>1 DEF TableSet
  <2> QED
    BY <1>2, <1>3, <1>11, <2>2 DEF IsPut
<1> QED
  BY <1>10, <1>11

\* A symbol that has no entry gets the next word of the GOT.
LEMMA GotGrows ==
    ASSUME NEW m \in Nat, NEW T \in TableSet(m), GotOK(T, m), NEW i \in 1 .. m,
           T.got_offset[i] = 0, NEW U,
           U.got = Append(T.got, 0), U.got_offset = [T.got_offset EXCEPT ![i] = Len(T.got)]
    PROVE  GotOK(U, m)
<1>1. PICK n \in Nat : /\ n = Len(T.got) /\ n >= 3 /\ Len(U.got) = n + 1
  BY DEF TableSet, GotOK
<1>2. T.got_offset \in [1 .. m -> Nat] /\ U.got_offset[i] = n
      /\ \A j \in 1 .. m : j # i => U.got_offset[j] = T.got_offset[j]
  BY <1>1 DEF TableSet
<1>3. \A j \in 1 .. m : U.got_offset[j] # 0 => U.got_offset[j] \in 3 .. n
  BY <1>1, <1>2 DEF GotOK
<1>4. ASSUME NEW j \in 1 .. m, NEW k \in 1 .. m, U.got_offset[j] # 0,
             U.got_offset[j] = U.got_offset[k]
      PROVE  j = k
  BY <1>1, <1>2, <1>4, SMTT(30) DEF GotOK
<1>5. ASSUME NEW g \in 3 .. n PROVE \E j \in 1 .. m : U.got_offset[j] = g
  <2>1. CASE g = n
    BY <1>2, <2>1
  <2>2. CASE g \in 3 .. n - 1
    <3>1. PICK j \in 1 .. m : T.got_offset[j] = g
      BY <1>1, <2>2 DEF GotOK
    <3>2. j # i
      BY <2>2, <3>1
    <3> QED
      BY <1>2, <3>1, <3>2
  <2> QED
    BY <1>1, <2>1, <2>2
<1> QED
  BY <1>1, <1>3, <1>4, <1>5 DEF GotOK

LEMMA PutOK ==
    ASSUME NEW m \in Nat, SymsOK(m), NEW T, TabOK(T, m), NEW i \in 1 .. m,
           NEW type \in {"JUMP_SLOT", "GLOB_DAT"}, NEW bind \in Binds,
           NEW U, U = put_got_entry(T, type, bind, i)
    PROVE  TabOK(U, m)
<1>1. CASE HasEntry(T, i)
  BY <1>1 DEF put_got_entry
<1>2. CASE ~ HasEntry(T, i)
  <2>1. PICK slot, plt, val :
           slot = Len(T.got) /\ plt = PltFor(T, type) /\ val = ValueFor(T, type, i)
    OBVIOUS
  <2>2. T \in TableSet(m) /\ GotOK(T, m)
    BY DEF TabOK
  <2>3. /\ U \in TableSet(m)
        /\ U.got = Append(T.got, 0) /\ slot \in Nat /\ val \in Nat
        /\ U.got_offset = [T.got_offset EXCEPT ![i] = slot]
        /\ IsDynamic =>
             /\ U.plt = plt
             /\ U.dynsym = Append(T.dynsym, [name |-> syms[i].name, bind |-> bind,
                                            sec |-> syms[i].sec, value |-> val])
             /\ U.relgot = Append(T.relgot, [off |-> slot, type |-> type,
                                            sym |-> Len(T.dynsym) + 1])
        /\ ~ IsDynamic => U.plt = T.plt /\ U.dynsym = T.dynsym /\ U.relgot = T.relgot
    <3>1. slot = Len(T.got) /\ plt = PltFor(T, type) /\ val = ValueFor(T, type, i)
          /\ T \in TableSet(m) /\ ~ HasEntry(T, i) /\ SymsOK(m)
      BY <1>2, <2>1, <2>2
    <3>2. IsPut(m, T, i, type, bind, U, slot, plt, val)
      BY <3>1, PutIs
    <3> QED
      BY <3>2 DEF IsPut
  <2>4. T.got_offset[i] = 0
    BY <1>2 DEF HasEntry
  <2>5. GotOK(U, m)
    BY <2>1, <2>2, <2>3, <2>4, GotGrows
  <2>6. CASE ~ IsDynamic
    <3>1. ASSUME NEW k \in 1 .. Len(U.relgot) PROVE SlotOK(U, k)
      <4>1. SlotOK(T, k)
        BY <2>3, <2>6 DEF TabOK
      <4> QED
        BY <2>3, <2>6, <4>1 DEF SlotOK
    <3> QED
      BY <2>3, <2>5, <2>6, <3>1 DEF TabOK
  <2>7. CASE IsDynamic
    <3>1. PICK d, e : /\ d = [name |-> syms[i].name, bind |-> bind,
                              sec |-> syms[i].sec, value |-> val]
                      /\ e = [off |-> slot, type |-> type, sym |-> Len(T.dynsym) + 1]
      OBVIOUS
    <3>2. PICK nd \in Nat, nr \in Nat :
            /\ nd = Len(T.dynsym) /\ nr = Len(T.relgot)
            /\ Len(U.dynsym) = nd + 1 /\ Len(U.relgot) = nr + 1
            /\ U.dynsym[nd + 1] = d /\ U.relgot[nr + 1] = e
            /\ \A k \in 1 .. nd : U.dynsym[k] = T.dynsym[k]
            /\ \A k \in 1 .. nr : U.relgot[k] = T.relgot[k]
      <4>1. T.dynsym \in Seq(DynSyms) /\ T.relgot \in Seq(Slots)
        BY <2>2 DEF TableSet
      <4>2. U.dynsym = Append(T.dynsym, d) /\ U.relgot = Append(T.relgot, e)
        BY <2>3, <2>7, <3>1
      <4>3. d \in DynSyms
        BY <2>3, <3>1, SymIs DEF DynSyms
      <4>4. e \in Slots
        BY <2>3, <3>1, <4>1 DEF Slots
      <4>5. /\ Len(T.dynsym) \in Nat /\ Len(U.dynsym) = Len(T.dynsym) + 1
            /\ U.dynsym[Len(T.dynsym) + 1] = d
            /\ \A k \in 1 .. Len(T.dynsym) : U.dynsym[k] = T.dynsym[k]
        BY <4>1, <4>2, <4>3, Appended
      <4>6. /\ Len(T.relgot) \in Nat /\ Len(U.relgot) = Len(T.relgot) + 1
            /\ U.relgot[Len(T.relgot) + 1] = e
            /\ \A k \in 1 .. Len(T.relgot) : U.relgot[k] = T.relgot[k]
        BY <4>1, <4>2, <4>4, Appended
      <4> QED
        BY <4>5, <4>6
    <3>3. /\ Len(T.plt) \in Nat /\ Len(U.plt) \in Nat /\ Len(T.plt) <= Len(U.plt)
          /\ \A p \in 2 .. Len(T.plt) : U.plt[p] = T.plt[p]
          /\ type = "JUMP_SLOT" => Len(U.plt) >= 2 /\ U.plt[Len(U.plt)] = slot
      <4>1. T.plt \in Seq(Nat) /\ U.plt = plt
        BY <2>2, <2>3, <2>7 DEF TableSet
      <4>2. CASE type = "JUMP_SLOT"
        <5> PICK tp \in Seq(Nat) : tp = T.plt
          BY <4>1
        <5>1. plt = PltWith(tp, slot)
          BY <2>1, <4>2 DEF PltFor
        <5> QED
          <6>1. slot \in Nat /\ U.plt = plt /\ T.plt = tp
            BY <2>3, <4>1
          <6>2. /\ plt \in Seq(Nat) /\ Len(plt) \in Nat /\ Len(plt) >= 2 /\ plt[Len(plt)] = slot
                /\ Len(tp) <= Len(plt) /\ \A k \in 2 .. Len(tp) : plt[k] = tp[k]
            <7>1. PICK r : r = plt
              OBVIOUS
            <7>2. r = PltWith(tp, slot)
              BY <5>1, <7>1
            <7>3. /\ r \in Seq(Nat) /\ Len(r) \in Nat /\ Len(r) >= 2 /\ r[Len(r)] = slot
                  /\ Len(tp) <= Len(r) /\ \A k \in 2 .. Len(tp) : r[k] = tp[k]
              BY <6>1, <7>2, PltIs, SMTT(30)
            <7> QED
              BY <7>1, <7>3
          <6> QED
            BY <4>1, <6>1, <6>2
      <4>3. CASE type # "JUMP_SLOT"
        BY <2>1, <4>1, <4>3 DEF PltFor
      <4> QED
        BY <4>2, <4>3
    <3>4. ASSUME NEW k \in 1 .. nr
          PROVE  SlotOK(U, k) /\ U.dynsym[U.relgot[k].sym] = T.dynsym[T.relgot[k].sym]
      <4>1. SlotOK(T, k)
        BY <3>2 DEF TabOK
      <4>2. T.relgot[k].sym \in 1 .. nd
        BY <3>2, <4>1 DEF SlotOK
      <4>3. U.relgot[k] = T.relgot[k] /\ U.dynsym[T.relgot[k].sym] = T.dynsym[T.relgot[k].sym]
        BY <3>2, <4>2
      <4>4. U.relgot[k].sym \in 1 .. Len(U.dynsym)
        BY <3>2, <4>2, <4>3
      <4>5. ASSUME U.relgot[k].type = "JUMP_SLOT"
            PROVE  \E p \in 2 .. Len(U.plt) : /\ U.plt[p] = U.relgot[k].off
                                             /\ U.dynsym[U.relgot[k].sym].value = p - 1
        <5>1. PICK p \in 2 .. Len(T.plt) : /\ T.plt[p] = T.relgot[k].off
                                           /\ T.dynsym[T.relgot[k].sym].value = p - 1
          BY <4>1, <4>3, <4>5 DEF SlotOK
        <5>2. p \in 2 .. Len(U.plt) /\ U.plt[p] = T.plt[p]
          BY <3>3
        <5> QED
          BY <4>3, <5>1, <5>2
      <4> QED
        BY <4>3, <4>4, <4>5 DEF SlotOK
    <3>5. SlotOK(U, nr + 1)
      <4>1. /\ U.relgot[nr + 1].sym = nd + 1 /\ U.relgot[nr + 1].off = slot
            /\ U.relgot[nr + 1].type = type /\ U.dynsym[nd + 1].value = val
        BY <3>1, <3>2
      <4>2. U.relgot[nr + 1].sym \in 1 .. Len(U.dynsym)
        BY <3>2, <4>1
      <4>3. type = "JUMP_SLOT" => val = Len(U.plt) - 1
        BY <2>1, <2>3, <2>7 DEF ValueFor, PltFor
      <4>4. type = "JUMP_SLOT" =>
              \E p \in 2 .. Len(U.plt) : U.plt[p] = slot /\ val = p - 1
        BY <3>3, <4>3, SMTT(30)
      <4> QED
        BY <4>1, <4>2, <4>4 DEF SlotOK
    <3>6. \A k \in 1 .. Len(U.relgot) : SlotOK(U, k)
      BY <3>2, <3>4, <3>5
    <3>7. ASSUME NEW j \in 1 .. m, U.got_offset[j] # 0
          PROVE  HasSlot(U, j)
      <4>0. T.got_offset \in [1 .. m -> Nat]
        BY <2>2 DEF TableSet
      <4>1. CASE j = i
        <5>1. U.got_offset[j] = slot
          BY <2>3, <4>0, <4>1
        <5>2. U.relgot[nr + 1].off = slot /\ U.relgot[nr + 1].sym = nd + 1
          BY <3>1, <3>2
        <5>3. U.dynsym[nd + 1].name = syms[j].name
          BY <3>1, <3>2, <4>1
        <5>4. nr + 1 \in 1 .. Len(U.relgot)
          BY <3>2
        <5> QED
          BY <5>1, <5>2, <5>3, <5>4 DEF HasSlot
      <4>2. CASE j # i
        <5>1. U.got_offset[j] = T.got_offset[j]
          BY <2>3, <4>0, <4>2
        <5>2. HasSlot(T, j)
          BY <2>7, <3>7, <5>1 DEF TabOK
        <5>3. PICK k \in 1 .. nr : /\ T.relgot[k].off = T.got_offset[j]
                                   /\ T.dynsym[T.relgot[k].sym].name = syms[j].name
          BY <3>2, <5>2 DEF HasSlot
        <5>4. k \in 1 .. Len(U.relgot)
          BY <3>2
        <5> QED
          BY <3>2, <3>4, <5>1, <5>3, <5>4 DEF HasSlot
      <4> QED
        BY <4>1, <4>2
    <3> QED
      BY <2>3, <2>5, <3>6, <3>7 DEF TabOK
  <2> QED
    BY <2>6, <2>7
<1> QED
  BY <1>1, <1>2
-----------------------------------------------------------------------------
(* The passes over the symbols and the relocations                         *)

\* A dynamic symbol of another name or place changes nothing.
LEMMA DynSymOK ==
    ASSUME NEW m \in Nat, NEW T, TabOK(T, m),
           NEW n \in Names, NEW bind \in Binds, NEW sec \in DynPlaces, NEW value \in Nat,
           NEW U, U = DynSym(T, n, bind, sec, value)
    PROVE  TabOK(U, m)
<1> PICK d : d = [name |-> n, bind |-> bind, sec |-> sec, value |-> value]
  OBVIOUS
<1>1. T \in TableSet(m)
  BY DEF TabOK
<1>2. WithSym(m, T, d, U)
  BY <1>1, DynSymIs
<1>3. Extends(T, U) /\ U \in TableSet(m)
  BY <1>2 DEF Extends, WithSym
<1> QED
  BY <1>3, ExtendedOK

LEMMA LibraryIs ==
    ASSUME NEW n \in DOMAIN Library
    PROVE  /\ n \in Names /\ Library[n].bind \in Binds /\ Library[n].bind # "local"
           /\ Library[n].value \in Nat /\ Library[n].type \in {"func", "object"}
<1>1. Library[n] \in [type : {"func", "object"}, bind : {"weak", "global"}, value : Nat]
      /\ n \in Names
  BY ElfLinkAssumption
<1> QED
  BY <1>1 DEF Binds

LEMMA AliasIs ==
    ASSUME NEW n, HasAlias(n)
    PROVE  Alias(n) \in Aliases(n) /\ Alias(n) \in DOMAIN Library
<1>1. \E a : a \in Aliases(n)
  BY DEF HasAlias
<1>2. Alias(n) \in Aliases(n)
  BY <1>1 DEF Alias
<1> QED
  BY <1>2 DEF Aliases

\* What an object of a library adds.
LEMMA CopyIs ==
    ASSUME NEW m \in Nat, NEW T \in TableSet(m), NEW n \in DOMAIN Library,
           NEW U, U = Copy(T, n)
    PROVE  U \in TableSet(m) /\ Extends(T, U)
<1>1. T.bss \in Nat /\ T.relbss \in Seq([off : Nat, sym : Nat]) /\ Len(T.dynsym) \in Nat
  BY DEF TableSet
<1>2. PICK A : A = DynSym(T, n, Library[n].bind, "bss", T.bss)
  OBVIOUS
<1>3. A \in TableSet(m) /\ Extends(T, A)
  <2> PICK bind \in Binds, sec \in DynPlaces, value \in Nat :
         bind = Library[n].bind /\ sec = "bss" /\ value = T.bss
    BY <1>1, LibraryIs DEF DynPlaces
  <2> PICK d : d = [name |-> n, bind |-> bind, sec |-> sec, value |-> value]
    OBVIOUS
  <2>1. A = DynSym(T, n, bind, sec, value) /\ n \in Names
    BY <1>2, LibraryIs
  <2>2. WithSym(m, T, d, A)
    BY <2>1, DynSymIs
  <2> QED
    BY <2>2 DEF WithSym, Extends
<1>4. PICK B : B = IF HasAlias(n) THEN DynSym(A, Alias(n), Library[Alias(n)].bind, "bss", T.bss)
                   ELSE A
  OBVIOUS
<1>5. B \in TableSet(m) /\ Extends(T, B)
  <2>1. CASE ~ HasAlias(n)
    BY <1>3, <1>4, <2>1
  <2>2. CASE HasAlias(n)
    <3> PICK a \in DOMAIN Library : a = Alias(n)
      BY <2>2, AliasIs
    <3> PICK bind \in Binds, sec \in DynPlaces, value \in Nat :
           bind = Library[a].bind /\ sec = "bss" /\ value = T.bss
      BY <1>1, LibraryIs DEF DynPlaces
    <3> PICK d : d = [name |-> a, bind |-> bind, sec |-> sec, value |-> value]
      OBVIOUS
    <3>1. B = DynSym(A, a, bind, sec, value) /\ a \in Names
      BY <1>4, <2>2, LibraryIs
    <3>2. WithSym(m, A, d, B)
      BY <1>3, <3>1, DynSymIs
    <3>3. Len(T.dynsym) <= Len(B.dynsym)
      BY <1>1, <1>3, <3>2 DEF WithSym, Extends
    <3>4. ASSUME NEW k \in 1 .. Len(T.dynsym) PROVE B.dynsym[k] = T.dynsym[k]
      <4>1. k \in 1 .. Len(A.dynsym)
        BY <1>1, <1>3, <3>2 DEF WithSym, Extends
      <4> QED
        BY <1>3, <3>2, <4>1 DEF WithSym, Extends
    <3> QED
      BY <1>3, <3>2, <3>3, <3>4 DEF WithSym, Extends
  <2> QED
    BY <2>1, <2>2
<1> PICK r, x : r = Append(B.relbss, [off |-> T.bss, sym |-> Len(T.dynsym) + 1]) /\ x = B.bss + 1
  OBVIOUS
<1>6. U = [B EXCEPT !.relbss = r, !.bss = x]
  <2>1. U = [B EXCEPT !.relbss = Append(@, [off |-> T.bss, sym |-> Len(T.dynsym) + 1]),
                      !.bss = @ + 1]
    BY <1>2, <1>4 DEF Copy
  <2> QED
    BY <1>5, <2>1 DEF TableSet
<1>7. r \in Seq([off : Nat, sym : Nat]) /\ x \in Nat
  BY <1>1, <1>5, SMTT(30) DEF TableSet
<1> QED
  BY <1>5, <1>6, <1>7 DEF TableSet, Extends

LEMMA CopyOK ==
    ASSUME NEW m \in Nat, NEW T, TabOK(T, m), NEW n \in DOMAIN Library,
           NEW U, U = Copy(T, n)
    PROVE  TabOK(U, m)
  BY CopyIs, ExtendedOK DEF TabOK

LEMMA SymStepOK ==
    ASSUME NEW m \in Nat, SymsOK(m), NEW T, TabOK(T, m), NEW i \in 1 .. m
    PROVE  TabOK(DynSym(T, syms[i].name, syms[i].bind, syms[i].sec, syms[i].value), m)
<1> PICK n \in Names, bind \in Binds, sec \in DynPlaces, value \in Nat :
       n = syms[i].name /\ bind = syms[i].bind /\ sec = syms[i].sec /\ value = syms[i].value
  BY SymIs
<1> PICK U : U = DynSym(T, n, bind, sec, value)
  OBVIOUS
<1>1. TabOK(U, m)
  BY DynSymOK
<1> QED
  BY <1>1

LEMMA BindOK ==
    ASSUME NEW m \in Nat, SymsOK(m), NEW T, TabOK(T, m), NEW i \in 1 .. m
    PROVE  TabOK(Bind(T, i), m)
<1> PICK s : s = syms[i]
  OBVIOUS
<1>1. CASE s.sec = "undef" /\ s.name \in DOMAIN Library /\ Library[s.name].type = "func"
  <2> PICK type \in {"JUMP_SLOT", "GLOB_DAT"}, bind \in Binds : type = "JUMP_SLOT" /\ bind = "global"
    BY DEF Binds
  <2> PICK U : U = put_got_entry(T, type, bind, i)
    OBVIOUS
  <2>1. TabOK(U, m)
    BY PutOK
  <2>2. Bind(T, i) = U
    BY <1>1 DEF Bind
  <2> QED
    BY <2>1, <2>2
<1>2. CASE s.sec = "undef" /\ s.name \in DOMAIN Library /\ Library[s.name].type # "func"
  <2> PICK n \in DOMAIN Library : n = s.name
    BY <1>2
  <2> PICK U : U = Copy(T, n)
    OBVIOUS
  <2>1. TabOK(U, m)
    BY CopyOK
  <2>2. Bind(T, i) = U
    BY <1>2 DEF Bind
  <2> QED
    BY <2>1, <2>2
<1>3. CASE ~ (s.sec = "undef" /\ s.name \in DOMAIN Library)
           /\ s.sec # "undef" /\ out = "rdynamic" /\ s.bind # "local"
  <2>1. Bind(T, i) = DynSym(T, syms[i].name, syms[i].bind, syms[i].sec, syms[i].value)
    BY <1>3 DEF Bind
  <2> QED
    BY <2>1, SymStepOK
<1>4. CASE ~ (s.sec = "undef" /\ s.name \in DOMAIN Library)
           /\ ~ (s.sec # "undef" /\ out = "rdynamic" /\ s.bind # "local")
  <2>1. Bind(T, i) = T
    BY <1>4 DEF Bind
  <2> QED
    BY <2>1
<1> QED
  BY <1>1, <1>2, <1>3, <1>4

LEMMA ExportOK ==
    ASSUME NEW m \in Nat, SymsOK(m), NEW T, TabOK(T, m), NEW n \in Names
    PROVE  TabOK(Export(T, n), m)
<1>1. syms \in Seq(SymSet) /\ Len(syms) = m /\ DOMAIN syms = 1 .. m
  BY DEF SymsOK
<1>2. CASE SymOf(n) = 0
  BY <1>2 DEF Export
<1>3. CASE SymOf(n) # 0
  <2>1. PICK i \in 1 .. m : i = SymOf(n) /\ syms[i].name = n
    BY <1>1, <1>3, SymOfIs
  <2>2. Export(T, n) = DynSym(T, syms[i].name, syms[i].bind, syms[i].sec, syms[i].value)
    BY <1>3, <2>1 DEF Export
  <2> QED
    BY <2>2, SymStepOK
<1> QED
  BY <1>2, <1>3

LEMMA ExportDllOK ==
    ASSUME NEW m \in Nat, SymsOK(m), NEW T, TabOK(T, m), NEW i \in 1 .. m
    PROVE  TabOK(ExportDll(T, i), m)
<1> PICK s : s = syms[i]
  OBVIOUS
<1>1. CASE s.bind = "local"
  BY <1>1 DEF ExportDll
<1>2. CASE s.bind # "local" /\ SlotType(s) # "none"
  <2> PICK type \in {"JUMP_SLOT", "GLOB_DAT"}, bind \in Binds : type = SlotType(s) /\ bind = s.bind
    BY <1>2, SymIs DEF SlotType
  <2> PICK U : U = put_got_entry(T, type, bind, i)
    OBVIOUS
  <2>1. TabOK(U, m)
    BY PutOK
  <2>2. ExportDll(T, i) = U
    BY <1>2 DEF ExportDll
  <2> QED
    BY <2>1, <2>2
<1>3. CASE s.bind # "local" /\ SlotType(s) = "none"
  <2>1. ExportDll(T, i) = DynSym(T, syms[i].name, syms[i].bind, syms[i].sec, syms[i].value)
    BY <1>3 DEF ExportDll
  <2> QED
    BY <2>1, SymStepOK
<1> QED
  BY <1>1, <1>2, <1>3

LEMMA EntryForOK ==
    ASSUME NEW m \in Nat, SymsOK(m), NEW T, TabOK(T, m), NEW r, r.sym \in 1 .. m
    PROVE  TabOK(EntryFor(T, r), m)
<1> PICK i \in 1 .. m : i = r.sym
  OBVIOUS
<1> PICK bind \in Binds : bind = syms[i].bind
  BY SymIs
<1> PICK slot, jump \in {"JUMP_SLOT", "GLOB_DAT"} : slot = "GLOB_DAT" /\ jump = "JUMP_SLOT"
  OBVIOUS
<1> PICK S, J : S = put_got_entry(T, slot, bind, i) /\ J = put_got_entry(T, jump, bind, i)
  OBVIOUS
<1>1. TabOK(S, m)
  BY PutOK
<1>2. TabOK(J, m)
  BY PutOK
<1>3. EntryFor(T, r) \in {S, J, T}
  BY DEF EntryFor
<1> QED
  BY <1>1, <1>2, <1>3
\* The sets of the tables that the passes go through.
Good(m) == {T \in TableSet(m) : TabOK(T, m)}

\* Every symbol is bound.
LEMMA BoundOK ==
    ASSUME NEW m \in Nat, SymsOK(m), NEW T \in Good(m)
    PROVE  Bound(T) \in Good(m)
<1> DEFINE S == Good(m)
<1> PICK n \in Nat : n = Len(syms)
  BY DEF SymsOK
<1> DEFINE Is(F) == F = [k \in 0 .. n |-> IF k = 0 THEN T ELSE Bind(F[k - 1], k)]
<1>1. ASSUME NEW U \in S, NEW k \in 1 .. n PROVE Bind(U, k) \in S
  BY BindOK DEF Good, TabOK, SymsOK
<1>2. T \in S
  OBVIOUS
<1> HIDE DEF S
<1>3. \E F : Is(F)
  <2> DEFINE g == [k \in 1 .. n |-> [U \in S |-> Bind(U, k)]]
  <2>1. g \in [1 .. n -> [S -> S]]
    BY <1>1
  <2>2. \A k \in 1 .. n : \A U \in S : g[k][U] = Bind(U, k)
    OBVIOUS
  <2> HIDE DEF g
  <2>0. PICK F : MadeBy(F, S, T, n, g)
    BY <1>2, <2>1, FoldExists
  <2>3. F \in [0 .. n -> S] /\ F[0] = T /\ \A k \in 1 .. n : F[k] = g[k][F[k - 1]]
    BY <2>0 DEF MadeBy
  <2>4. ASSUME NEW k \in 0 .. n
        PROVE  F[k] = IF k = 0 THEN T ELSE Bind(F[k - 1], k)
    <3>1. CASE k = 0
      BY <2>3, <3>1
    <3>2. CASE k # 0
      <4>1. k \in 1 .. n /\ k - 1 \in 0 .. n
        BY <3>2
      <4>2. F[k - 1] \in S
        BY <2>3, <4>1
      <4> QED
        BY <2>2, <2>3, <3>2, <4>1, <4>2
    <3> QED
      BY <3>1, <3>2
  <2> QED
    BY <2>3, <2>4
<1> DEFINE F == CHOOSE F : Is(F)
<1>4. Is(F)
  BY <1>3
<1>5. Bound(T) = F[n]
  BY DEF Bound
<1> HIDE DEF F
<1>6. F[0] = T /\ \A k \in 1 .. n : F[k] = Bind(F[k - 1], k)
  BY <1>4
<1>7. F[0] \in S
  BY <1>2, <1>6
<1>8. ASSUME NEW k \in 1 .. n, F[k - 1] \in S PROVE F[k] \in S
  BY <1>1, <1>6, <1>8
<1>9. F[n] \in S
  <2>1. \A k \in 0 .. n : F[k] \in S
    BY <1>7, <1>8, FoldKeeps
  <2> QED
    BY <2>1
<1> QED
  BY <1>5, <1>9 DEF S
\* Every symbol of a shared library is exported.
LEMMA ExportedDllOK ==
    ASSUME NEW m \in Nat, SymsOK(m), NEW T \in Good(m)
    PROVE  ExportedDll(T) \in Good(m)
<1> DEFINE S == Good(m)
<1> PICK n \in Nat : n = Len(syms)
  BY DEF SymsOK
<1> DEFINE Is(F) == F = [k \in 0 .. n |-> IF k = 0 THEN T ELSE ExportDll(F[k - 1], k)]
<1>1. ASSUME NEW U \in S, NEW k \in 1 .. n PROVE ExportDll(U, k) \in S
  BY ExportDllOK DEF Good, TabOK, SymsOK
<1>2. T \in S
  OBVIOUS
<1> HIDE DEF S
<1>3. \E F : Is(F)
  <2> DEFINE g == [k \in 1 .. n |-> [U \in S |-> ExportDll(U, k)]]
  <2>1. g \in [1 .. n -> [S -> S]]
    BY <1>1
  <2>2. \A k \in 1 .. n : \A U \in S : g[k][U] = ExportDll(U, k)
    OBVIOUS
  <2> HIDE DEF g
  <2>0. PICK F : MadeBy(F, S, T, n, g)
    BY <1>2, <2>1, FoldExists
  <2>3. F \in [0 .. n -> S] /\ F[0] = T /\ \A k \in 1 .. n : F[k] = g[k][F[k - 1]]
    BY <2>0 DEF MadeBy
  <2>4. ASSUME NEW k \in 0 .. n
        PROVE  F[k] = IF k = 0 THEN T ELSE ExportDll(F[k - 1], k)
    <3>1. CASE k = 0
      BY <2>3, <3>1
    <3>2. CASE k # 0
      <4>1. k \in 1 .. n /\ k - 1 \in 0 .. n
        BY <3>2
      <4>2. F[k - 1] \in S
        BY <2>3, <4>1
      <4> QED
        BY <2>2, <2>3, <3>2, <4>1, <4>2
    <3> QED
      BY <3>1, <3>2
  <2> QED
    BY <2>3, <2>4
<1> DEFINE F == CHOOSE F : Is(F)
<1>4. Is(F)
  BY <1>3
<1>5. ExportedDll(T) = F[n]
  BY DEF ExportedDll
<1> HIDE DEF F
<1>6. F[0] = T /\ \A k \in 1 .. n : F[k] = ExportDll(F[k - 1], k)
  BY <1>4
<1>7. F[0] \in S
  BY <1>2, <1>6
<1>8. ASSUME NEW k \in 1 .. n, F[k - 1] \in S PROVE F[k] \in S
  BY <1>1, <1>6, <1>8
<1>9. F[n] \in S
  <2>1. \A k \in 0 .. n : F[k] \in S
    BY <1>7, <1>8, FoldKeeps
  <2> QED
    BY <2>1
<1> QED
  BY <1>5, <1>9 DEF S

-----------------------------------------------------------------------------
(* The symbols that the libraries need                                     *)

\* The symbol n is called through the entry of the PLT that is v after the first.
OwnJump(T, n, v) ==
    \E k \in 1 .. Len(T.relgot), p \in 2 .. Len(T.plt) :
        /\ T.relgot[k].type = "JUMP_SLOT" /\ T.dynsym[T.relgot[k].sym].name = n
        /\ T.plt[p] = T.relgot[k].off /\ v = p - 1

IsOwn(T, n, d) ==
    d.sec = Program[n].sec /\ (d.value = Program[n].value \/ OwnJump(T, n, d.value))

\* The last dynamic symbol of the name n that is defined is the program's.
CallOK(T, n) ==
    \E k \in 1 .. Len(T.dynsym) :
        /\ T.dynsym[k].name = n /\ T.dynsym[k].sec # "undef"
        /\ \A j \in k .. Len(T.dynsym) :
              T.dynsym[j].name = n /\ T.dynsym[j].sec # "undef" => IsOwn(T, n, T.dynsym[j])

SymsFresh(m) == \A i \in 1 .. m : syms[i].value = Program[syms[i].name].value

\* Another dynamic symbol does not hide it.
LEMMA CallKept ==
    ASSUME NEW q \in Nat, NEW T, NEW U, NEW n, CallOK(T, n), Len(T.dynsym) = q, Len(U.dynsym) = q + 1,
           \A k \in 1 .. q : U.dynsym[k] = T.dynsym[k],
           U.dynsym[q + 1].name = n /\ U.dynsym[q + 1].sec # "undef" => IsOwn(U, n, U.dynsym[q + 1]),
           \A v : OwnJump(T, n, v) => OwnJump(U, n, v)
    PROVE  CallOK(U, n)
<1>1. PICK k \in 1 .. q :
        /\ T.dynsym[k].name = n /\ T.dynsym[k].sec # "undef"
        /\ \A j \in k .. q :
              T.dynsym[j].name = n /\ T.dynsym[j].sec # "undef" => IsOwn(T, n, T.dynsym[j])
  BY DEF CallOK
<1>2. k \in 1 .. q + 1 /\ U.dynsym[k].name = n /\ U.dynsym[k].sec # "undef"
  BY <1>1
<1>3. ASSUME NEW j \in k .. q + 1, U.dynsym[j].name = n, U.dynsym[j].sec # "undef"
      PROVE  IsOwn(U, n, U.dynsym[j])
  <2>1. CASE j = q + 1
    BY <1>3, <2>1
  <2>2. CASE j \in k .. q
    <3>1. IsOwn(T, n, T.dynsym[j]) /\ U.dynsym[j] = T.dynsym[j]
      BY <1>1, <1>3, <2>2
    <3> QED
      BY <3>1 DEF IsOwn
  <2> QED
    BY <2>1, <2>2
<1> QED
  BY <1>2, <1>3 DEF CallOK

\* A symbol of the program is exported.
LEMMA SymStepCall ==
    ASSUME NEW m \in Nat, SymsOK(m), SymsFresh(m), NEW T \in Good(m), NEW i \in 1 .. m,
           NEW U, U = DynSym(T, syms[i].name, syms[i].bind, syms[i].sec, syms[i].value),
           NEW n
    PROVE  /\ CallOK(T, n) => CallOK(U, n)
           /\ syms[i].name = n /\ IsHere(n) => CallOK(U, n)
<1> PICK sn \in Names, bind \in Binds, sec \in DynPlaces, value \in Nat :
       sn = syms[i].name /\ bind = syms[i].bind /\ sec = syms[i].sec /\ value = syms[i].value
  BY SymIs
<1> PICK d : d = [name |-> sn, bind |-> bind, sec |-> sec, value |-> value]
  OBVIOUS
<1>1. U = DynSym(T, sn, bind, sec, value) /\ T \in TableSet(m)
  BY DEF Good
<1>2. WithSym(m, T, d, U)
  BY <1>1, DynSymIs
<1>3. sec = Program[sn].sec /\ value = Program[sn].value
  BY DEF SymsOK, SymsFresh
<1>4. PICK q \in Nat : /\ Len(T.dynsym) = q /\ Len(U.dynsym) = q + 1 /\ U.dynsym[q + 1] = d
                       /\ \A k \in 1 .. q : U.dynsym[k] = T.dynsym[k]
  BY <1>2 DEF WithSym
<1>5. d.name = sn /\ d.sec = sec /\ d.value = value
  OBVIOUS
<1>6. U.dynsym[q + 1].name = n => IsOwn(U, n, U.dynsym[q + 1])
  BY <1>3, <1>4, <1>5 DEF IsOwn
<1>7. \A v : OwnJump(T, n, v) => OwnJump(U, n, v)
  <2>1. U.relgot = T.relgot /\ U.plt = T.plt
    BY <1>2 DEF WithSym
  <2>2. \A k \in 1 .. Len(T.relgot) : T.relgot[k].sym \in 1 .. q
    BY <1>4 DEF Good, TabOK, SlotOK
  <2>3. \A k \in 1 .. Len(T.relgot) : U.dynsym[T.relgot[k].sym] = T.dynsym[T.relgot[k].sym]
    BY <1>4, <2>2
  <2> QED
    BY <2>1, <2>3 DEF OwnJump
<1>8. CallOK(T, n) => CallOK(U, n)
  BY <1>4, <1>6, <1>7, CallKept
<1>9. ASSUME sn = n, IsHere(n) PROVE CallOK(U, n)
  <2>1. /\ q + 1 \in 1 .. Len(U.dynsym) /\ U.dynsym[q + 1].name = n
        /\ U.dynsym[q + 1].sec # "undef"
    BY <1>3, <1>4, <1>5, <1>9 DEF IsHere
  <2>2. \A j \in q + 1 .. Len(U.dynsym) : j = q + 1
    BY <1>4
  <2> QED
    BY <1>6, <2>1, <2>2 DEF CallOK
<1> QED
  BY <1>8, <1>9

\* An entry of the GOT does not hide it, unless it is one of the PLT.
LEMMA PutCall ==
    ASSUME NEW m \in Nat, SymsOK(m), SymsFresh(m), NEW T \in Good(m), NEW i \in 1 .. m,
           NEW type \in {"JUMP_SLOT", "GLOB_DAT"}, NEW bind \in Binds,
           NEW U, U = put_got_entry(T, type, bind, i), NEW n, CallOK(T, n)
    PROVE  CallOK(U, n)
<1>1. CASE HasEntry(T, i)
  BY <1>1 DEF put_got_entry
<1>2. CASE ~ HasEntry(T, i)
  <2>1. PICK slot, plt, val :
           slot = Len(T.got) /\ plt = PltFor(T, type) /\ val = ValueFor(T, type, i)
    OBVIOUS
  <2>2. T \in TableSet(m)
    BY DEF Good
  <2>3. /\ U \in TableSet(m)
        /\ U.got = Append(T.got, 0) /\ slot \in Nat /\ val \in Nat
        /\ U.got_offset = [T.got_offset EXCEPT ![i] = slot]
        /\ IsDynamic =>
             /\ U.plt = plt
             /\ U.dynsym = Append(T.dynsym, [name |-> syms[i].name, bind |-> bind,
                                            sec |-> syms[i].sec, value |-> val])
             /\ U.relgot = Append(T.relgot, [off |-> slot, type |-> type,
                                            sym |-> Len(T.dynsym) + 1])
        /\ ~ IsDynamic => U.plt = T.plt /\ U.dynsym = T.dynsym /\ U.relgot = T.relgot
    <3>1. slot = Len(T.got) /\ plt = PltFor(T, type) /\ val = ValueFor(T, type, i)
          /\ T \in TableSet(m) /\ ~ HasEntry(T, i) /\ SymsOK(m)
      BY <1>2, <2>1, <2>2
    <3>2. IsPut(m, T, i, type, bind, U, slot, plt, val)
      BY <3>1, PutIs
    <3> QED
      BY <3>2 DEF IsPut
  <2>4. CASE ~ IsDynamic
    <3>1. U.dynsym = T.dynsym /\ U.relgot = T.relgot /\ U.plt = T.plt
      BY <2>3, <2>4
    <3>2. PICK td, tr, tp : /\ td = T.dynsym /\ tr = T.relgot /\ tp = T.plt
                            /\ U.dynsym = td /\ U.relgot = tr /\ U.plt = tp
      BY <3>1
    <3>3. \A v : OwnJump(T, n, v) <=> OwnJump(U, n, v)
      BY <3>2 DEF OwnJump
    <3>4. \A d : IsOwn(T, n, d) => IsOwn(U, n, d)
      BY <3>3 DEF IsOwn
    <3>5. PICK k \in 1 .. Len(td) :
            /\ td[k].name = n /\ td[k].sec # "undef"
            /\ \A j \in k .. Len(td) :
                  td[j].name = n /\ td[j].sec # "undef" => IsOwn(T, n, td[j])
      BY <3>2 DEF CallOK
    <3> QED
      BY <3>2, <3>4, <3>5 DEF CallOK
  <2>5. CASE IsDynamic
    <3>1. PICK d, e : /\ d = [name |-> syms[i].name, bind |-> bind,
                              sec |-> syms[i].sec, value |-> val]
                      /\ e = [off |-> slot, type |-> type, sym |-> Len(T.dynsym) + 1]
      OBVIOUS
    <3>2. T.dynsym \in Seq(DynSyms) /\ T.relgot \in Seq(Slots)
      BY <2>2 DEF TableSet
    <3>3. d \in DynSyms /\ U.dynsym = Append(T.dynsym, d)
      BY <2>3, <2>5, <3>1, SymIs DEF DynSyms
    <3>4. e \in Slots /\ U.relgot = Append(T.relgot, e)
      BY <2>3, <2>5, <3>1, <3>2, SMTT(30) DEF Slots
    <3>5. PICK q \in Nat : /\ Len(T.dynsym) = q /\ Len(U.dynsym) = q + 1 /\ U.dynsym[q + 1] = d
                           /\ \A k \in 1 .. q : U.dynsym[k] = T.dynsym[k]
      <4>1. PICK td \in Seq(DynSyms) : td = T.dynsym
        BY <3>2
      <4>2. U.dynsym = Append(td, d) /\ d \in DynSyms
        BY <3>3, <4>1
      <4>3. /\ Len(td) \in Nat /\ Len(U.dynsym) = Len(td) + 1 /\ U.dynsym[Len(td) + 1] = d
            /\ \A k \in 1 .. Len(td) : U.dynsym[k] = td[k]
        BY <4>2, Appended
      <4> QED
        BY <4>1, <4>3
    <3>6. PICK r \in Nat : /\ Len(T.relgot) = r /\ Len(U.relgot) = r + 1 /\ U.relgot[r + 1] = e
                           /\ \A k \in 1 .. r : U.relgot[k] = T.relgot[k]
      BY <3>2, <3>4, Appended, SMTT(30)
    <3>0. /\ \A p \in 2 .. Len(T.plt) : p \in 2 .. Len(U.plt) /\ U.plt[p] = T.plt[p]
          /\ type = "JUMP_SLOT" => \E u \in 2 .. Len(U.plt) : U.plt[u] = slot /\ val = u - 1
      <4>1. U.plt = PltFor(T, type)
        BY <2>1, <2>3, <2>5
      <4>2. Grown(T, plt, slot, type, val)
        BY <2>1, <2>2, PltGrown, Zenon
      <4>3. Grown(T, U.plt, slot, type, val)
        BY <2>1, <4>1, <4>2, Zenon
      <4> QED
        BY <4>3 DEF Grown
    <3>7. ASSUME NEW v, OwnJump(T, n, v) PROVE OwnJump(U, n, v)
      <4>1. ASSUME NEW k \in 1 .. r PROVE T.relgot[k].sym \in 1 .. q
        <5>1. SlotOK(T, k)
          BY <3>6 DEF Good, TabOK
        <5> QED
          BY <3>5, <5>1 DEF SlotOK
      <4>2. ASSUME NEW k \in 1 .. r
            PROVE  k \in 1 .. r + 1 /\ U.relgot[k] = T.relgot[k]
                   /\ U.dynsym[T.relgot[k].sym] = T.dynsym[T.relgot[k].sym]
        <5>1. PICK y \in 1 .. q : y = T.relgot[k].sym
          BY <4>1
        <5>2. U.dynsym[y] = T.dynsym[y]
          BY <3>5
        <5> QED
          BY <3>6, <5>1, <5>2
      <4>3. PICK k \in 1 .. r, p \in 2 .. Len(T.plt) :
              /\ T.relgot[k].type = "JUMP_SLOT" /\ T.dynsym[T.relgot[k].sym].name = n
              /\ T.plt[p] = T.relgot[k].off /\ v = p - 1
        BY <3>6, <3>7 DEF OwnJump
      <4>4. k \in 1 .. Len(U.relgot)
        BY <3>6, <4>2
      <4>5. p \in 2 .. Len(U.plt) /\ U.plt[p] = T.plt[p]
        BY <3>0
      <4>6. /\ U.relgot[k].type = "JUMP_SLOT" /\ U.dynsym[U.relgot[k].sym].name = n
            /\ U.plt[p] = U.relgot[k].off
        BY <4>2, <4>3, <4>5
      <4> QED
        BY <4>3, <4>4, <4>5, <4>6 DEF OwnJump
    <3>8. ASSUME syms[i].name = n PROVE IsOwn(U, n, d)
      <4>1. d.sec = Program[n].sec /\ d.value = val
        BY <3>1, <3>8 DEF SymsOK
      <4>2. CASE type = "JUMP_SLOT"
        <5>1. /\ U.relgot[r + 1].type = "JUMP_SLOT" /\ U.relgot[r + 1].off = slot
              /\ U.dynsym[U.relgot[r + 1].sym].name = n
          BY <3>1, <3>5, <3>6, <3>8, <4>2
        <5>3. r + 1 \in 1 .. Len(U.relgot)
          BY <3>6
        <5>4. PICK u \in 2 .. Len(U.plt) : U.plt[u] = slot /\ val = u - 1
          BY <3>0, <4>2
        <5>2. OwnJump(U, n, val)
          BY <5>1, <5>3, <5>4 DEF OwnJump
        <5> QED
          BY <4>1, <5>2 DEF IsOwn
      <4>3. CASE type # "JUMP_SLOT"
        BY <2>1, <3>8, <4>1, <4>3 DEF IsOwn, ValueFor, SymsFresh
      <4> QED
        BY <4>2, <4>3
    <3>9. U.dynsym[q + 1].name = n => IsOwn(U, n, U.dynsym[q + 1])
      BY <3>1, <3>5, <3>8
    <3>10. \A v : OwnJump(T, n, v) => OwnJump(U, n, v)
      BY <3>7
    <3> QED
      BY <3>5, <3>9, <3>10, CallKept
  <2> QED
    BY <2>4, <2>5
<1> QED
  BY <1>1, <1>2

LEMMA EntryForCall ==
    ASSUME NEW m \in Nat, SymsOK(m), SymsFresh(m), NEW T \in Good(m), NEW r, r.sym \in 1 .. m,
           NEW n, CallOK(T, n)
    PROVE  CallOK(EntryFor(T, r), n)
<1> PICK i \in 1 .. m : i = r.sym
  OBVIOUS
<1> PICK bind \in Binds : bind = syms[i].bind
  BY SymIs
<1> PICK slot, jump \in {"JUMP_SLOT", "GLOB_DAT"} : slot = "GLOB_DAT" /\ jump = "JUMP_SLOT"
  OBVIOUS
<1> PICK S, J : S = put_got_entry(T, slot, bind, i) /\ J = put_got_entry(T, jump, bind, i)
  OBVIOUS
<1>1. CallOK(S, n)
  BY PutCall
<1>2. CallOK(J, n)
  BY PutCall
<1>3. EntryFor(T, r) \in {S, J, T}
  BY DEF EntryFor
<1> QED
  BY <1>1, <1>2, <1>3

\* The tables where the names of C, if syms is as the program made it, lead to the program.
Serving(m, C) == {T \in Good(m) : SymsFresh(m) => \A n \in C : CallOK(T, n)}

\* build_got_entries keeps this.
LEMMA EntriesForOK ==
    ASSUME NEW m \in Nat, SymsOK(m), NEW C, NEW T \in Serving(m, C), NEW RS, NEW rs \in Seq(RS),
           \A k \in DOMAIN rs : rs[k].sym \in 1 .. m
    PROVE  EntriesFor(T, rs) \in Serving(m, C)
<1> DEFINE S == Serving(m, C)
<1> PICK n \in Nat : n = Len(rs)
  OBVIOUS
<1> DEFINE Is(F) == F = [k \in 0 .. n |-> IF k = 0 THEN T ELSE EntryFor(F[k - 1], rs[k])]
<1>1. ASSUME NEW U \in S, NEW k \in 1 .. n PROVE EntryFor(U, rs[k]) \in S
  <2>1. k \in DOMAIN rs /\ rs[k].sym \in 1 .. m
    OBVIOUS
  <2>2. U \in Good(m) /\ TabOK(U, m)
    BY DEF Serving, Good
  <2> PICK r : r = rs[k]
    OBVIOUS
  <2>3. EntryFor(U, r) \in Good(m)
    BY <2>1, <2>2, EntryForOK DEF Good, TabOK
  <2>4. ASSUME SymsFresh(m), NEW nm \in C PROVE CallOK(EntryFor(U, r), nm)
    <3>1. CallOK(U, nm)
      BY <2>4 DEF Serving
    <3> QED
      BY <2>1, <2>2, <2>4, <3>1, EntryForCall
  <2> QED
    BY <2>3, <2>4 DEF Serving
<1>2. T \in S
  OBVIOUS
<1> HIDE DEF S
<1>3. \E F : Is(F)
  <2> DEFINE g == [k \in 1 .. n |-> [U \in S |-> EntryFor(U, rs[k])]]
  <2>1. g \in [1 .. n -> [S -> S]]
    BY <1>1
  <2>2. \A k \in 1 .. n : \A U \in S : g[k][U] = EntryFor(U, rs[k])
    OBVIOUS
  <2> HIDE DEF g
  <2>0. PICK F : MadeBy(F, S, T, n, g)
    BY <1>2, <2>1, FoldExists
  <2>3. F \in [0 .. n -> S] /\ F[0] = T /\ \A k \in 1 .. n : F[k] = g[k][F[k - 1]]
    BY <2>0 DEF MadeBy
  <2>4. ASSUME NEW k \in 0 .. n
        PROVE  F[k] = IF k = 0 THEN T ELSE EntryFor(F[k - 1], rs[k])
    <3>1. CASE k = 0
      BY <2>3, <3>1
    <3>2. CASE k # 0
      <4>1. k \in 1 .. n /\ k - 1 \in 0 .. n
        BY <3>2
      <4>2. F[k - 1] \in S
        BY <2>3, <4>1
      <4> QED
        BY <2>2, <2>3, <3>2, <4>1, <4>2
    <3> QED
      BY <3>1, <3>2
  <2> QED
    BY <2>3, <2>4
<1> DEFINE F == CHOOSE F : Is(F)
<1>4. Is(F)
  BY <1>3
<1>5. EntriesFor(T, rs) = F[n]
  BY DEF EntriesFor
<1> HIDE DEF F
<1>6. F[0] = T /\ \A k \in 1 .. n : F[k] = EntryFor(F[k - 1], rs[k])
  BY <1>4
<1>7. F[0] \in S
  BY <1>2, <1>6
<1>8. ASSUME NEW k \in 1 .. n, F[k - 1] \in S PROVE F[k] \in S
  BY <1>1, <1>6, <1>8
<1>9. F[n] \in S
  <2>1. \A k \in 0 .. n : F[k] \in S
    BY <1>7, <1>8, FoldKeeps
  <2> QED
    BY <2>1
<1> QED
  BY <1>5, <1>9 DEF S

\* The sequence of a finite set has each of its elements.
LEMMA SetToSeqIs ==
    ASSUME NEW S, IsFiniteSet(S), NEW q, q = SetToSeq(S)
    PROVE  \E n \in Nat : n = Len(q) /\ q \in [1 .. n -> S] /\ \A e \in S : \E k \in 1 .. n : q[k] = e
<1> PICK n \in Nat : n = Cardinality(S) /\ ExistsBijection(1 .. n, S)
  BY FS_CardinalityType
<1>1. \E f \in [1 .. n -> S] : IsInjective(f)
  BY DEF ExistsBijection, Bijection, Injection
<1>2. q \in [1 .. n -> S] /\ IsInjective(q)
  BY <1>1 DEF SetToSeq
<1>3. q \in Injection(1 .. n, S)
  BY <1>2 DEF Injection
<1>4. IsFiniteSet(1 .. n) /\ Cardinality(1 .. n) = n
  BY FS_Interval
<1>5. q \in Surjection(1 .. n, S)
  BY <1>3, <1>4, FS_Injection
<1>6. Len(q) = n
  BY <1>2
<1> QED
  BY <1>2, <1>5, <1>6 DEF Surjection

\* The libraries find a symbol that is exported, and keep finding it.
LEMMA ExportCall ==
    ASSUME NEW m \in Nat, SymsOK(m), SymsFresh(m), NEW T \in Good(m), NEW c \in Names, NEW n
    PROVE  /\ CallOK(T, n) => CallOK(Export(T, c), n)
           /\ c = n /\ SymOf(n) # 0 /\ IsHere(n) => CallOK(Export(T, c), n)
<1>1. syms \in Seq(SymSet) /\ Len(syms) = m /\ DOMAIN syms = 1 .. m
  BY DEF SymsOK
<1>2. CASE SymOf(c) = 0
  BY <1>2 DEF Export
<1>3. CASE SymOf(c) # 0
  <2>1. PICK i \in 1 .. m : i = SymOf(c) /\ syms[i].name = c
    BY <1>1, <1>3, SymOfIs
  <2>2. PICK U : U = DynSym(T, syms[i].name, syms[i].bind, syms[i].sec, syms[i].value)
    OBVIOUS
  <2>3. Export(T, c) = U
    BY <1>3, <2>1, <2>2 DEF Export
  <2>4. /\ CallOK(T, n) => CallOK(U, n)
        /\ syms[i].name = n /\ IsHere(n) => CallOK(U, n)
    BY <2>2, SymStepCall
  <2> QED
    BY <2>1, <2>3, <2>4
<1> QED
  BY <1>2, <1>3

\* The names that the libraries need and the program has.
Wanted == {n \in Callbacks : SymOf(n) # 0 /\ IsHere(n)}

\* All of them are exported.
LEMMA ExportedOK ==
    ASSUME NEW m \in Nat, SymsOK(m), NEW T \in Good(m), ElfLinkAssumption
    PROVE  Exported(T) \in Serving(m, Wanted)
<1> DEFINE S == Good(m)
<1> PICK names : names = SetToSeq(Callbacks)
  OBVIOUS
<1>0. PICK n \in Nat : /\ n = Len(names) /\ names \in [1 .. n -> Callbacks]
                       /\ \A c \in Callbacks : \E k \in 1 .. n : names[k] = c
  BY SetToSeqIs DEF ElfLinkAssumption
<1> DEFINE Is(F) == F = [k \in 0 .. n |-> IF k = 0 THEN T ELSE Export(F[k - 1], names[k])]
<1>1. ASSUME NEW U \in S, NEW k \in 1 .. n PROVE Export(U, names[k]) \in S
  <2>1. names[k] \in Names
    BY <1>0 DEF ElfLinkAssumption
  <2>2. U \in Good(m) /\ TabOK(U, m)
    BY DEF Good
  <2> PICK c \in Names : c = names[k]
    BY <2>1
  <2>3. TabOK(Export(U, c), m)
    BY <2>2, ExportOK
  <2> QED
    BY <2>3 DEF Good, TabOK
<1>2. T \in S
  OBVIOUS
<1> HIDE DEF S
<1>3. \E F : Is(F)
  <2> DEFINE g == [k \in 1 .. n |-> [U \in S |-> Export(U, names[k])]]
  <2>1. g \in [1 .. n -> [S -> S]]
    BY <1>1
  <2>2. \A k \in 1 .. n : \A U \in S : g[k][U] = Export(U, names[k])
    OBVIOUS
  <2> HIDE DEF g
  <2>0. PICK F : MadeBy(F, S, T, n, g)
    BY <1>2, <2>1, FoldExists
  <2>3. F \in [0 .. n -> S] /\ F[0] = T /\ \A k \in 1 .. n : F[k] = g[k][F[k - 1]]
    BY <2>0 DEF MadeBy
  <2>4. ASSUME NEW k \in 0 .. n
        PROVE  F[k] = IF k = 0 THEN T ELSE Export(F[k - 1], names[k])
    <3>1. CASE k = 0
      BY <2>3, <3>1
    <3>2. CASE k # 0
      <4>1. k \in 1 .. n /\ k - 1 \in 0 .. n
        BY <3>2
      <4>2. F[k - 1] \in S
        BY <2>3, <4>1
      <4> QED
        BY <2>2, <2>3, <3>2, <4>1, <4>2
    <3> QED
      BY <3>1, <3>2
  <2> QED
    BY <2>3, <2>4
<1> DEFINE F == CHOOSE F : Is(F)
<1>4. Is(F)
  BY <1>3
<1>5. Exported(T) = F[n]
  BY <1>0 DEF Exported
<1> HIDE DEF F
<1>6. F[0] = T /\ \A k \in 1 .. n : F[k] = Export(F[k - 1], names[k])
  BY <1>4
<1>7. F[0] \in S
  BY <1>2, <1>6
<1>8. ASSUME NEW k \in 1 .. n, F[k - 1] \in S PROVE F[k] \in S
  BY <1>1, <1>6, <1>8
<1>9. \A k \in 0 .. n : F[k] \in S
  BY <1>7, <1>8, FoldKeeps
<1>10. ASSUME SymsFresh(m), NEW c \in Wanted PROVE CallOK(F[n], c)
  <2>1. PICK a \in 1 .. n : names[a] = c
    BY <1>0 DEF Wanted
  <2> PICK O : O = {1}
    OBVIOUS
  <2> DEFINE G == [k \in 0 .. n |-> IF a <= k => CallOK(F[k], c) THEN 1 ELSE 0]
  <2>2. \A k \in 0 .. n : G[k] \in O <=> (a <= k => CallOK(F[k], c))
    OBVIOUS
  <2>3. 0 \in 0 .. n /\ n \in 0 .. n
    OBVIOUS
  <2> HIDE DEF G
  <2>4. G[0] \in O
    BY <2>2, <2>3
  <2>5. ASSUME NEW k \in 1 .. n, G[k - 1] \in O PROVE G[k] \in O
    <3>1. k \in 0 .. n /\ k - 1 \in 0 .. n
      OBVIOUS
    <3>2. a <= k - 1 => CallOK(F[k - 1], c)
      BY <2>2, <2>5, <3>1
    <3>3. F[k - 1] \in Good(m) /\ F[k] = Export(F[k - 1], names[k])
      BY <1>6, <1>9, <3>1 DEF S
    <3>4. PICK U \in Good(m), d \in Names : U = F[k - 1] /\ d = names[k]
      BY <1>0, <3>3 DEF ElfLinkAssumption
    <3>5. /\ CallOK(U, c) => CallOK(Export(U, d), c)
          /\ d = c /\ SymOf(c) # 0 /\ IsHere(c) => CallOK(Export(U, d), c)
      BY <1>10, ExportCall
    <3>6. SymOf(c) # 0 /\ IsHere(c)
      BY DEF Wanted
    <3>7. a <= k => a <= k - 1 \/ a = k
      OBVIOUS
    <3> QED
      BY <2>1, <2>2, <3>1, <3>2, <3>3, <3>4, <3>5, <3>6, <3>7
  <2>6. \A k \in 0 .. n : G[k] \in O
    BY <2>4, <2>5, FoldKeeps
  <2> QED
    BY <2>2, <2>3, <2>6
<1>11. F[n] \in Good(m)
  BY <1>9 DEF S
<1> QED
  BY <1>5, <1>10, <1>11 DEF Serving

-----------------------------------------------------------------------------
(* The inductive invariant                                                 *)

Phases == {"compile", "bind", "got", "layout", "size", "symbols", "text", "data", "write",
           "load", "done"}
Filling == {"bind", "got", "layout"}
Laid    == {"size", "symbols", "text", "data", "write", "load"}

PhaseInv ==
    /\ phase \in Phases /\ out \in {"exe", "rdynamic", "dll", "static", "memory"}
    /\ phase \in {"bind", "layout", "load"} => IsDynamic
    /\ phase = "size" => ~ IsDynamic

\* The table of the section s is as the compiler wrote it.
Pending(s) == \/ phase \in {"compile", "size", "symbols", "text"} \cup Filling
              \/ phase = "data" /\ s = "data"

RelSet(m, w) == [off : 1 .. w, type : RefTypes, sym : 1 .. m, addend : Int]

RelsOK(s) == /\ rels[s] \in Seq(RelSet(Len(syms), Len(image[s])))
             /\ image[s] \in Seq(Int) /\ Len(rels[s]) = Len(image[s])

ProgInv ==
    /\ SymsOK(Len(syms))
    /\ phase \in {"compile"} \cup Filling => SymsFresh(Len(syms))
    /\ DOMAIN rels = Sections /\ DOMAIN image = Sections
    /\ \A s \in Sections : Pending(s) => RelsOK(s)
    /\ runtime \in Seq([val : Int, jump : BOOLEAN])

\* The dynamic symbols have addresses, no more the places of the PLT.
SlotLaid(T, k) ==
    /\ T.relgot[k].sym \in 1 .. Len(T.dynsym)
    /\ T.relgot[k].type = "JUMP_SLOT" => \E p \in 2 .. Len(T.plt) : T.plt[p] = T.relgot[k].off

LaidOK(T, m) ==
    /\ T \in TableSet(m)
    /\ GotOK(T, m)
    /\ \A k \in 1 .. Len(T.relgot) : SlotLaid(T, k)
    /\ IsDynamic => \A i \in 1 .. m : T.got_offset[i] # 0 => HasSlot(T, i)

TabInv ==
    /\ phase = "compile" => tables = NoTables
    /\ phase \in Filling => TabOK(tables, Len(syms))
    /\ phase \in Laid => LaidOK(tables, Len(syms))
    /\ phase \in Filling \cup Laid => to_dynsym \in [1 .. Len(syms) -> Nat]

LaidOwn(T, n, d) ==
    /\ d.value # 0
    /\ \/ d.value = sh_addr[Program[n].sec] + Program[n].value
       \/ \E v : d.value = sh_addr[Program[n].sec] + v /\ OwnJump(T, n, v)

LaidCall(T, n) ==
    /\ Len(T.dynsym) \in Nat /\ DOMAIN T.relgot = 1 .. Len(T.relgot)
    /\ DOMAIN T.plt = 1 .. Len(T.plt) /\ Len(T.plt) \in Nat
    /\ \E k \in 1 .. Len(T.dynsym) :
        /\ T.dynsym[k].name = n /\ T.dynsym[k].sec # "undef"
        /\ \A j \in k .. Len(T.dynsym) :
              T.dynsym[j].name = n /\ T.dynsym[j].sec # "undef" => LaidOwn(T, n, T.dynsym[j])

CallInv ==
    IsExe =>
    /\ phase \in {"got", "layout"} => \A n \in Wanted : CallOK(tables, n)
    /\ phase \in {"symbols", "text", "data", "write", "load"} \/ (phase = "done" /\ ~ refused) =>
          \A n \in Wanted : LaidCall(tables, n)

\* The entries of the section s that are kept.
CountedTo(s, k) == Cardinality({j \in 1 .. k : IsCounted(rels[s][j])})

CountInv ==
    /\ reserved \in [Sections -> Nat] /\ kept \in [Sections -> Nat]
    /\ out # "dll" => \A s \in Sections : reserved[s] = 0
    /\ \A s \in Sections : phase \in {"symbols", "text", "data", "write", "load"} =>
          IF Pending(s) THEN out = "dll" => reserved[s] = CountedTo(s, Len(rels[s]))
          ELSE kept[s] = reserved[s]

IInv == PhaseInv /\ ProgInv /\ TabInv /\ CallInv /\ CountInv

-----------------------------------------------------------------------------
(* What the parts of the invariant depend on                               *)

LEMMA LaidCallFrame ==
    ASSUME tables' = tables, NEW n
    PROVE  LaidCall(tables, n)' <=> LaidCall(tables, n)
  BY DEF LaidCall, LaidOwn, OwnJump

LEMMA Frame ==
    ASSUME syms' = syms, out' = out, NEW m, NEW T
    PROVE  /\ SymsOK(m)' <=> SymsOK(m)
           /\ SymsFresh(m)' <=> SymsFresh(m)
           /\ TabOK(T, m)' <=> TabOK(T, m)
           /\ LaidOK(T, m)' <=> LaidOK(T, m)
<1>2. SymsOK(m)' <=> SymsOK(m)
  BY DEF SymsOK
<1>3. SymsFresh(m)' <=> SymsFresh(m)
  BY DEF SymsFresh
<1>4. \A i : HasSlot(T, i)' <=> HasSlot(T, i)
  BY DEF HasSlot
<1>5. IsDynamic' <=> IsDynamic
  BY DEF IsDynamic, IsExe
<1>6. TabOK(T, m)' <=> TabOK(T, m)
  BY <1>4, <1>5 DEF TabOK
<1>7. LaidOK(T, m)' <=> LaidOK(T, m)
  BY <1>4, <1>5 DEF LaidOK
<1> QED
  BY <1>2, <1>3, <1>6, <1>7

LEMMA SymsLen ==
    ASSUME IInv
    PROVE  \E m \in Nat : /\ m = Len(syms) /\ SymsOK(m)
                          /\ phase \in {"compile"} \cup Filling => SymsFresh(m)
<1>1. PICK m : m = Len(syms)
  OBVIOUS
<1>2. SymsOK(m) /\ (phase \in {"compile"} \cup Filling => SymsFresh(m))
  BY <1>1 DEF IInv, ProgInv
<1>3. m \in Nat
  BY <1>1, <1>2 DEF SymsOK
<1> QED
  BY <1>1, <1>2, <1>3

LEMMA InitInv ==
    ASSUME ElfLinkAssumption, Init PROVE IInv
<1> USE DEF Init
<1>1. PhaseInv
  BY DEF PhaseInv, Phases, ElfLinkAssumption
<1>2. ProgInv
  BY DEF ProgInv, SymsOK, SymsFresh, RelsOK, Sections
<1>3. TabInv /\ CallInv
  BY DEF TabInv, CallInv, Filling, Laid
<1>4. CountInv
  BY DEF CountInv, Sections
<1> QED
  BY <1>1, <1>2, <1>3, <1>4 DEF IInv

-----------------------------------------------------------------------------
(* The units and object files                                              *)

LEMMA SymsAppended ==
    ASSUME ElfLinkAssumption, NEW m \in Nat, SymsOK(m), SymsFresh(m), NEW n \in Names,
           \A i \in 1 .. m : syms[i].name # n, syms' = Append(syms, NewSym(n))
    PROVE  SymsOK(m + 1)' /\ SymsFresh(m + 1)' /\ Len(syms') = m + 1
<1>1. PICK s : s = NewSym(n)
  OBVIOUS
<1>2. PICK p : p = Program[n] /\ p \in [type : Types, bind : Binds, sec : Places, value : Nat]
  BY DEF ElfLinkAssumption, Types, Binds, Places
<1>3. s \in SymSet /\ s.name = n /\ s.type = p.type /\ s.bind = p.bind /\ s.sec = p.sec
      /\ s.value = p.value
  BY <1>1, <1>2 DEF NewSym, SymSet
<1>4. PICK q \in Seq(SymSet) : q = syms /\ Len(q) = m
  BY DEF SymsOK
<1>5. /\ syms' \in Seq(SymSet) /\ Len(syms') = m + 1 /\ syms'[m + 1] = s
      /\ \A k \in 1 .. m : syms'[k] = syms[k]
  BY <1>1, <1>3, <1>4, Appended
<1>6. ASSUME NEW i \in 1 .. m + 1, NEW j \in 1 .. m + 1, syms'[i].name = syms'[j].name
      PROVE  i = j
  <2>1. i \in 1 .. m \/ i = m + 1
    OBVIOUS
  <2>2. j \in 1 .. m \/ j = m + 1
    OBVIOUS
  <2> QED
    BY <1>3, <1>5, <1>6, <2>1, <2>2, SMTT(30) DEF SymsOK
<1>7. ASSUME NEW i \in 1 .. m + 1
      PROVE  /\ syms'[i].type = Program[syms'[i].name].type
             /\ syms'[i].bind = Program[syms'[i].name].bind
             /\ syms'[i].sec = Program[syms'[i].name].sec
             /\ syms'[i].value = Program[syms'[i].name].value
  <2>1. CASE i \in 1 .. m
    BY <1>5, <2>1 DEF SymsOK, SymsFresh
  <2>2. CASE i = m + 1
    BY <1>2, <1>3, <1>5, <2>2
  <2>3. i \in 1 .. m \/ i = m + 1
    OBVIOUS
  <2> QED
    BY <2>1, <2>2, <2>3
<1>8. SymsOK(m + 1)'
  BY <1>5, <1>6, <1>7 DEF SymsOK
<1>9. SymsFresh(m + 1)'
  BY <1>7 DEF SymsFresh
<1> QED
  BY <1>5, <1>8, <1>9

LEMMA RelsGrow ==
    ASSUME NEW m \in Nat, NEW w \in Nat, NEW l \in Nat, NEW v \in Nat, m <= l, w <= v,
           NEW q \in Seq(RelSet(m, w))
    PROVE  q \in Seq(RelSet(l, v))
<1>1. RelSet(m, w) \subseteq RelSet(l, v)
  BY DEF RelSet
<1> QED
  BY <1>1

LEMMA ReferInv ==
    ASSUME ElfLinkAssumption, IInv, NEW u \in Uses, Refer(u)
    PROVE  IInv'
<1>1. /\ phase = "compile" /\ phase' = phase /\ out' = out /\ tables' = tables
      /\ to_dynsym' = to_dynsym /\ reserved' = reserved /\ kept' = kept
      /\ runtime' = runtime /\ refused' = refused
  BY DEF Refer
<1>2. u.sec \in Sections /\ u.type \in RefTypes /\ u.name \in Names
  BY DEF ElfLinkAssumption, Sections, RefTypes
<1>3. PICK m \in Nat : m = Len(syms) /\ SymsOK(m) /\ SymsFresh(m)
  BY <1>1, SymsLen
<1>4. \A s \in Sections : Pending(s) /\ Pending(s)'
  BY <1>1 DEF Pending
<1> PICK i : i = IF SymOf(u.name) = 0 THEN Len(syms) + 1 ELSE SymOf(u.name)
  OBVIOUS
<1>5. PICK off : off = Len(rels[u.sec]) + 1
  OBVIOUS
<1> PICK e : e = [off |-> off, type |-> u.type, sym |-> i, addend |-> 0]
  OBVIOUS
<1>6. /\ syms' = IF i > Len(syms) THEN Append(syms, NewSym(u.name)) ELSE syms
      /\ rels' = [rels EXCEPT ![u.sec] = Append(@, e)]
      /\ image' = [image EXCEPT ![u.sec] = Append(@, 0)]
  BY <1>5 DEF Refer
<1>7. PICK l \in Nat : /\ Len(syms') = l /\ m <= l /\ i \in 1 .. l
                       /\ SymsOK(l)' /\ SymsFresh(l)'
  <2>0. DOMAIN syms = 1 .. m /\ Len(syms) = m
    BY <1>3 DEF SymsOK
  <2>1. CASE SymOf(u.name) = 0
    <3>1. \A j \in 1 .. m : syms[j].name # u.name
      BY <2>0, <2>1, SymOfIs
    <3>2. i = m + 1 /\ syms' = Append(syms, NewSym(u.name))
      BY <1>3, <1>6, <2>1
    <3>3. SymsOK(m + 1)' /\ SymsFresh(m + 1)' /\ Len(syms') = m + 1
      BY <1>2, <1>3, <3>1, <3>2, SymsAppended
    <3> QED
      BY <3>2, <3>3
  <2>2. CASE SymOf(u.name) # 0
    <3>1. SymOf(u.name) \in 1 .. m
      BY <2>0, <2>2, SymOfIs
    <3>2. i \in 1 .. m
      BY <2>2, <3>1
    <3>3. syms' = syms
      BY <1>3, <1>6, <3>2
    <3>4. SymsOK(m)' /\ SymsFresh(m)'
      BY <1>1, <1>3, <3>3, Frame
    <3> QED
      BY <1>3, <3>2, <3>3, <3>4
  <2> QED
    BY <2>1, <2>2
<1>8. DOMAIN rels' = Sections /\ DOMAIN image' = Sections
  BY <1>6 DEF IInv, ProgInv
<1>9. ASSUME NEW s \in Sections PROVE RelsOK(s)'
  <2>1. PICK w \in Nat : /\ w = Len(image[s]) /\ Len(rels[s]) = w
                         /\ rels[s] \in Seq(RelSet(m, w)) /\ image[s] \in Seq(Int)
    BY <1>3, <1>4 DEF IInv, ProgInv, RelsOK
  <2>2. CASE s # u.sec
    <3>1. rels'[s] = rels[s] /\ image'[s] = image[s]
      BY <1>6, <2>2 DEF IInv, ProgInv
    <3>2. rels[s] \in Seq(RelSet(l, w))
      BY <1>7, <2>1, RelsGrow
    <3> QED
      BY <1>7, <2>1, <3>1, <3>2 DEF RelsOK
  <2>3. CASE s = u.sec
    <3>1. rels'[s] = Append(rels[s], e) /\ image'[s] = Append(image[s], 0)
      BY <1>2, <1>6, <2>3 DEF IInv, ProgInv
    <3>2. rels[s] \in Seq(RelSet(l, w + 1))
      BY <1>7, <2>1, RelsGrow
    <3>3. e \in RelSet(l, w + 1)
      <4>1. off = w + 1 /\ off \in 1 .. w + 1
        BY <1>5, <2>1, <2>3
      <4> QED
        BY <1>2, <1>7, <4>1 DEF RelSet
    <3>4. rels'[s] \in Seq(RelSet(l, w + 1)) /\ Len(rels'[s]) = w + 1
      BY <2>1, <3>1, <3>2, <3>3
    <3>5. image'[s] \in Seq(Int) /\ Len(image'[s]) = w + 1
      BY <2>1, <3>1
    <3> QED
      BY <1>7, <3>4, <3>5 DEF RelsOK
  <2> QED
    BY <2>2, <2>3
<1>10. PhaseInv'
  <2>1. phase' = phase /\ out' = out /\ IsDynamic' = IsDynamic
    BY <1>1 DEF IsDynamic, IsExe
  <2> QED
    BY <2>1 DEF IInv, PhaseInv
<1>11. ProgInv'
  BY <1>1, <1>7, <1>8, <1>9 DEF IInv, ProgInv
<1>12. TabInv' /\ CallInv'
  BY <1>1 DEF IInv, TabInv, CallInv, Filling, Laid
<1>13. CountInv'
  BY <1>1 DEF IInv, CountInv
<1> QED
  BY <1>10, <1>11, <1>12, <1>13 DEF IInv

LEMMA DefineInv ==
    ASSUME ElfLinkAssumption, IInv, NEW n \in Names, Define(n)
    PROVE  IInv'
<1>1. /\ phase = "compile" /\ phase' = phase /\ out' = out /\ tables' = tables
      /\ to_dynsym' = to_dynsym /\ reserved' = reserved /\ kept' = kept
      /\ runtime' = runtime /\ refused' = refused /\ rels' = rels /\ image' = image
      /\ SymOf(n) = 0 /\ syms' = Append(syms, NewSym(n))
  BY DEF Define
<1>3. PICK m \in Nat : m = Len(syms) /\ SymsOK(m) /\ SymsFresh(m)
  BY <1>1, SymsLen
<1>4. \A s \in Sections : Pending(s) /\ Pending(s)'
  BY <1>1 DEF Pending
<1>7. SymsOK(m + 1)' /\ SymsFresh(m + 1)' /\ Len(syms') = m + 1
  <2>0. DOMAIN syms = 1 .. m /\ Len(syms) = m
    BY <1>3 DEF SymsOK
  <2>1. \A j \in 1 .. m : syms[j].name # n
    BY <1>1, <2>0, SymOfIs
  <2> QED
    BY <1>1, <1>3, <2>1, SymsAppended
<1>9. ASSUME NEW s \in Sections PROVE RelsOK(s)'
  <2>1. PICK w \in Nat : /\ w = Len(image[s]) /\ Len(rels[s]) = w
                         /\ rels[s] \in Seq(RelSet(m, w)) /\ image[s] \in Seq(Int)
    BY <1>3, <1>4 DEF IInv, ProgInv, RelsOK
  <2>2. PICK l \in Nat : l = m + 1 /\ m <= l
    OBVIOUS
  <2>3. rels[s] \in Seq(RelSet(l, w))
    BY <2>1, <2>2, RelsGrow
  <2> QED
    BY <1>1, <1>7, <2>1, <2>2, <2>3 DEF RelsOK
<1>10. PhaseInv'
  <2>1. phase' = phase /\ out' = out /\ IsDynamic' = IsDynamic
    BY <1>1 DEF IsDynamic, IsExe
  <2> QED
    BY <2>1 DEF IInv, PhaseInv
<1>11. ProgInv'
  BY <1>1, <1>7, <1>9 DEF IInv, ProgInv
<1>12. TabInv' /\ CallInv'
  BY <1>1 DEF IInv, TabInv, CallInv, Filling, Laid
<1>13. CountInv'
  BY <1>1 DEF IInv, CountInv
<1> QED
  BY <1>10, <1>11, <1>12, <1>13 DEF IInv

-----------------------------------------------------------------------------
(* The tables are filled                                                   *)

LEMMA ProgKept ==
    ASSUME IInv, syms' = syms, rels' = rels, image' = image, runtime' = runtime, out' = out,
           phase' \in {"compile"} \cup Filling => phase \in {"compile"} \cup Filling,
           \A s \in Sections : Pending(s)' => Pending(s)
    PROVE  ProgInv'
<1>1. PICK m \in Nat : /\ m = Len(syms) /\ SymsOK(m)
                       /\ phase \in {"compile"} \cup Filling => SymsFresh(m)
  BY SymsLen
<1>2. SymsOK(m)' /\ (phase' \in {"compile"} \cup Filling => SymsFresh(m)')
  BY <1>1, Frame
<1>3. Len(syms') = m
  BY <1>1
<1>4. SymsOK(Len(syms))' /\ (phase' \in {"compile"} \cup Filling => SymsFresh(Len(syms))')
  BY <1>2, <1>3
<1>5. \A s \in Sections : Pending(s)' => RelsOK(s)'
  BY DEF IInv, ProgInv, RelsOK
<1> QED
  BY <1>4, <1>5 DEF IInv, ProgInv

LEMMA StartOK ==
    ASSUME NEW m \in Nat, NEW z, z = [i \in 1 .. m |-> 0]
    PROVE  TabOK([NoTables EXCEPT !.got_offset = z], m)
<1>1. PICK T : T = [NoTables EXCEPT !.got_offset = z]
  OBVIOUS
<1>2. /\ T.dynsym = <<>> /\ T.got = <<0, 0, 0>> /\ T.relgot = <<>> /\ T.plt = <<>> /\ T.bss = 0
      /\ T.relbss = <<>> /\ T.got_offset = z
  BY <1>1 DEF NoTables
<1>3. T \in TableSet(m)
  <2>1. T = [dynsym |-> <<>>, got |-> <<0, 0, 0>>, relgot |-> <<>>, plt |-> <<>>,
             bss |-> 0, relbss |-> <<>>, got_offset |-> z]
    BY <1>1 DEF NoTables
  <2>2. \A S : <<>> \in Seq(S)
    OBVIOUS
  <2>3. <<0, 0, 0>> \in Seq(Int) /\ z \in [1 .. m -> Nat]
    OBVIOUS
  <2> QED
    BY <2>1, <2>2, <2>3 DEF TableSet
<1>4. GotOK(T, m)
  <2>1. Len(T.got) = 3
    BY <1>2
  <2>2. \A i \in 1 .. m : T.got_offset[i] = 0
    BY <1>2
  <2> QED
    BY <2>1, <2>2 DEF GotOK
<1>5. Len(T.relgot) = 0 /\ \A i \in 1 .. m : T.got_offset[i] = 0
  BY <1>2
<1> QED
  BY <1>1, <1>3, <1>4, <1>5 DEF TabOK

LEMMA EndOfInputInv ==
    ASSUME IInv, EndOfInput PROVE IInv'
<1>1. /\ phase = "compile" /\ phase' = (IF IsDynamic THEN "bind" ELSE "got")
      /\ tables' = [tables EXCEPT !.got_offset = [i \in DOMAIN syms |-> 0]]
      /\ to_dynsym' = [i \in DOMAIN syms |-> 0]
      /\ out' = out /\ refs' = refs /\ syms' = syms /\ rels' = rels /\ reserved' = reserved
      /\ kept' = kept /\ image' = image /\ runtime' = runtime /\ refused' = refused
  BY DEF EndOfInput
<1>2. IsDynamic' = IsDynamic /\ IsExe' = IsExe
  BY <1>1 DEF IsDynamic, IsExe
<1>3. PICK m \in Nat : m = Len(syms) /\ SymsOK(m)
  BY SymsLen
<1>4. DOMAIN syms = 1 .. m /\ tables = NoTables
  BY <1>1, <1>3 DEF SymsOK, IInv, TabInv
<1>5. PhaseInv'
  BY <1>1, <1>2 DEF IInv, PhaseInv, Phases
<1>6. ProgInv'
  <2>1. \A s \in Sections : Pending(s)
    BY <1>1 DEF Pending
  <2> QED
    BY <1>1, <2>1, ProgKept
<1>7. TabInv'
  <2>1. PICK z : z = [i \in 1 .. m |-> 0]
    OBVIOUS
  <2>2. PICK T : T = [NoTables EXCEPT !.got_offset = z]
    OBVIOUS
  <2>3. TabOK(T, m)
    BY <2>1, <2>2, StartOK
  <2>4. TabOK(T, m)'
    BY <1>1, <2>3, Frame
  <2>5. tables' = T /\ Len(syms') = m
    BY <1>1, <1>3, <1>4, <2>1, <2>2
  <2>6. TabOK(tables, Len(syms))'
    BY <2>4, <2>5
  <2>7. to_dynsym' \in [1 .. Len(syms') -> Nat]
    BY <1>1, <1>4, <2>5
  <2>8. phase' \in Filling /\ phase' \notin Laid /\ phase' # "compile"
    BY <1>1 DEF Filling, Laid
  <2> QED
    BY <2>6, <2>7, <2>8 DEF TabInv
<1>8. CallInv'
  BY <1>1, <1>2 DEF CallInv, IsDynamic
<1>9. CountInv'
  BY <1>1, <1>2 DEF IInv, CountInv
<1> QED
  BY <1>5, <1>6, <1>7, <1>8, <1>9 DEF IInv

LEMMA WantedKept ==
    ASSUME syms' = syms PROVE Wanted' = Wanted
<1>1. \A n : SymOf(n)' = SymOf(n)
  BY DEF SymOf, SelectInSeq
<1> QED
  BY <1>1 DEF Wanted, IsHere

LEMMA BindExeInv ==
    ASSUME ElfLinkAssumption, IInv, BindExe PROVE IInv'
<1>1. /\ phase = "bind" /\ IsExe
      /\ out' = out /\ refs' = refs /\ syms' = syms /\ rels' = rels /\ reserved' = reserved
      /\ kept' = kept /\ image' = image /\ runtime' = runtime /\ to_dynsym' = to_dynsym
  BY DEF BindExe
<1>2. IsDynamic' = IsDynamic /\ IsExe' = IsExe
  BY <1>1 DEF IsDynamic, IsExe
<1>3. PICK m \in Nat : m = Len(syms) /\ SymsOK(m)
  BY SymsLen
<1>4. \/ phase' = "done" /\ refused' /\ tables' = tables
      \/ phase' = "got" /\ tables' = Exported(Bound(tables))
  BY Zenon DEF BindExe
<1>5. PhaseInv'
  BY <1>1, <1>2, <1>4 DEF IInv, PhaseInv, Phases
<1>6. ProgInv'
  <2>1. \A s \in Sections : Pending(s)
    BY <1>1 DEF Pending, Filling
  <2>2. phase \in Filling
    BY <1>1 DEF Filling
  <2> QED
    BY <1>1, <2>1, <2>2, ProgKept
<1>7. TabOK(tables, m) /\ to_dynsym \in [1 .. m -> Nat]
  BY <1>1, <1>3 DEF IInv, TabInv, Filling
<1>8. ASSUME phase' = "done", refused' PROVE TabInv' /\ CallInv'
  BY <1>8, <1>1, <1>2 DEF TabInv, CallInv, Filling, Laid
<1>9. ASSUME phase' = "got", tables' = Exported(Bound(tables)) PROVE TabInv' /\ CallInv'
  <2>1. PICK T \in Good(m) : T = tables
    BY <1>7 DEF Good, TabOK
  <2>2. Bound(T) \in Good(m)
    BY <1>3, BoundOK
  <2>3. PICK U \in Good(m) : U = Bound(T)
    BY <2>2
  <2>4. Exported(U) \in Serving(m, Wanted)
    BY <1>3, ExportedOK
  <2>5. PICK X : X = Exported(U) /\ X \in Serving(m, Wanted)
    BY <2>4
  <2>6. TabOK(X, m)
    BY <2>5 DEF Serving, Good
  <2>7. TabOK(X, m)'
    BY <1>1, <2>6, Frame
  <2>8. tables' = X /\ Len(syms') = m
    BY <1>1, <1>3, <1>9, <2>1, <2>3, <2>5
  <2>9. TabInv'
    <3>1. TabOK(tables, Len(syms))'
      BY <2>7, <2>8
    <3>2. to_dynsym' \in [1 .. Len(syms') -> Nat]
      BY <1>1, <1>7, <2>8
    <3> QED
      BY <1>9, <3>1, <3>2 DEF TabInv, Laid
  <2>10. CallInv'
    <3>1. SymsFresh(m)
      BY <1>1, <1>3 DEF IInv, ProgInv, Filling
    <3>2. \A n \in Wanted : CallOK(X, n)
      BY <2>5, <3>1 DEF Serving
    <3>3. \A n \in Wanted' : CallOK(tables', n)
      BY <1>1, <2>8, <3>2, WantedKept
    <3>4. \A n \in Wanted' : CallOK(tables, n)'
      BY <3>3 DEF CallOK, IsOwn, OwnJump
    <3> QED
      BY <1>9, <3>4 DEF CallInv
  <2> QED
    BY <2>9, <2>10
<1>10. TabInv' /\ CallInv'
  BY <1>4, <1>8, <1>9
<1>11. CountInv'
  BY <1>1, <1>4, <1>2 DEF IInv, CountInv
<1> QED
  BY <1>5, <1>6, <1>10, <1>11 DEF IInv

LEMMA FindIs ==
    ASSUME NEW m \in Nat, NEW T \in TableSet(m), NEW n
    PROVE  find_dynsym(T, n) = 0 \/ find_dynsym(T, n) \in 1 .. Len(T.dynsym)
<1>1. PICK l \in Nat : l = Len(T.dynsym)
  BY DEF TableSet
<1> DEFINE I == {i \in 1 .. l : T.dynsym[i].name = n /\ T.dynsym[i].bind # "local"}
<1>2. find_dynsym(T, n) = IF I # {} THEN Max(I) ELSE 0
  BY <1>1 DEF find_dynsym, SelectLastInSeq
<1>3. I \in SUBSET Nat /\ \A i \in I : i <= l
  OBVIOUS
<1>4. I # {} => Max(I) \in I
  BY <1>3, MaxIs
<1> QED
  BY <1>1, <1>2, <1>4

LEMMA BindDllInv ==
    ASSUME ElfLinkAssumption, IInv, BindDll PROVE IInv'
<1>1. /\ phase = "bind" /\ out = "dll" /\ phase' = "got" /\ tables' = ExportedDll(tables)
      /\ to_dynsym' = [i \in DOMAIN syms |-> DynIndex(tables', i)]
      /\ out' = out /\ refs' = refs /\ syms' = syms /\ rels' = rels /\ reserved' = reserved
      /\ kept' = kept /\ image' = image /\ runtime' = runtime /\ refused' = refused
  BY DEF BindDll
<1>2. IsDynamic' = IsDynamic /\ IsExe' = IsExe
  BY <1>1 DEF IsDynamic, IsExe
<1>3. PICK m \in Nat : m = Len(syms) /\ SymsOK(m)
  BY SymsLen
<1>4. PhaseInv'
  BY <1>1, <1>2 DEF IInv, PhaseInv, Phases
<1>5. ProgInv'
  <2>1. \A s \in Sections : Pending(s)
    BY <1>1 DEF Pending, Filling
  <2>2. phase \in Filling
    BY <1>1 DEF Filling
  <2> QED
    BY <1>1, <2>1, <2>2, ProgKept
<1>6. TabOK(tables, m)
  BY <1>1, <1>3 DEF IInv, TabInv, Filling
<1>7. PICK T \in Good(m) : T = tables
  BY <1>6 DEF Good, TabOK
<1>8. ExportedDll(T) \in Good(m)
  BY <1>3, ExportedDllOK
<1>9. PICK X \in Good(m) : X = ExportedDll(T)
  BY <1>8
<1>10. TabOK(X, m)
  BY <1>9 DEF Good
<1>11. TabOK(X, m)'
  BY <1>1, <1>10, Frame
<1>12. tables' = X /\ Len(syms') = m
  BY <1>1, <1>3, <1>7, <1>9
<1>13. to_dynsym' \in [1 .. m -> Nat]
  <2>1. DOMAIN syms = 1 .. m
    BY <1>3 DEF SymsOK
  <2>2. ASSUME NEW i \in 1 .. m PROVE DynIndex(X, i) \in Nat
    <3>1. PICK n : n = syms[i].name
      OBVIOUS
    <3>2. X \in TableSet(m)
      BY <1>9 DEF Good
    <3>3. find_dynsym(X, n) = 0 \/ find_dynsym(X, n) \in 1 .. Len(X.dynsym)
      BY <3>2, FindIs
    <3>4. Len(X.dynsym) \in Nat
      BY <3>2 DEF TableSet
    <3> QED
      BY <3>1, <3>3, <3>4 DEF DynIndex
  <2> QED
    BY <1>1, <1>12, <2>1, <2>2
<1>14. TabInv'
  <2>1. TabOK(tables, Len(syms))'
    BY <1>11, <1>12
  <2>2. to_dynsym' \in [1 .. Len(syms') -> Nat]
    BY <1>12, <1>13
  <2> QED
    BY <1>1, <2>1, <2>2 DEF TabInv, Laid
<1>15. CallInv'
  BY <1>1 DEF CallInv, IsExe
<1>16. CountInv'
  BY <1>1, <1>2 DEF IInv, CountInv
<1> QED
  BY <1>4, <1>5, <1>14, <1>15, <1>16 DEF IInv

LEMMA TabLaid ==
    ASSUME NEW m, NEW T, TabOK(T, m) PROVE LaidOK(T, m)
  BY DEF TabOK, LaidOK, SlotOK, SlotLaid

LEMMA SeqWider ==
    ASSUME NEW A, NEW B, A \subseteq B, NEW q \in Seq(A) PROVE q \in Seq(B)
  OBVIOUS

LEMMA Joined ==
    ASSUME NEW A, NEW p \in Seq(A), NEW q \in Seq(A)
    PROVE  p \o q \in Seq(A) /\ \A k \in DOMAIN (p \o q) : (p \o q)[k] \in A
  OBVIOUS

LEMMA BuildInv ==
    ASSUME IInv, build_got_entries PROVE IInv'
<1>1. /\ phase = "got"
      /\ tables' = EntriesFor(tables, rels["text"] \o rels["data"])
      /\ out' = out /\ refs' = refs /\ syms' = syms /\ rels' = rels /\ reserved' = reserved
      /\ kept' = kept /\ image' = image /\ runtime' = runtime /\ refused' = refused
      /\ to_dynsym' = to_dynsym
  BY DEF build_got_entries
<1>2. IsDynamic' = IsDynamic /\ IsExe' = IsExe
  BY <1>1 DEF IsDynamic, IsExe
<1>3. PICK m \in Nat : m = Len(syms) /\ SymsOK(m) /\ SymsFresh(m)
  BY <1>1, SymsLen DEF Filling
<1>4. \/ phase' = "layout" /\ IsDynamic
      \/ phase' \in {"size", "symbols"} /\ ~ IsDynamic
  <2>1. IsDynamic => out # "memory"
    BY DEF IsDynamic, IsExe
  <2>2. phase' = CASE IsDynamic -> "layout" [] out = "memory" -> "size" [] OTHER -> "symbols"
    BY DEF build_got_entries
  <2> QED
    BY <2>1, <2>2
<1>5. PhaseInv'
  BY <1>1, <1>2, <1>4 DEF IInv, PhaseInv, Phases
<1>6. \A s \in Sections : Pending(s) /\ Pending(s)'
  BY <1>1, <1>4 DEF Pending, Filling
<1>7. ProgInv'
  <2>1. phase \in Filling
    BY <1>1 DEF Filling
  <2> QED
    BY <1>1, <1>6, <2>1, ProgKept
<1>8. TabOK(tables, m) /\ to_dynsym \in [1 .. m -> Nat]
  BY <1>1, <1>3 DEF IInv, TabInv, Filling
<1>9. PICK C : C = IF IsExe THEN Wanted ELSE {}
  OBVIOUS
<1>10. \A n \in C : CallOK(tables, n)
  BY <1>1, <1>9 DEF IInv, CallInv
<1>11. PICK T : T = tables
  OBVIOUS
<1>12. T \in Serving(m, C)
  BY <1>8, <1>10, <1>11 DEF Serving, Good, TabOK
<1>13. PICK rs : rs = rels["text"] \o rels["data"]
  OBVIOUS
<1> PICK R : R = [sym : 1 .. m, type : RefTypes, off : Nat, addend : Int]
  OBVIOUS
<1>14. rs \in Seq(R) /\ \A k \in DOMAIN rs : rs[k] \in R
  <2>1. ASSUME NEW s \in Sections PROVE rels[s] \in Seq(R)
    <3>1. PICK w : w = Len(image[s])
      OBVIOUS
    <3>2. rels[s] \in Seq(RelSet(m, w)) /\ w \in Nat
      BY <1>3, <1>6, <3>1 DEF IInv, ProgInv, RelsOK
    <3>3. RelSet(m, w) \subseteq R
      BY <3>2 DEF RelSet
    <3>4. PICK A, q : A = RelSet(m, w) /\ q = rels[s]
      OBVIOUS
    <3>5. q \in Seq(A) /\ A \subseteq R
      BY <3>2, <3>3, <3>4
    <3>6. q \in Seq(R)
      BY <3>5, SeqWider
    <3> QED
      BY <3>4, <3>6
  <2>2. rels["text"] \in Seq(R) /\ rels["data"] \in Seq(R)
    BY <2>1 DEF Sections
  <2> QED
    BY <1>13, <2>2, Joined
<1>15. \A k \in DOMAIN rs : rs[k].sym \in 1 .. m
  BY <1>14
<1>16. EntriesFor(T, rs) \in Serving(m, C)
  BY <1>3, <1>12, <1>14, <1>15, EntriesForOK
<1>17. PICK X : X = EntriesFor(T, rs) /\ X \in Serving(m, C)
  BY <1>16
<1>18. tables' = X /\ Len(syms') = m
  BY <1>1, <1>3, <1>11, <1>13, <1>17
<1>19. TabOK(X, m) /\ \A n \in C : CallOK(X, n)
  BY <1>3, <1>17 DEF Serving, Good
<1>20. LaidOK(X, m)
  BY <1>19, TabLaid
<1>21. TabOK(X, m)' /\ LaidOK(X, m)'
  BY <1>1, <1>19, <1>20, Frame
<1>22. TabInv'
  <2>1. TabOK(tables, Len(syms))' /\ LaidOK(tables, Len(syms))'
    BY <1>18, <1>21
  <2>2. to_dynsym' \in [1 .. Len(syms') -> Nat]
    BY <1>1, <1>8, <1>18
  <2>3. phase' # "compile"
    BY <1>4
  <2> QED
    BY <2>1, <2>2, <2>3 DEF TabInv
<1>23. CallInv'
  <2>1. IsExe => \A n \in Wanted' : CallOK(tables', n)
    BY <1>1, <1>9, <1>18, <1>19, WantedKept
  <2>2. IsExe' => \A n \in Wanted' : CallOK(tables, n)'
    BY <1>2, <2>1 DEF CallOK, IsOwn, OwnJump
  <2>3. IsExe' => phase' = "layout"
    BY <1>2, <1>4 DEF IsDynamic
  <2> QED
    BY <2>2, <2>3 DEF CallInv
<1>24. CountInv'
  <2>1. phase' \in {"symbols", "text", "data", "write", "load"} => out # "dll"
    BY <1>4 DEF IsDynamic
  <2> QED
    BY <1>1, <1>6, <2>1 DEF IInv, CountInv
<1> QED
  BY <1>5, <1>7, <1>22, <1>23, <1>24 DEF IInv

-----------------------------------------------------------------------------
(* The addresses of the sections                                           *)

LEMMA AddressIs ==
    ASSUME NEW d \in DynSyms
    PROVE  DynValue(d) \in Nat /\ (d.sec # "undef" => DynValue(d) = sh_addr[d.sec] + d.value
                                                      /\ DynValue(d) # 0)
<1>1. d.sec \in DynPlaces /\ d.value \in Nat
  BY DEF DynSyms
<1>2. \A s \in DynPlaces \ {"undef"} : sh_addr[s] \in Nat /\ sh_addr[s] > 0
  BY DEF sh_addr, DynPlaces, Places
<1>3. sh_addr["plt"] = 500
  BY DEF sh_addr
<1>4. CASE d.sec = "undef"
  <2>1. DynValue(d) = IF d.value # 0 THEN d.value + 500 ELSE 0
    BY <1>3, <1>4 DEF DynValue
  <2> QED
    BY <1>1, <1>4, <2>1
<1>5. CASE d.sec # "undef"
  <2>1. PICK a \in Nat : a = sh_addr[d.sec] /\ a > 0
    BY <1>1, <1>2, <1>5
  <2>2. DynValue(d) = d.value + a
    BY <1>5, <2>1 DEF DynValue
  <2> QED
    BY <1>1, <2>1, <2>2
<1> QED
  BY <1>4, <1>5

\* U is T with other values of the dynamic symbols.
Revalued(T, m, U) ==
    /\ U \in TableSet(m)
    /\ U.got = T.got /\ U.relgot = T.relgot /\ U.plt = T.plt /\ U.bss = T.bss
    /\ U.relbss = T.relbss /\ U.got_offset = T.got_offset
    /\ Len(U.dynsym) = Len(T.dynsym) /\ Len(T.dynsym) \in Nat
    /\ \A k \in 1 .. Len(T.dynsym) :
          U.dynsym[k].name = T.dynsym[k].name /\ U.dynsym[k].sec = T.dynsym[k].sec

LEMMA RevaluedOK ==
    ASSUME NEW m \in Nat, NEW T, LaidOK(T, m), NEW U, Revalued(T, m, U)
    PROVE  LaidOK(U, m) /\ \A n, v : OwnJump(T, n, v) => OwnJump(U, n, v)
<1>1. GotOK(U, m)
  BY DEF LaidOK, Revalued, GotOK
<1>2. ASSUME NEW k \in 1 .. Len(T.relgot)
      PROVE  /\ SlotLaid(U, k)
             /\ U.relgot[k] = T.relgot[k]
             /\ U.dynsym[U.relgot[k].sym].name = T.dynsym[T.relgot[k].sym].name
  <2>1. SlotLaid(T, k) /\ U.relgot = T.relgot /\ U.plt = T.plt
    BY DEF LaidOK, Revalued
  <2>2. PICK y \in 1 .. Len(T.dynsym) : y = T.relgot[k].sym
    BY <2>1 DEF SlotLaid
  <2>3. U.dynsym[y].name = T.dynsym[y].name /\ y \in 1 .. Len(U.dynsym)
    BY DEF Revalued
  <2>4. SlotLaid(U, k)
    BY <2>1, <2>2, <2>3 DEF SlotLaid
  <2> QED
    BY <2>1, <2>2, <2>3, <2>4
<1>3. /\ U.relgot = T.relgot /\ U.got_offset = T.got_offset /\ U \in TableSet(m)
      /\ U.plt = T.plt
  BY DEF Revalued
<1>4. ASSUME NEW i, HasSlot(T, i) PROVE HasSlot(U, i)
  BY <1>2, <1>3, <1>4 DEF HasSlot
<1>5. ASSUME NEW n, NEW v, OwnJump(T, n, v) PROVE OwnJump(U, n, v)
  BY <1>2, <1>3, <1>5 DEF OwnJump
<1>6. LaidOK(U, m)
  BY <1>1, <1>2, <1>3, <1>4 DEF LaidOK
<1> QED
  BY <1>5, <1>6

LEMMA FunctionIsSeq ==
    ASSUME NEW S, NEW l \in Nat, NEW q \in [1 .. l -> S]
    PROVE  q \in Seq(S) /\ Len(q) = l /\ DOMAIN q = 1 .. l
<1>1. q \in Seq(S)
  OBVIOUS
<1>2. Len(q) = l
  OBVIOUS
<1> QED
  BY <1>1, <1>2

LEMMA LayoutIs ==
    ASSUME NEW m \in Nat, NEW T \in TableSet(m), NEW q,
           q = [k \in DOMAIN T.dynsym |-> [T.dynsym[k] EXCEPT !.value = DynValue(T.dynsym[k])]],
           NEW U, U = [T EXCEPT !.dynsym = q]
    PROVE  /\ Revalued(T, m, U)
           /\ \A k \in 1 .. Len(T.dynsym) : /\ T.dynsym[k] \in DynSyms
                                            /\ U.dynsym[k].value = DynValue(T.dynsym[k])
<1>1. PICK d \in Seq(DynSyms), l \in Nat : d = T.dynsym /\ l = Len(d) /\ DOMAIN d = 1 .. l
  <2>1. PICK d \in Seq(DynSyms) : d = T.dynsym
    BY DEF TableSet
  <2> QED
    BY <2>1
<1>2. q = [k \in 1 .. l |-> [d[k] EXCEPT !.value = DynValue(d[k])]]
  BY <1>1
<1>3. ASSUME NEW k \in 1 .. l
      PROVE  /\ d[k] \in DynSyms /\ q[k] \in DynSyms /\ q[k].value = DynValue(d[k])
             /\ q[k].name = d[k].name /\ q[k].sec = d[k].sec
  <2>1. PICK e \in DynSyms : e = d[k]
    BY <1>1
  <2>2. PICK v \in Nat : v = DynValue(e)
    BY <2>1, AddressIs
  <2>3. q[k] = [e EXCEPT !.value = v]
    BY <1>2, <2>1, <2>2
  <2>4. q[k] \in DynSyms
    BY <2>3, SMTT(30) DEF DynSyms
  <2>5. q[k].value = v /\ q[k].name = e.name /\ q[k].sec = e.sec
    BY <2>3 DEF DynSyms
  <2> QED
    BY <2>1, <2>2, <2>4, <2>5
<1>4. q \in Seq(DynSyms) /\ Len(q) = l
  <2>1. DOMAIN q = 1 .. l /\ \A k \in 1 .. l : q[k] \in DynSyms
    BY <1>2, <1>3
  <2>2. q = [k \in 1 .. l |-> q[k]]
    BY <1>2
  <2>3. q \in [1 .. l -> DynSyms]
    BY <2>1, <2>2
  <2> QED
    BY <2>3, FunctionIsSeq
<1>5. /\ U \in TableSet(m) /\ U.dynsym = q
      /\ U.got = T.got /\ U.relgot = T.relgot /\ U.plt = T.plt /\ U.bss = T.bss
      /\ U.relbss = T.relbss /\ U.got_offset = T.got_offset
  BY <1>4 DEF TableSet
<1>6. Revalued(T, m, U)
  BY <1>1, <1>3, <1>4, <1>5 DEF Revalued
<1> QED
  BY <1>1, <1>3, <1>5, <1>6

LEMMA LayoutCall ==
    ASSUME NEW m \in Nat, NEW T, LaidOK(T, m), NEW U, Revalued(T, m, U),
           \A k \in 1 .. Len(T.dynsym) : /\ T.dynsym[k] \in DynSyms
                                         /\ U.dynsym[k].value = DynValue(T.dynsym[k]),
           NEW n, CallOK(T, n)
    PROVE  LaidCall(U, n)
<1>1. PICK k \in 1 .. Len(T.dynsym) :
        /\ T.dynsym[k].name = n /\ T.dynsym[k].sec # "undef"
        /\ \A j \in k .. Len(T.dynsym) :
              T.dynsym[j].name = n /\ T.dynsym[j].sec # "undef" => IsOwn(T, n, T.dynsym[j])
  BY DEF CallOK
<1>2. PICK l \in Nat : l = Len(T.dynsym) /\ l = Len(U.dynsym)
  BY DEF Revalued
<1>3. \A j \in 1 .. l : U.dynsym[j].name = T.dynsym[j].name /\ U.dynsym[j].sec = T.dynsym[j].sec
  BY <1>2 DEF Revalued
<1>4. ASSUME NEW j \in k .. l, U.dynsym[j].name = n, U.dynsym[j].sec # "undef"
      PROVE  LaidOwn(U, n, U.dynsym[j])
  <2>1. j \in 1 .. l
    BY <1>1, <1>2
  <2>2. PICK d \in DynSyms : d = T.dynsym[j] /\ U.dynsym[j].value = DynValue(d)
    BY <1>2, <2>1
  <2>3. d.name = n /\ d.sec # "undef"
    BY <1>3, <1>4, <2>1, <2>2
  <2>4. IsOwn(T, n, d)
    BY <1>1, <1>2, <2>2, <2>3
  <2>5. DynValue(d) = sh_addr[d.sec] + d.value /\ DynValue(d) # 0
    BY <2>3, AddressIs
  <2>6. \A v : OwnJump(T, n, v) => OwnJump(U, n, v)
    BY RevaluedOK
  <2> QED
    BY <2>2, <2>4, <2>5, <2>6 DEF IsOwn, LaidOwn
<1>5. /\ DOMAIN U.relgot = 1 .. Len(U.relgot)
      /\ DOMAIN U.plt = 1 .. Len(U.plt) /\ Len(U.plt) \in Nat
  BY DEF Revalued, TableSet
<1> QED
  BY <1>1, <1>2, <1>3, <1>4, <1>5 DEF LaidCall

LEMMA CountedStep ==
    ASSUME NEW s, NEW k \in Nat, k # 0
    PROVE  /\ CountedTo(s, 0) = 0 /\ CountedTo(s, k - 1) \in Nat /\ CountedTo(s, k - 1) <= k - 1
           /\ CountedTo(s, k) = CountedTo(s, k - 1) + (IF IsCounted(rels[s][k]) THEN 1 ELSE 0)
<1> DEFINE C(l) == {j \in 1 .. l : IsCounted(rels[s][j])}
<1>1. C(0) = {}
  OBVIOUS
<1>2. CountedTo(s, 0) = 0
  BY <1>1, FS_EmptySet DEF CountedTo
<1>3. IsFiniteSet(1 .. k - 1) /\ Cardinality(1 .. k - 1) = k - 1
  BY FS_Interval
<1>4. IsFiniteSet(C(k - 1)) /\ Cardinality(C(k - 1)) <= k - 1
  <2>1. PICK A, B : A = C(k - 1) /\ B = 1 .. k - 1
    OBVIOUS
  <2>2. A \in SUBSET B
    BY <2>1
  <2>3. IsFiniteSet(B) /\ Cardinality(B) = k - 1
    BY <1>3, <2>1
  <2>4. IsFiniteSet(A) /\ Cardinality(A) <= k - 1
    BY <2>2, <2>3, FS_Subset
  <2> QED
    BY <2>1, <2>4
<1>5. Cardinality(C(k - 1)) \in Nat
  BY <1>4, FS_CardinalityType
<1>6. Cardinality(C(k)) = Cardinality(C(k - 1)) + (IF IsCounted(rels[s][k]) THEN 1 ELSE 0)
  <2>1. CASE IsCounted(rels[s][k])
    <3>1. C(k) = C(k - 1) \cup {k} /\ k \notin C(k - 1)
      BY <2>1
    <3>2. PICK A, B : A = C(k - 1) /\ B = C(k)
      OBVIOUS
    <3>3. IsFiniteSet(A) /\ B = A \cup {k} /\ k \notin A
      BY <1>4, <3>1, <3>2
    <3>4. Cardinality(A \cup {k}) = Cardinality(A) + 1
      BY <3>3, FS_AddElement
    <3> QED
      BY <2>1, <3>2, <3>3, <3>4
  <2>2. CASE ~ IsCounted(rels[s][k])
    <3>1. C(k) = C(k - 1)
      BY <2>2
    <3> QED
      BY <1>5, <2>2, <3>1
  <2> QED
    BY <2>1, <2>2
<1> QED
  BY <1>2, <1>4, <1>5, <1>6 DEF CountedTo

LEMMA LayoutInv ==
    ASSUME IInv, Layout PROVE IInv'
<1>1. /\ phase = "layout" /\ phase' = "symbols"
      /\ tables' = [tables EXCEPT !.dynsym =
                      [k \in DOMAIN @ |-> [@[k] EXCEPT !.value = DynValue(tables.dynsym[k])]]]
      /\ reserved' = (IF out # "dll" THEN reserved
           ELSE [s \in Sections |-> Cardinality({k \in DOMAIN rels[s] : IsCounted(rels[s][k])})])
      /\ out' = out /\ refs' = refs /\ syms' = syms /\ rels' = rels
      /\ kept' = kept /\ image' = image /\ runtime' = runtime /\ refused' = refused
      /\ to_dynsym' = to_dynsym
  BY DEF Layout
<1>2. IsDynamic' = IsDynamic /\ IsExe' = IsExe
  BY <1>1 DEF IsDynamic, IsExe
<1>3. PICK m \in Nat : m = Len(syms) /\ SymsOK(m)
  BY SymsLen
<1>4. PhaseInv'
  BY <1>1, <1>2 DEF IInv, PhaseInv, Phases
<1>5. \A s \in Sections : Pending(s) /\ Pending(s)'
  BY <1>1 DEF Pending, Filling
<1>6. ProgInv'
  BY <1>1, <1>5, ProgKept DEF Filling
<1>7. TabOK(tables, m) /\ to_dynsym \in [1 .. m -> Nat]
  BY <1>1, <1>3 DEF IInv, TabInv, Filling
<1>8. PICK T \in TableSet(m) : T = tables
  BY <1>7 DEF TabOK
<1>9. LaidOK(T, m)
  BY <1>7, <1>8, TabLaid
<1>10. PICK q : q = [k \in DOMAIN T.dynsym |->
                        [T.dynsym[k] EXCEPT !.value = DynValue(T.dynsym[k])]]
  OBVIOUS
<1>11. PICK U : U = [T EXCEPT !.dynsym = q]
  OBVIOUS
<1>12. tables' = U /\ Len(syms') = m
  BY <1>1, <1>3, <1>8, <1>10, <1>11
<1>13. /\ Revalued(T, m, U)
       /\ \A k \in 1 .. Len(T.dynsym) : /\ T.dynsym[k] \in DynSyms
                                        /\ U.dynsym[k].value = DynValue(T.dynsym[k])
  BY <1>10, <1>11, LayoutIs
<1>14. LaidOK(U, m)
  BY <1>9, <1>13, RevaluedOK
<1>15. LaidOK(U, m)'
  BY <1>1, <1>14, Frame
<1>16. TabInv'
  <2>1. LaidOK(tables, Len(syms))'
    BY <1>12, <1>15
  <2>2. to_dynsym' \in [1 .. Len(syms') -> Nat]
    BY <1>1, <1>7, <1>12
  <2> QED
    BY <1>1, <2>1, <2>2 DEF TabInv, Filling
<1>17. CallInv'
  <2>1. ASSUME IsExe, NEW n \in Wanted PROVE LaidCall(U, n)
    <3>1. CallOK(T, n)
      BY <1>1, <1>8, <2>1 DEF IInv, CallInv
    <3> QED
      BY <1>9, <1>13, <3>1, LayoutCall
  <2>2. IsExe' => \A n \in Wanted' : LaidCall(tables', n)
    BY <1>1, <1>2, <1>12, <2>1, WantedKept
  <2>3. IsExe' => \A n \in Wanted' : LaidCall(tables, n)'
    BY <2>2 DEF LaidCall, LaidOwn, OwnJump
  <2> QED
    BY <1>1, <2>3 DEF CallInv
<1>18. CountInv'
  <2>2. ASSUME NEW s \in Sections, out = "dll"
        PROVE  reserved'[s] = CountedTo(s, Len(rels[s]))
    <3>1. DOMAIN rels[s] = 1 .. Len(rels[s])
      BY <1>5 DEF IInv, ProgInv, RelsOK
    <3>2. reserved'[s] = Cardinality({k \in DOMAIN rels[s] : IsCounted(rels[s][k])})
      BY <1>1, <2>2
    <3> QED
      BY <3>1, <3>2 DEF CountedTo
  <2>1. ASSUME NEW s \in Sections, out = "dll" PROVE reserved'[s] \in Nat
    <3>1. PICK l \in Nat : l = Len(rels[s])
      BY <1>5 DEF IInv, ProgInv, RelsOK
    <3>2. l + 1 \in Nat /\ l + 1 # 0 /\ (l + 1) - 1 = l
      OBVIOUS
    <3>3. PICK k \in Nat : k = l + 1 /\ k # 0 /\ k - 1 = l
      BY <3>2
    <3>4. CountedTo(s, k - 1) \in Nat
      BY <3>3, CountedStep
    <3> QED
      BY <2>1, <2>2, <3>1, <3>3, <3>4
  <2>4. reserved' \in [Sections -> Nat]
    <3>1. CASE out = "dll"
      <4>1. reserved' = [s \in Sections |->
                            Cardinality({k \in DOMAIN rels[s] : IsCounted(rels[s][k])})]
        BY <1>1, <3>1
      <4>2. \A s \in Sections : reserved'[s] \in Nat
        BY <2>1, <3>1
      <4> QED
        BY <4>1, <4>2
    <3>2. CASE out # "dll"
      BY <1>1, <3>2 DEF IInv, CountInv
    <3> QED
      BY <3>1, <3>2
  <2>5. kept' \in [Sections -> Nat] /\ (out' # "dll" => \A s \in Sections : reserved'[s] = 0)
    BY <1>1 DEF IInv, CountInv
  <2>3. ASSUME NEW s \in Sections, out' = "dll"
        PROVE  reserved'[s] = CountedTo(s, Len(rels[s]))'
    BY <1>1, <2>2, <2>3 DEF CountedTo, IsCounted
  <2> QED
    BY <1>5, <2>3, <2>4, <2>5 DEF CountInv
<1> QED
  BY <1>4, <1>6, <1>16, <1>17, <1>18 DEF IInv

-----------------------------------------------------------------------------
(* The addresses of the symbols                                            *)

LEMMA SymValueIs ==
    ASSUME ElfLinkAssumption, NEW m \in Nat, SymsOK(m), tables \in TableSet(m),
           out \in {"exe", "rdynamic", "dll", "static", "memory"}, NEW i \in 1 .. m
    PROVE  SymValue(syms[i]) \in Nat
<1>1. PICK s : s = syms[i] /\ s.sec \in Places /\ s.value \in Nat
  BY SymIs
<1>2. CASE s.sec # "undef"
  <2>1. SectionAddress(s.sec) \in Nat
    BY <1>1, <1>2 DEF SectionAddress, sh_addr, Places
  <2> QED
    BY <1>1, <1>2, <2>1 DEF SymValue
<1>3. CASE s.sec = "undef" /\ ~ IsFound(s)
  BY <1>1, <1>3 DEF SymValue
<1>4. CASE s.sec = "undef" /\ IsFound(s)
  <2>1. SymValue(s) = FoundValue(s)
    BY <1>4 DEF SymValue
  <2>2. CASE out = "memory"
    <3>1. s.name \in DOMAIN Library
      BY <1>4, <2>2 DEF IsFound
    <3>2. Library[s.name].value \in Nat
      BY <3>1 DEF ElfLinkAssumption
    <3> QED
      BY <1>1, <2>1, <2>2, <3>2 DEF FoundValue, LibBase
  <2>3. CASE out \notin {"memory", "static"}
    <3>0. PICK n : n = s.name
      OBVIOUS
    <3>1. PICK T \in TableSet(m) : T = tables /\ n = s.name
      BY <3>0
    <3>2. find_dynsym(T, n) # 0
      BY <1>4, <2>3, <3>1 DEF IsFound
    <3>3. find_dynsym(T, n) \in 1 .. Len(T.dynsym)
      BY <3>2, FindIs
    <3>4. T.dynsym \in Seq(DynSyms)
      BY DEF TableSet
    <3>5. T.dynsym[find_dynsym(T, n)].value \in Nat
      <4>0. PICK q \in Seq(DynSyms) : q = T.dynsym
        BY <3>4
      <4>1. PICK k \in 1 .. Len(q) : q = T.dynsym /\ k = find_dynsym(T, n)
        BY <3>3, <4>0
      <4>2. q[k] \in DynSyms
        BY <4>1
      <4>3. q[k].value \in Nat
        BY <4>2 DEF DynSyms
      <4> QED
        BY <4>1, <4>3
    <3> QED
      BY <1>1, <2>1, <2>3, <3>1, <3>5 DEF FoundValue
  <2>4. out # "static"
    BY <1>4 DEF IsFound
  <2> QED
    BY <2>2, <2>3, <2>4
<1> QED
  BY <1>2, <1>3, <1>4

\* The symbols are as they were, but for their values.
SymsSame(m) ==
    /\ SymsOK(m) /\ SymsOK(m)'
    /\ \A i \in 1 .. m : syms'[i].name = syms[i].name

LEMMA SymsSameKeeps ==
    ASSUME NEW m \in Nat, SymsSame(m), out' = out
    PROVE  Wanted' = Wanted /\ \A T : LaidOK(T, m) => LaidOK(T, m)'
<1>1. Len(syms) = m /\ Len(syms') = m /\ \A i \in 1 .. m : syms'[i].name = syms[i].name
  BY DEF SymsSame, SymsOK
<1>2. ASSUME NEW n PROVE SymOf(n)' = SymOf(n)
  <2> DEFINE I == {i \in 1 .. m : syms[i].name = n}
             J == {i \in 1 .. m : syms'[i].name = n}
  <2>1. I = J
    BY <1>1
  <2>2. SymOf(n) = IF I # {} THEN Min(I) ELSE 0
    BY <1>1 DEF SymOf, SelectInSeq
  <2>3. SymOf(n)' = IF J # {} THEN Min(J) ELSE 0
    BY <1>1 DEF SymOf, SelectInSeq
  <2> QED
    BY <2>1, <2>2, <2>3
<1>3. Wanted' = Wanted
  BY <1>2 DEF Wanted, IsHere
<1>4. IsDynamic' <=> IsDynamic
  BY DEF IsDynamic, IsExe
<1>5. ASSUME NEW T, LaidOK(T, m) PROVE LaidOK(T, m)'
  <2>1. \A i \in 1 .. m : HasSlot(T, i) => HasSlot(T, i)'
    BY <1>1 DEF HasSlot
  <2> QED
    BY <1>4, <1>5, <2>1 DEF LaidOK
<1> QED
  BY <1>3, <1>5

LEMMA SymsRevalued ==
    ASSUME NEW m \in Nat, SymsOK(m), NEW v \in [1 .. m -> Nat],
           syms' = [i \in 1 .. m |-> [syms[i] EXCEPT !.value = v[i]]]
    PROVE  SymsSame(m) /\ Len(syms') = m
<1>1. ASSUME NEW i \in 1 .. m
      PROVE  /\ syms'[i] \in SymSet /\ syms'[i].name = syms[i].name
             /\ syms'[i].type = syms[i].type /\ syms'[i].bind = syms[i].bind
             /\ syms'[i].sec = syms[i].sec
  <2>1. PICK s \in SymSet : s = syms[i]
    BY SymIs
  <2>2. syms'[i] = [s EXCEPT !.value = v[i]] /\ v[i] \in Nat
    BY <2>1
  <2>3. syms'[i] \in SymSet
    BY <2>2 DEF SymSet
  <2>4. syms'[i].name = s.name /\ syms'[i].type = s.type /\ syms'[i].bind = s.bind
        /\ syms'[i].sec = s.sec
    BY <2>2 DEF SymSet
  <2> QED
    BY <2>1, <2>3, <2>4
<1>2. syms' \in [1 .. m -> SymSet]
  <2>1. syms' = [i \in 1 .. m |-> syms'[i]]
    OBVIOUS
  <2> QED
    BY <1>1, <2>1
<1>3. PICK q \in [1 .. m -> SymSet] : q = syms'
  BY <1>2
<1>4. q \in Seq(SymSet) /\ Len(q) = m
  BY FunctionIsSeq
<1>5. SymsOK(m)'
  <2>1. \A i, j \in 1 .. m : syms'[i].name = syms'[j].name => i = j
    BY <1>1 DEF SymsOK
  <2>2. ASSUME NEW i \in 1 .. m
        PROVE  /\ syms'[i].type = Program[syms'[i].name].type
               /\ syms'[i].bind = Program[syms'[i].name].bind
               /\ syms'[i].sec = Program[syms'[i].name].sec
    BY <1>1 DEF SymsOK
  <2> QED
    BY <1>3, <1>4, <2>1, <2>2 DEF SymsOK
<1> QED
  BY <1>1, <1>3, <1>4, <1>5 DEF SymsSame

LEMMA RelocateSymsInv ==
    ASSUME ElfLinkAssumption, IInv, relocate_syms PROVE IInv'
<1>1. /\ phase \in {"size", "symbols"}
      /\ refused' = (Lost # {})
      /\ phase' = (IF Lost # {} THEN "done" ELSE IF phase = "size" THEN "symbols" ELSE "text")
      /\ syms' = [i \in DOMAIN syms |-> [syms[i] EXCEPT !.value = SymValue(syms[i])]]
      /\ out' = out /\ refs' = refs /\ tables' = tables /\ rels' = rels
      /\ kept' = kept /\ image' = image /\ runtime' = runtime /\ reserved' = reserved
      /\ to_dynsym' = to_dynsym
  BY DEF relocate_syms
<1>2. IsDynamic' = IsDynamic /\ IsExe' = IsExe
  BY <1>1 DEF IsDynamic, IsExe
<1>3. PICK m \in Nat : m = Len(syms) /\ SymsOK(m)
  BY SymsLen
<1>4. \/ phase' = "done" /\ refused'
      \/ phase' = "symbols" /\ phase = "size"
      \/ phase' = "text" /\ phase = "symbols"
  BY <1>1
<1>5. PhaseInv'
  BY <1>1, <1>2, <1>4 DEF IInv, PhaseInv, Phases
<1>6. \A s \in Sections : Pending(s)
  BY <1>1 DEF Pending
<1>7. LaidOK(tables, m) /\ to_dynsym \in [1 .. m -> Nat]
  BY <1>1, <1>3 DEF IInv, TabInv, Laid
<1>8. PICK v : v = [i \in 1 .. m |-> SymValue(syms[i])]
  OBVIOUS
<1>9. v \in [1 .. m -> Nat]
  <2>1. tables \in TableSet(m) /\ out \in {"exe", "rdynamic", "dll", "static", "memory"}
    BY <1>7 DEF LaidOK, IInv, PhaseInv
  <2> QED
    BY <1>3, <1>8, <2>1, SymValueIs
<1>10. syms' = [i \in 1 .. m |-> [syms[i] EXCEPT !.value = v[i]]]
  <2>1. DOMAIN syms = 1 .. m
    BY <1>3 DEF SymsOK
  <2> QED
    BY <1>1, <1>8, <2>1
<1>11. SymsSame(m) /\ Len(syms') = m
  BY <1>3, <1>9, <1>10, SymsRevalued
<1>12. ProgInv'
  <2>1. SymsOK(Len(syms))'
    BY <1>11 DEF SymsSame
  <2>2. phase' \notin {"compile"} \cup Filling
    BY <1>4 DEF Filling
  <2>3. ASSUME NEW s \in Sections PROVE RelsOK(s)'
    BY <1>1, <1>3, <1>6, <1>11 DEF IInv, ProgInv, RelsOK
  <2> QED
    BY <1>1, <2>1, <2>2, <2>3 DEF IInv, ProgInv
<1>13. TabInv'
  <2>1. PICK T : T = tables /\ LaidOK(T, m)
    BY <1>7
  <2>2. LaidOK(T, m)'
    BY <1>1, <1>11, <2>1, SymsSameKeeps
  <2>3. LaidOK(tables, Len(syms))'
    BY <1>1, <1>11, <2>1, <2>2
  <2>4. to_dynsym' \in [1 .. Len(syms') -> Nat]
    BY <1>1, <1>7, <1>11
  <2> QED
    BY <1>4, <2>3, <2>4 DEF TabInv, Filling
<1>14. CallInv'
  <2>1. Wanted' = Wanted
    BY <1>1, <1>11, SymsSameKeeps
  <2>2. IsExe => phase # "size"
    BY DEF IInv, PhaseInv, IsDynamic
  <2>3. ASSUME IsExe, phase = "symbols", NEW n \in Wanted' PROVE LaidCall(tables, n)'
    <3>1. LaidCall(tables, n)
      BY <2>1, <2>3 DEF IInv, CallInv
    <3>2. tables' = tables
      BY <1>1
    <3> QED
      BY <3>1, <3>2, LaidCallFrame
  <2> QED
    BY <1>1, <1>2, <1>4, <2>2, <2>3 DEF CallInv
<1>15. CountInv'
  <2>1. \A s \in Sections : CountedTo(s, Len(rels[s]))' = CountedTo(s, Len(rels[s]))
    BY <1>1 DEF CountedTo, IsCounted
  <2>2. \A s \in Sections : phase' # "done" => Pending(s)'
    BY <1>4 DEF Pending
  <2>3. phase = "size" => out # "dll"
    BY DEF IInv, PhaseInv, IsDynamic
  <2> QED
    BY <1>1, <1>4, <1>6, <2>1, <2>2, <2>3 DEF IInv, CountInv
<1> QED
  BY <1>5, <1>12, <1>13, <1>14, <1>15 DEF IInv

-----------------------------------------------------------------------------
(* relocate_section                                                        *)

\* A loop whose values before each round are in J.
LEMMA LoopKeeps ==
    ASSUME NEW n \in Nat, NEW J, NEW F, F[0] \in J[0],
           \A k \in 1 .. n : F[k - 1] \in J[k - 1] => F[k] \in J[k]
    PROVE  \A k \in 0 .. n : F[k] \in J[k]
<1>0. PICK One : One = {1}
  OBVIOUS
<1>1. PICK G : G = [k \in 0 .. n |-> IF F[k] \in J[k] THEN 1 ELSE 0]
  OBVIOUS
<1>2. \A k \in 0 .. n : G[k] \in One <=> F[k] \in J[k]
  BY <1>0, <1>1
<1>3. G[0] \in One
  BY <1>2
<1>4. ASSUME NEW k \in 1 .. n, G[k - 1] \in One PROVE G[k] \in One
  <2>1. k \in 0 .. n /\ k - 1 \in 0 .. n
    OBVIOUS
  <2> QED
    BY <1>2, <1>4, <2>1
<1>5. \A k \in 0 .. n : G[k] \in One
  BY <1>3, <1>4, FoldKeeps
<1> QED
  BY <1>2, <1>5

\* What the loop over a table of n entries and a section of w words works on.
Entries(w) == [off : 1 .. w, type : RefTypes \cup {"RELATIVE"}, sym : Nat, addend : Int]
Jumps      == [val : Int, jump : BOOLEAN]
LoopSet(n, w) ==
    [rels : [1 .. n -> Entries(w)], kept : Nat, words : [1 .. w -> Int], runtime : Seq(Jumps)]

\* No entry is kept.
SameAt(R, U, n, w) == U \in LoopSet(n, w) /\ U.rels = R.rels /\ U.kept = R.kept

LEMMA WordIs ==
    ASSUME NEW n \in Nat, NEW w \in Nat, NEW R \in LoopSet(n, w), NEW r, r.off \in 1 .. w,
           NEW val \in Int, NEW U, U = Word(R, r, val)
    PROVE  SameAt(R, U, n, w)
<1>1. PICK ws : ws = [R.words EXCEPT ![r.off] = R.words[r.off] + val]
  OBVIOUS
<1>2. R.words \in [1 .. w -> Int]
  BY DEF LoopSet
<1>3. R.words[r.off] \in Int
  BY <1>2
<1>4. ws \in [1 .. w -> Int]
  BY <1>1, <1>2, <1>3
<1>5. U = [R EXCEPT !.words = ws]
  BY <1>1 DEF Word, LoopSet
<1> QED
  BY <1>4, <1>5 DEF LoopSet, SameAt

LEMMA RuntimeIs ==
    ASSUME NEW n \in Nat, NEW w \in Nat, NEW R \in LoopSet(n, w), NEW r, r.off \in 1 .. w,
           NEW val \in Int, NEW jump \in BOOLEAN, NEW U, U = Runtime(R, r, val, jump)
    PROVE  SameAt(R, U, n, w)
<1>1. PICK ws : ws = [R.words EXCEPT ![r.off] = R.words[r.off] + RunBase + Len(R.runtime) + 1]
  OBVIOUS
<1>2. R.words \in [1 .. w -> Int] /\ R.runtime \in Seq(Jumps)
  BY DEF LoopSet
<1>3. PICK x \in Int : x = R.words[r.off] + RunBase + Len(R.runtime) + 1
  <2>1. R.words[r.off] \in Int /\ Len(R.runtime) \in Nat /\ RunBase \in Int
    BY <1>2 DEF RunBase
  <2>2. PICK y \in Int, b \in Int, l \in Nat :
           y = R.words[r.off] /\ b = RunBase /\ l = Len(R.runtime)
    BY <2>1
  <2>3. y + b + l + 1 \in Int
    OBVIOUS
  <2>4. y + b + l + 1 = R.words[r.off] + RunBase + Len(R.runtime) + 1
    BY <2>2
  <2> QED
    BY <2>3, <2>4
<1>4. ws \in [1 .. w -> Int]
  BY <1>1, <1>2, <1>3
<1>5. PICK e : e = [val |-> val, jump |-> jump] /\ e \in Jumps
  <2>1. [val |-> val, jump |-> jump] \in Jumps
    BY Zenon DEF Jumps
  <2> QED
    BY <2>1
<1>6. PICK q : q = Append(R.runtime, e)
  OBVIOUS
<1>7. q \in Seq(Jumps)
  BY <1>2, <1>5, <1>6
<1>8. U = [R EXCEPT !.words = ws, !.runtime = q]
  BY <1>1, <1>5, <1>6 DEF Runtime, LoopSet
<1> QED
  BY <1>4, <1>7, <1>8 DEF LoopSet, SameAt

\* One more entry is kept.
KeptAt(R, U, n, w) ==
    /\ U \in LoopSet(n, w) /\ U.kept = R.kept + 1
    /\ \A j \in 1 .. n : j # R.kept + 1 => U.rels[j] = R.rels[j]

LEMMA KeepIs ==
    ASSUME NEW n \in Nat, NEW w \in Nat, NEW R \in LoopSet(n, w), NEW e \in Entries(w),
           NEW U, U = Advanced([R EXCEPT !.rels[R.kept + 1] = e])
    PROVE  KeptAt(R, U, n, w)
<1>1. PICK q : q = [R.rels EXCEPT ![R.kept + 1] = e]
  OBVIOUS
<1>2. R.rels \in [1 .. n -> Entries(w)] /\ R.kept \in Nat
  BY DEF LoopSet
<1>3. q \in [1 .. n -> Entries(w)] /\ \A j \in 1 .. n : j # R.kept + 1 => q[j] = R.rels[j]
  BY <1>1, <1>2
<1>4. PICK V : V = [R EXCEPT !.rels = q]
  OBVIOUS
<1>5. V \in LoopSet(n, w) /\ V.kept = R.kept /\ V.rels = q
  BY <1>3, <1>4 DEF LoopSet
<1>6. U = Advanced(V)
  BY <1>1, <1>4
<1>7. PICK x \in Nat : x = R.kept + 1
  BY <1>2
<1>8. U \in LoopSet(n, w) /\ U.kept = R.kept + 1 /\ U.rels = q
  <2>1. U = [V EXCEPT !.kept = x]
    BY <1>5, <1>6, <1>7 DEF Advanced
  <2>2. U \in LoopSet(n, w)
    BY <1>5, <2>1 DEF LoopSet
  <2>3. U.kept = x /\ U.rels = V.rels
    BY <1>5, <2>1 DEF LoopSet
  <2> QED
    BY <1>5, <1>7, <2>2, <2>3
<1> QED
  BY <1>3, <1>8 DEF KeptAt

LEMMA RelativeIs ==
    ASSUME NEW n \in Nat, NEW w \in Nat, NEW R \in LoopSet(n, w), NEW r, r.off \in 1 .. w,
           NEW val \in Int, R.kept + 1 \in 1 .. n, NEW U, U = Relative(R, r, val)
    PROVE  KeptAt(R, U, n, w)
<1>1. PICK a : a = R.words[r.off] + val
  OBVIOUS
<1>2. R.words \in [1 .. w -> Int] /\ R.rels \in [1 .. n -> Entries(w)]
  BY DEF LoopSet
<1>3. a \in Int
  BY <1>1, <1>2
<1>4. PICK b \in Entries(w) : b = R.rels[R.kept + 1]
  BY <1>2
<1>5. PICK e : e = [b EXCEPT !.type = "RELATIVE", !.sym = 0, !.addend = a]
  OBVIOUS
<1>6. e \in Entries(w)
  BY <1>3, <1>5 DEF Entries
<1>7. [R EXCEPT !.rels[R.kept + 1] = [@ EXCEPT !.type = "RELATIVE", !.sym = 0, !.addend = a]]
      = [R EXCEPT !.rels[R.kept + 1] = e]
  BY <1>2, <1>4, <1>5 DEF LoopSet
<1>8. U = Advanced([R EXCEPT !.rels[R.kept + 1] = e])
  BY <1>1, <1>7 DEF Relative
<1> QED
  BY <1>6, <1>8, KeepIs

LEMMA JumpIs ==
    ASSUME NEW n \in Nat, NEW w \in Nat, NEW R \in LoopSet(n, w), NEW r, r.off \in 1 .. w,
           to_dynsym[r.sym] \in Nat, NEW U, U = Jump(R, r)
    PROVE  KeptAt(R, U, n, w)
<1>1. R.words \in [1 .. w -> Int]
  BY DEF LoopSet
<1>2. PICK e : e = [off |-> r.off, type |-> "PC32", sym |-> to_dynsym[r.sym],
                    addend |-> R.words[r.off]]
  OBVIOUS
<1>3. e \in Entries(w)
  BY <1>1, <1>2 DEF Entries, RefTypes
<1>4. U = Advanced([R EXCEPT !.rels[R.kept + 1] = e])
  BY <1>2 DEF Jump
<1> QED
  BY <1>3, <1>4, KeepIs

\* Before the k-th entry, as many are kept as are counted, and the others are
\* as they were.
Loop(s, n, w, k) ==
    {R \in LoopSet(n, w) : /\ R.kept = IF out = "dll" THEN CountedTo(s, k) ELSE 0
                           /\ \A j \in k + 1 .. n : R.rels[j] = rels[s][j]}

LEMMA LoopStep ==
    ASSUME NEW s, NEW n \in Nat, NEW w \in Nat, NEW k \in 1 .. n, NEW R \in Loop(s, n, w, k - 1),
           NEW U,
           \/ SameAt(R, U, n, w) /\ (out = "dll" => ~ IsCounted(rels[s][k]))
           \/ KeptAt(R, U, n, w) /\ out = "dll" /\ IsCounted(rels[s][k])
    PROVE  U \in Loop(s, n, w, k)
<1>1. /\ R.kept = IF out = "dll" THEN CountedTo(s, k - 1) ELSE 0
      /\ \A j \in k .. n : R.rels[j] = rels[s][j]
  BY DEF Loop
<1>2. k \in Nat /\ k # 0
  OBVIOUS
<1>3. /\ CountedTo(s, k - 1) \in Nat /\ CountedTo(s, k - 1) <= k - 1
      /\ CountedTo(s, k) = CountedTo(s, k - 1) + (IF IsCounted(rels[s][k]) THEN 1 ELSE 0)
  BY <1>2, CountedStep
<1>4. CASE SameAt(R, U, n, w) /\ (out = "dll" => ~ IsCounted(rels[s][k]))
  <2>0. U \in LoopSet(n, w) /\ U.rels = R.rels /\ U.kept = R.kept
    BY <1>4 DEF SameAt
  <2>1. \A j \in k + 1 .. n : U.rels[j] = rels[s][j]
    BY <1>1, <2>0
  <2>2. U.kept = IF out = "dll" THEN CountedTo(s, k) ELSE 0
    BY <1>1, <1>3, <1>4, <2>0
  <2> QED
    BY <2>0, <2>1, <2>2 DEF Loop
<1>5. CASE KeptAt(R, U, n, w) /\ out = "dll" /\ IsCounted(rels[s][k])
  <2>1. /\ U \in LoopSet(n, w) /\ U.kept = R.kept + 1
        /\ \A j \in 1 .. n : j # R.kept + 1 => U.rels[j] = R.rels[j]
    BY <1>5 DEF KeptAt
  <2>2. R.kept = CountedTo(s, k - 1)
    BY <1>1, <1>5
  <2>3. ASSUME NEW j \in k + 1 .. n PROVE U.rels[j] = rels[s][j]
    <3>1. j \in 1 .. n /\ j \in k .. n /\ j # R.kept + 1
      BY <1>3, <2>2
    <3> QED
      BY <1>1, <2>1, <3>1
  <2>4. U.kept = CountedTo(s, k)
    BY <1>3, <1>5, <2>1, <2>2
  <2> QED
    BY <1>5, <2>1, <2>3, <2>4 DEF Loop
<1> QED
  BY <1>4, <1>5

LEMMA EntryStep ==
    ASSUME NEW m \in Nat, SymsOK(m), to_dynsym \in [1 .. m -> Nat],
           tables.got_offset \in [1 .. m -> Nat],
           NEW s, NEW n \in Nat, NEW w \in Nat, NEW k \in 1 .. n, rels[s][k] \in RelSet(m, w),
           NEW R \in Loop(s, n, w, k - 1), NEW U, U = RelocateEntry(R, k)
    PROVE  U \in Loop(s, n, w, k)
<1>1. PICK r : r = rels[s][k]
  OBVIOUS
<1>2. R \in LoopSet(n, w) /\ R.rels[k] = r
  <2>1. R \in LoopSet(n, w) /\ \A j \in (k - 1) + 1 .. n : R.rels[j] = rels[s][j]
    BY DEF Loop
  <2>2. k \in (k - 1) + 1 .. n
    OBVIOUS
  <2> QED
    BY <1>1, <2>1, <2>2
<1>3. r.off \in 1 .. w /\ r.type \in RefTypes /\ r.sym \in 1 .. m
  BY <1>1 DEF RelSet
<1>0. PICK i \in 1 .. m : i = r.sym
  BY <1>3
<1>4. PICK val \in Int : val = syms[i].value
  <2>1. syms[i].value \in Nat
    BY SymIs
  <2> QED
    BY <2>1
<1>5. to_dynsym[r.sym] \in Nat
  BY <1>3
<1>6. PICK a \in Int : a = sh_addr["got"] + tables.got_offset[i]
  <2>1. PICK g \in Nat : g = tables.got_offset[i]
    OBVIOUS
  <2>2. sh_addr["got"] = 400
    BY DEF sh_addr
  <2> QED
    BY <2>1, <2>2, SMTT(30)
<1>7. PICK t, f \in BOOLEAN : t = TRUE /\ f = FALSE
  OBVIOUS
<1>8. CASE r.type = "64" /\ out = "dll"
  <2>1. R.kept + 1 \in 1 .. n
    <3>1. k \in Nat /\ k # 0
      OBVIOUS
    <3>2. CountedTo(s, k - 1) \in Nat /\ CountedTo(s, k - 1) <= k - 1
      BY <3>1, CountedStep
    <3>3. R.kept = CountedTo(s, k - 1)
      BY <1>8 DEF Loop
    <3> QED
      BY <3>2, <3>3
  <2>2. PICK V : V = Relative(R, r, val)
    OBVIOUS
  <2>3. KeptAt(R, V, n, w)
    BY <1>2, <1>3, <2>1, <2>2, RelativeIs
  <2>4. U = Word(V, r, val)
    BY <1>0, <1>2, <1>4, <1>8, <2>2 DEF RelocateEntry
  <2>5. V \in LoopSet(n, w)
    BY <2>3 DEF KeptAt
  <2>6. SameAt(V, U, n, w)
    BY <1>3, <2>4, <2>5, WordIs
  <2>7. KeptAt(R, U, n, w)
    BY <2>3, <2>6 DEF KeptAt, SameAt
  <2>8. IsCounted(rels[s][k])
    BY <1>1, <1>8 DEF IsCounted
  <2> QED
    BY <1>8, <2>7, <2>8, LoopStep
<1>9. CASE r.type = "PC32" /\ out = "dll" /\ to_dynsym[r.sym] # 0
  <2>1. U = Jump(R, r)
    <3>1. RelocateEntry(R, k) = Jump(R, r)
      <4>1. R.rels[k].type = "PC32" /\ R.rels[k].type # "64" /\ to_dynsym[R.rels[k].sym] # 0
        BY <1>2, <1>9
      <4> QED
        BY <1>2, <1>9, <4>1 DEF RelocateEntry, IsFar
    <3> QED
      BY <3>1
  <2>2. KeptAt(R, U, n, w)
    BY <1>2, <1>3, <1>5, <2>1, JumpIs
  <2>3. IsCounted(rels[s][k])
    BY <1>1, <1>9 DEF IsCounted
  <2> QED
    BY <1>9, <2>2, <2>3, LoopStep
<1>10. CASE /\ ~ (r.type = "64" /\ out = "dll")
            /\ ~ (r.type = "PC32" /\ out = "dll" /\ to_dynsym[r.sym] # 0)
  <2>1. \/ U = Word(R, r, val) \/ U = Word(R, r, a)
        \/ U = Runtime(R, r, val, t) \/ U = Runtime(R, r, val, f)
    <3>1. PICK x, y, z, v : /\ x = Word(R, r, val) /\ y = Word(R, r, a)
                            /\ z = Runtime(R, r, val, t) /\ v = Runtime(R, r, val, f)
      OBVIOUS
    <3>2. RelocateEntry(R, k) \in {x, y, z, v}
      BY <1>0, <1>2, <1>4, <1>6, <1>7, <1>10, <3>1 DEF RelocateEntry
    <3> QED
      BY <3>1, <3>2
  <2>3. SameAt(R, U, n, w)
    <3>1. CASE U = Word(R, r, val)
      BY <1>2, <1>3, <3>1, WordIs
    <3>2. CASE U = Word(R, r, a)
      BY <1>2, <1>3, <3>2, WordIs
    <3>3. CASE U = Runtime(R, r, val, t)
      BY <1>2, <1>3, <3>3, RuntimeIs
    <3>4. CASE U = Runtime(R, r, val, f)
      BY <1>2, <1>3, <3>4, RuntimeIs
    <3> QED
      BY <2>1, <3>1, <3>2, <3>3, <3>4
  <2>4. out = "dll" => ~ IsCounted(rels[s][k])
    BY <1>1, <1>10 DEF IsCounted
  <2> QED
    BY <2>3, <2>4, LoopStep
<1> QED
  BY <1>8, <1>9, <1>10

LEMMA RelocatedOK ==
    ASSUME NEW m \in Nat, SymsOK(m), to_dynsym \in [1 .. m -> Nat],
           tables.got_offset \in [1 .. m -> Nat], runtime \in Seq(Jumps),
           NEW s, NEW n \in Nat, NEW w \in Nat, rels[s] \in Seq(RelSet(m, w)), Len(rels[s]) = n,
           image[s] \in Seq(Int), Len(image[s]) = w
    PROVE  Relocated(s) \in Loop(s, n, w, n)
<1> PICK S : S = LoopSet(n, w)
  OBVIOUS
<1> PICK J : J = [k \in 0 .. n |-> Loop(s, n, w, k)]
  OBVIOUS
<1> PICK T : T = [rels |-> rels[s], kept |-> 0, words |-> image[s], runtime |-> runtime]
  OBVIOUS
<1>1. \A k \in 1 .. n : rels[s][k] \in RelSet(m, w)
  OBVIOUS
<1>2. T \in S /\ T \in J[0]
  <2>1. rels[s] \in [1 .. n -> Entries(w)]
    <3>1. PICK q, A : q = rels[s] /\ A = RelSet(m, w) /\ q \in Seq(A) /\ Len(q) = n
      OBVIOUS
    <3>2. A \subseteq Entries(w)
      BY <3>1 DEF RelSet, Entries
    <3> QED
      BY <3>1, <3>2
  <2>2. image[s] \in [1 .. w -> Int]
    OBVIOUS
  <2>3. T \in LoopSet(n, w)
    BY <2>1, <2>2 DEF LoopSet
  <2>4. T.kept = 0 /\ CountedTo(s, 0) = 0
    <3>1. CountedTo(s, 0) = 0
      <4>1. 1 \in Nat /\ 1 # 0
        OBVIOUS
      <4> QED
        BY <4>1, CountedStep
    <3> QED
      BY <3>1
  <2>5. T \in Loop(s, n, w, 0)
    BY <2>3, <2>4 DEF Loop
  <2> QED
    BY <2>3, <2>5
<1>3. ASSUME NEW k \in 1 .. n, NEW R \in J[k - 1] PROVE RelocateEntry(R, k) \in J[k]
  <2>1. PICK U : U = RelocateEntry(R, k)
    OBVIOUS
  <2>2. k - 1 \in 0 .. n /\ k \in 0 .. n
    OBVIOUS
  <2>3. R \in Loop(s, n, w, k - 1)
    BY <1>3, <2>2
  <2>4. rels[s][k] \in RelSet(m, w)
    BY <1>1
  <2>5. U \in Loop(s, n, w, k)
    BY <2>1, <2>3, <2>4, EntryStep
  <2> QED
    BY <2>1, <2>2, <2>5
<1>4. \A k \in 0 .. n : J[k] \subseteq S
  BY DEF Loop
<1> DEFINE Is(F) == F = [k \in 0 .. n |-> IF k = 0 THEN T ELSE RelocateEntry(F[k - 1], k)]
<1>5. \E F : Is(F)
  <2> DEFINE g == [k \in 1 .. n |-> [U \in S |-> IF RelocateEntry(U, k) \in S
                                                THEN RelocateEntry(U, k) ELSE U]]
  <2>1. g \in [1 .. n -> [S -> S]]
    OBVIOUS
  <2>2. \A k \in 1 .. n : \A U \in S :
           g[k][U] = IF RelocateEntry(U, k) \in S THEN RelocateEntry(U, k) ELSE U
    OBVIOUS
  <2> HIDE DEF g
  <2>3. PICK F : MadeBy(F, S, T, n, g)
    BY <1>2, <2>1, FoldExists
  <2>4. F \in [0 .. n -> S] /\ F[0] = T /\ \A k \in 1 .. n : F[k] = g[k][F[k - 1]]
    BY <2>3 DEF MadeBy
  <2>5. ASSUME NEW k \in 1 .. n, F[k - 1] \in J[k - 1]
        PROVE  F[k] = RelocateEntry(F[k - 1], k) /\ F[k] \in J[k]
    <3>1. k \in 0 .. n /\ k - 1 \in 0 .. n
      OBVIOUS
    <3>2. RelocateEntry(F[k - 1], k) \in J[k]
      BY <1>3, <2>5
    <3>3. RelocateEntry(F[k - 1], k) \in S /\ F[k - 1] \in S
      BY <1>4, <2>4, <3>1, <3>2
    <3>4. PICK X, Y : X = F[k - 1] /\ Y = RelocateEntry(X, k) /\ X \in S /\ Y \in S /\ Y \in J[k]
      BY <3>2, <3>3
    <3>5. g[k][X] = Y
      BY <2>2, <3>4
    <3>6. F[k] = g[k][X]
      BY <2>4, <3>4
    <3> QED
      BY <3>4, <3>5, <3>6
  <2>6. F[0] \in J[0]
    BY <1>2, <2>4
  <2>7. \A k \in 0 .. n : F[k] \in J[k]
    BY <2>5, <2>6, LoopKeeps
  <2>8. ASSUME NEW k \in 0 .. n
        PROVE  F[k] = IF k = 0 THEN T ELSE RelocateEntry(F[k - 1], k)
    <3>1. CASE k = 0
      BY <2>4, <3>1
    <3>2. CASE k # 0
      <4>1. k \in 1 .. n /\ k - 1 \in 0 .. n
        BY <3>2
      <4> QED
        BY <2>5, <2>7, <3>2, <4>1
    <3> QED
      BY <3>1, <3>2
  <2> QED
    BY <2>4, <2>8
<1> DEFINE F == CHOOSE F : Is(F)
<1>6. Is(F)
  BY <1>5
<1>7. Relocated(s) = F[n]
  BY DEF Relocated
<1> HIDE DEF F
<1>8. F[0] = T /\ \A k \in 1 .. n : F[k] = RelocateEntry(F[k - 1], k)
  BY <1>6
<1>9. F[0] \in J[0]
  BY <1>2, <1>8
<1>10. ASSUME NEW k \in 1 .. n, F[k - 1] \in J[k - 1] PROVE F[k] \in J[k]
  BY <1>3, <1>8, <1>10
<1>11. \A k \in 0 .. n : F[k] \in J[k]
  BY <1>9, <1>10, LoopKeeps
<1> QED
  BY <1>7, <1>11

LEMMA RelocateSectionInv ==
    ASSUME IInv, NEW s \in Sections, relocate_section(s) PROVE IInv'
<1>0. PICK R : R = Relocated(s)
  OBVIOUS
<1>1. /\ phase = s /\ phase' = (IF s = "text" THEN "data" ELSE "write")
      /\ rels' = [rels EXCEPT ![s] = R.rels] /\ kept' = [kept EXCEPT ![s] = R.kept]
      /\ image' = [image EXCEPT ![s] = R.words] /\ runtime' = R.runtime
      /\ out' = out /\ refs' = refs /\ syms' = syms /\ tables' = tables
      /\ reserved' = reserved /\ refused' = refused /\ to_dynsym' = to_dynsym
  BY <1>0 DEF relocate_section
<1>2. IsDynamic' = IsDynamic /\ IsExe' = IsExe
  BY <1>1 DEF IsDynamic, IsExe
<1>3. PICK m \in Nat : m = Len(syms) /\ SymsOK(m)
  BY SymsLen
<1>4. \/ s = "text" /\ phase = "text" /\ phase' = "data"
      \/ s = "data" /\ phase = "data" /\ phase' = "write"
  BY <1>1 DEF Sections
<1>5. PhaseInv'
  BY <1>2, <1>4, <1>1 DEF IInv, PhaseInv, Phases
<1>6. Pending(s) /\ ~ Pending(s)' /\ \A t \in Sections \ {s} : Pending(t)' <=> Pending(t)
  BY <1>4 DEF Pending, Sections, Filling
<1>7. LaidOK(tables, m) /\ to_dynsym \in [1 .. m -> Nat]
  BY <1>3, <1>4 DEF IInv, TabInv, Laid
<1>8. PICK n \in Nat, w \in Nat :
        /\ n = Len(rels[s]) /\ w = Len(image[s])
        /\ rels[s] \in Seq(RelSet(m, w)) /\ image[s] \in Seq(Int)
  BY <1>3, <1>6 DEF IInv, ProgInv, RelsOK
<1>9. R \in Loop(s, n, w, n)
  <2>1. runtime \in Seq(Jumps)
    BY DEF IInv, ProgInv, Jumps
  <2>2. tables.got_offset \in [1 .. m -> Nat]
    BY <1>7 DEF LaidOK, TableSet
  <2> QED
    BY <1>0, <1>3, <1>7, <1>8, <2>1, <2>2, RelocatedOK
<1>10. R.runtime \in Seq(Jumps)
  BY <1>9 DEF Loop, LoopSet
<1>11. ProgInv'
  <2>1. SymsOK(Len(syms))'
    <3>1. SymsOK(m)' /\ Len(syms') = m
      BY <1>1, <1>3, Frame
    <3> QED
      BY <3>1
  <2>2. phase' \notin {"compile"} \cup Filling
    BY <1>4 DEF Filling
  <2>3. ASSUME NEW t \in Sections, Pending(t)' PROVE RelsOK(t)'
    <3>1. t # s /\ Pending(t)
      BY <1>6, <2>3
    <3>2. rels'[t] = rels[t] /\ image'[t] = image[t]
      BY <1>1, <3>1 DEF IInv, ProgInv
    <3> QED
      BY <1>1, <3>1, <3>2 DEF IInv, ProgInv, RelsOK
  <2>4. DOMAIN rels' = Sections /\ DOMAIN image' = Sections
    BY <1>1 DEF IInv, ProgInv
  <2>5. runtime' \in Seq([val : Int, jump : BOOLEAN])
    BY <1>1, <1>10 DEF Jumps
  <2> QED
    BY <2>1, <2>2, <2>3, <2>4, <2>5 DEF ProgInv
<1>12. TabInv'
  <2>1. PICK T : T = tables /\ LaidOK(T, m)
    BY <1>7
  <2>2. LaidOK(T, m)'
    BY <1>1, <2>1, Frame
  <2>3. LaidOK(tables, Len(syms))'
    BY <1>1, <1>3, <2>1, <2>2
  <2>4. to_dynsym' \in [1 .. Len(syms') -> Nat]
    BY <1>1, <1>3, <1>7
  <2> QED
    BY <1>4, <2>3, <2>4 DEF TabInv, Filling
<1>13. CallInv'
  <2>1. ASSUME IsExe, NEW n1 \in Wanted' PROVE LaidCall(tables, n1)'
    <3>1. LaidCall(tables, n1)
      BY <1>1, <1>4, <2>1, WantedKept DEF IInv, CallInv
    <3> QED
      BY <1>1, <3>1 DEF LaidCall, LaidOwn, OwnJump
  <2> QED
    BY <1>2, <1>4, <2>1 DEF CallInv
<1>14. CountInv'
  <2>1. reserved' \in [Sections -> Nat] /\ kept' \in [Sections -> Nat]
        /\ (out' # "dll" => \A t \in Sections : reserved'[t] = 0)
    <3>1. R.kept \in Nat
      BY <1>9 DEF Loop, LoopSet
    <3> QED
      BY <1>1, <3>1 DEF IInv, CountInv
  <2>2. kept'[s] = reserved'[s]
    <3>1. kept'[s] = R.kept
      BY <1>1 DEF IInv, CountInv
    <3>2. R.kept = IF out = "dll" THEN CountedTo(s, n) ELSE 0
      BY <1>9 DEF Loop
    <3>3. out = "dll" => reserved[s] = CountedTo(s, n)
      BY <1>4, <1>6, <1>8 DEF IInv, CountInv
    <3>4. out # "dll" => reserved[s] = 0
      BY DEF IInv, CountInv
    <3> QED
      BY <1>1, <3>1, <3>2, <3>3, <3>4
  <2>3. ASSUME NEW t \in Sections, t # s
        PROVE  IF Pending(t)' THEN out' = "dll" => reserved'[t] = CountedTo(t, Len(rels[t]))'
               ELSE kept'[t] = reserved'[t]
    <3>1. rels'[t] = rels[t] /\ kept'[t] = kept[t]
      BY <1>1, <2>3 DEF IInv, ProgInv, CountInv
    <3>2. IF Pending(t) THEN out = "dll" => reserved[t] = CountedTo(t, Len(rels[t]))
          ELSE kept[t] = reserved[t]
      BY <1>4 DEF IInv, CountInv
    <3>3. CountedTo(t, Len(rels[t]))' = CountedTo(t, Len(rels[t]))
      BY <1>1, <3>1 DEF CountedTo, IsCounted
    <3>4. Pending(t)' <=> Pending(t)
      BY <1>6, <2>3
    <3>5. CASE Pending(t)
      BY <1>1, <3>1, <3>2, <3>3, <3>4, <3>5
    <3>6. CASE ~ Pending(t)
      BY <1>1, <3>1, <3>2, <3>4, <3>6
    <3> QED
      BY <3>5, <3>6
  <2> QED
    BY <1>6, <2>1, <2>2, <2>3 DEF CountInv
<1> QED
  BY <1>5, <1>11, <1>12, <1>13, <1>14 DEF IInv

-----------------------------------------------------------------------------
(* What is written, and what is loaded                                     *)

\* The symbols that are defined keep their values.
DefinedKept(T, U) ==
    \A k \in 1 .. Len(T.dynsym) : T.dynsym[k].sec # "undef" => U.dynsym[k] = T.dynsym[k]

LEMMA PatchIs ==
    ASSUME NEW m \in Nat, NEW T \in TableSet(m), NEW q,
           q = [k \in DOMAIN T.dynsym |-> Patched(T.dynsym[k])],
           NEW U, U = [T EXCEPT !.dynsym = q]
    PROVE  Revalued(T, m, U) /\ DefinedKept(T, U)
<1>1. PICK d \in Seq(DynSyms), l \in Nat : d = T.dynsym /\ l = Len(d) /\ DOMAIN d = 1 .. l
  <2>1. PICK d \in Seq(DynSyms) : d = T.dynsym
    BY DEF TableSet
  <2> QED
    BY <2>1
<1>2. q = [k \in 1 .. l |-> Patched(d[k])]
  BY <1>1
<1>3. ASSUME NEW k \in 1 .. l
      PROVE  /\ q[k] \in DynSyms /\ q[k].name = d[k].name /\ q[k].sec = d[k].sec
             /\ d[k].sec # "undef" => q[k] = d[k]
  <2>1. PICK e \in DynSyms : e = d[k]
    BY <1>1
  <2>2. q[k] = e \/ (e.sec = "undef" /\ q[k] = [e EXCEPT !.value = 0])
    <3>1. q[k] = Patched(e)
      BY <1>2, <2>1
    <3>2. CASE e.sec = "undef" /\ e.bind = "weak"
      <4>1. Patched(e) = [e EXCEPT !.value = 0]
        BY <3>2 DEF Patched
      <4> QED
        BY <3>1, <3>2, <4>1
    <3>3. CASE ~ (e.sec = "undef" /\ e.bind = "weak")
      <4>1. Patched(e) = e
        BY <3>3 DEF Patched
      <4> QED
        BY <3>1, <4>1
    <3> QED
      BY <3>2, <3>3
  <2>3. q[k] \in DynSyms
    BY <2>2 DEF DynSyms
  <2>4. q[k].name = e.name /\ q[k].sec = e.sec /\ (e.sec # "undef" => q[k] = e)
    BY <2>2 DEF DynSyms
  <2> QED
    BY <2>1, <2>3, <2>4
<1>4. q \in Seq(DynSyms) /\ Len(q) = l
  <2>1. DOMAIN q = 1 .. l /\ \A k \in 1 .. l : q[k] \in DynSyms
    BY <1>2, <1>3
  <2>2. q = [k \in 1 .. l |-> q[k]]
    BY <1>2
  <2>3. q \in [1 .. l -> DynSyms]
    BY <2>1, <2>2
  <2> QED
    BY <2>3, FunctionIsSeq
<1>5. /\ U \in TableSet(m) /\ U.dynsym = q
      /\ U.got = T.got /\ U.relgot = T.relgot /\ U.plt = T.plt /\ U.bss = T.bss
      /\ U.relbss = T.relbss /\ U.got_offset = T.got_offset
  BY <1>4 DEF TableSet
<1>6. Revalued(T, m, U)
  <2>1. PICK x, y : x = T.dynsym /\ y = U.dynsym
    OBVIOUS
  <2>2. x = d /\ y = q /\ Len(x) = l /\ Len(y) = l
    BY <1>1, <1>4, <1>5, <2>1
  <2>3. \A k \in 1 .. l : y[k].name = x[k].name /\ y[k].sec = x[k].sec
    BY <1>3, <2>2
  <2> QED
    BY <1>5, <2>1, <2>2, <2>3 DEF Revalued
<1> QED
  BY <1>1, <1>3, <1>5, <1>6 DEF DefinedKept

LEMMA PatchCall ==
    ASSUME NEW m \in Nat, NEW T, LaidOK(T, m), NEW U, Revalued(T, m, U),
           DefinedKept(T, U), NEW n, LaidCall(T, n)
    PROVE  LaidCall(U, n)
<1>1. PICK k \in 1 .. Len(T.dynsym) :
        /\ T.dynsym[k].name = n /\ T.dynsym[k].sec # "undef"
        /\ \A j \in k .. Len(T.dynsym) :
              T.dynsym[j].name = n /\ T.dynsym[j].sec # "undef" => LaidOwn(T, n, T.dynsym[j])
  BY DEF LaidCall
<1>2. PICK l \in Nat : l = Len(T.dynsym) /\ l = Len(U.dynsym)
  BY DEF Revalued
<1>3. \A j \in 1 .. l : U.dynsym[j].name = T.dynsym[j].name /\ U.dynsym[j].sec = T.dynsym[j].sec
  BY <1>2 DEF Revalued
<1>4. ASSUME NEW j \in k .. l, U.dynsym[j].name = n, U.dynsym[j].sec # "undef"
      PROVE  LaidOwn(U, n, U.dynsym[j])
  <2>1. j \in 1 .. l
    BY <1>1, <1>2
  <2>2. LaidOwn(T, n, T.dynsym[j]) /\ U.dynsym[j] = T.dynsym[j]
    BY <1>1, <1>2, <1>3, <1>4, <2>1 DEF DefinedKept
  <2>3. \A v : OwnJump(T, n, v) => OwnJump(U, n, v)
    BY RevaluedOK
  <2> QED
    BY <2>2, <2>3 DEF LaidOwn
<1>5. /\ DOMAIN U.relgot = 1 .. Len(U.relgot)
      /\ DOMAIN U.plt = 1 .. Len(U.plt) /\ Len(U.plt) \in Nat
  BY DEF Revalued, TableSet
<1> QED
  BY <1>1, <1>2, <1>3, <1>4, <1>5 DEF LaidCall

LEMMA WriteInv ==
    ASSUME IInv, Write PROVE IInv'
<1>1. /\ phase = "write" /\ phase' = (IF IsDynamic THEN "load" ELSE "done")
      /\ (IsDynamic => tables' = [tables EXCEPT !.dynsym = patch_dynsym_undef])
      /\ out' = out /\ refs' = refs /\ syms' = syms /\ rels' = rels /\ to_dynsym' = to_dynsym
      /\ reserved' = reserved /\ kept' = kept /\ image' = image /\ runtime' = runtime
      /\ refused' = refused
  <2>1. IsDynamic => out \notin {"static", "memory"}
    BY DEF IsDynamic, IsExe
  <2>2. tables' = CASE IsDynamic      -> [tables EXCEPT !.dynsym = patch_dynsym_undef]
                    [] out = "static" -> [tables EXCEPT !.got = fill_got]
                    [] out = "memory" -> tables
    BY DEF Write
  <2>3. IsDynamic => tables' = [tables EXCEPT !.dynsym = patch_dynsym_undef]
    BY <2>1, <2>2
  <2> QED
    BY <2>3 DEF Write
<1>2. IsDynamic' = IsDynamic /\ IsExe' = IsExe
  BY <1>1 DEF IsDynamic, IsExe
<1>3. PICK m \in Nat : m = Len(syms) /\ SymsOK(m)
  BY SymsLen
<1>4. (phase' = "load" /\ IsDynamic) \/ (phase' = "done" /\ ~ IsDynamic)
  BY <1>1
<1>5. PhaseInv'
  BY <1>1, <1>2, <1>4 DEF IInv, PhaseInv, Phases
<1>6. \A s \in Sections : ~ Pending(s) /\ ~ Pending(s)'
  BY <1>1, <1>4 DEF Pending, Filling
<1>7. ProgInv'
  BY <1>1, <1>4, <1>6, ProgKept DEF Filling
<1>8. LaidOK(tables, m) /\ to_dynsym \in [1 .. m -> Nat]
  BY <1>1, <1>3 DEF IInv, TabInv, Laid
<1>9. CASE phase' = "done" /\ ~ IsDynamic
  <2>1. TabInv'
    BY <1>9 DEF TabInv, Filling, Laid
  <2>2. CallInv'
    BY <1>2, <1>9 DEF CallInv, IsDynamic
  <2>3. CountInv'
    BY <1>1, <1>9 DEF IInv, CountInv
  <2> QED
    BY <1>5, <1>7, <2>1, <2>2, <2>3 DEF IInv
<1>10. CASE phase' = "load" /\ IsDynamic
  <2>1. PICK T \in TableSet(m) : T = tables /\ LaidOK(T, m)
    BY <1>8 DEF LaidOK
  <2>2. PICK q : q = [k \in DOMAIN T.dynsym |-> Patched(T.dynsym[k])]
    OBVIOUS
  <2>3. PICK U : U = [T EXCEPT !.dynsym = q]
    OBVIOUS
  <2>4. tables' = U /\ Len(syms') = m
    BY <1>1, <1>3, <1>10, <2>1, <2>2, <2>3 DEF patch_dynsym_undef
  <2>5. Revalued(T, m, U) /\ DefinedKept(T, U)
    BY <2>2, <2>3, PatchIs
  <2>6. LaidOK(U, m)
    BY <2>1, <2>5, RevaluedOK
  <2>7. LaidOK(U, m)'
    BY <1>1, <2>6, Frame
  <2>8. TabInv'
    <3>1. LaidOK(tables, Len(syms))'
      BY <2>4, <2>7
    <3>2. to_dynsym' \in [1 .. Len(syms') -> Nat]
      BY <1>1, <1>8, <2>4
    <3> QED
      BY <1>10, <3>1, <3>2 DEF TabInv, Filling
  <2>9. CallInv'
    <3>1. ASSUME IsExe, NEW n \in Wanted PROVE LaidCall(U, n)
      <4>1. LaidCall(T, n)
        BY <1>1, <2>1, <3>1 DEF IInv, CallInv
      <4> QED
        BY <2>1, <2>5, <4>1, PatchCall
    <3>2. IsExe' => \A n \in Wanted' : LaidCall(tables', n)
      BY <1>1, <1>2, <2>4, <3>1, WantedKept
    <3>3. IsExe' => \A n \in Wanted' : LaidCall(tables, n)'
      BY <3>2 DEF LaidCall, LaidOwn, OwnJump
    <3> QED
      BY <1>10, <3>3 DEF CallInv
  <2>10. CountInv'
    BY <1>1, <1>6, <1>10 DEF IInv, CountInv
  <2> QED
    BY <1>5, <1>7, <2>8, <2>9, <2>10 DEF IInv
<1> QED
  BY <1>4, <1>9, <1>10

LEMMA LoadInv ==
    ASSUME IInv, Load PROVE IInv'
<1>1. /\ phase = "load" /\ phase' = "done"
      /\ tables' = [tables EXCEPT !.got = LoadedGot]
      /\ image' = [s \in Sections |-> LoadedWords(s)]
      /\ out' = out /\ refs' = refs /\ syms' = syms /\ rels' = rels /\ to_dynsym' = to_dynsym
      /\ reserved' = reserved /\ kept' = kept /\ runtime' = runtime
  BY DEF Load
<1>2. IsDynamic' = IsDynamic /\ IsExe' = IsExe
  BY <1>1 DEF IsDynamic, IsExe
<1>3. PICK m \in Nat : m = Len(syms) /\ SymsOK(m)
  BY SymsLen
<1>4. PhaseInv'
  BY <1>1, <1>2 DEF IInv, PhaseInv, Phases
<1>5. ProgInv'
  <2>1. SymsOK(Len(syms))'
    <3>1. SymsOK(m)' /\ Len(syms') = m
      BY <1>1, <1>3, Frame
    <3> QED
      BY <3>1
  <2>2. phase' \notin {"compile"} \cup Filling /\ \A s \in Sections : ~ Pending(s)'
    BY <1>1 DEF Filling, Pending
  <2> QED
    BY <1>1, <2>1, <2>2 DEF IInv, ProgInv
<1>6. TabInv'
  BY <1>1 DEF TabInv, Filling, Laid
<1>7. CallInv'
  <2>1. PICK T \in TableSet(m) : T = tables
    BY <1>1, <1>3 DEF IInv, TabInv, Laid, LaidOK
  <2>2. PICK U, g : g = LoadedGot /\ U = [T EXCEPT !.got = g]
    OBVIOUS
  <2>3. tables' = U /\ U.dynsym = T.dynsym /\ U.relgot = T.relgot /\ U.plt = T.plt
    BY <1>1, <2>1, <2>2 DEF TableSet
  <2>4. ASSUME IsExe, NEW n \in Wanted' PROVE LaidCall(tables, n)'
    <3>1. LaidCall(tables, n)
      BY <1>1, <2>4, WantedKept DEF IInv, CallInv
    <3>2. /\ tables'.dynsym = tables.dynsym /\ tables'.relgot = tables.relgot
          /\ tables'.plt = tables.plt
      BY <2>1, <2>3
    <3>3. \A v : OwnJump(tables, n, v) => OwnJump(tables, n, v)'
      BY <3>2 DEF OwnJump
    <3> QED
      BY <3>1, <3>2, <3>3 DEF LaidCall, LaidOwn
  <2> QED
    BY <1>1, <1>2, <2>4 DEF CallInv
<1>8. CountInv'
  BY <1>1 DEF IInv, CountInv
<1> QED
  BY <1>4, <1>5, <1>6, <1>7, <1>8 DEF IInv

-----------------------------------------------------------------------------
(* The invariant, and what follows from it                                 *)

LEMMA StepInv ==
    ASSUME ElfLinkAssumption, IInv, [Next]_vars PROVE IInv'
<1>1. CASE UNCHANGED vars
  <2>1. /\ phase' = phase /\ out' = out /\ refs' = refs /\ syms' = syms /\ rels' = rels
        /\ tables' = tables /\ to_dynsym' = to_dynsym /\ reserved' = reserved /\ kept' = kept
        /\ image' = image /\ runtime' = runtime /\ refused' = refused
    BY <1>1 DEF vars
  <2>2. \A s : Pending(s)' <=> Pending(s)
    BY <2>1 DEF Pending
  <2>3. IsDynamic' = IsDynamic /\ IsExe' = IsExe
    BY <2>1 DEF IsDynamic, IsExe
  <2>4. PhaseInv'
    BY <2>1, <2>3 DEF IInv, PhaseInv
  <2>5. ProgInv'
    BY <2>1, <2>2, ProgKept
  <2>6. PICK m, T : m = Len(syms) /\ T = tables
    OBVIOUS
  <2>7. TabInv'
    <3>1. (TabOK(T, m)' <=> TabOK(T, m)) /\ (LaidOK(T, m)' <=> LaidOK(T, m))
      BY <2>1, Frame
    <3>2. phase \in Filling => TabOK(T, m)'
      BY <2>6, <3>1 DEF IInv, TabInv
    <3>3. phase \in Laid => LaidOK(T, m)'
      BY <2>6, <3>1 DEF IInv, TabInv
    <3>4. Len(syms') = m /\ tables' = T
      BY <2>1, <2>6
    <3>5. phase' \in Filling => TabOK(tables, Len(syms))'
      BY <2>1, <3>2, <3>4
    <3>6. phase' \in Laid => LaidOK(tables, Len(syms))'
      BY <2>1, <3>3, <3>4
    <3> QED
      BY <2>1, <2>6, <3>4, <3>5, <3>6 DEF IInv, TabInv
  <2>8. CallInv'
    <3>1. Wanted' = Wanted
      BY <2>1, WantedKept
    <3>2. \A n : LaidCall(tables, n)' <=> LaidCall(tables, n)
      BY <2>1 DEF LaidCall, LaidOwn, OwnJump
    <3>3. \A n : CallOK(tables, n)' <=> CallOK(tables, n)
      BY <2>1 DEF CallOK, IsOwn, OwnJump
    <3> QED
      BY <2>1, <2>3, <3>1, <3>2, <3>3 DEF IInv, CallInv
  <2>9. CountInv'
    <3>1. \A s : CountedTo(s, Len(rels[s]))' = CountedTo(s, Len(rels[s]))
      BY <2>1 DEF CountedTo, IsCounted
    <3> QED
      BY <2>1, <2>2, <3>1 DEF IInv, CountInv
  <2> QED
    BY <2>4, <2>5, <2>7, <2>8, <2>9 DEF IInv
<1>2. CASE Next
  <2>1. ASSUME NEW u \in Uses, Refer(u) PROVE IInv'
    BY <2>1, ReferInv
  <2>2. ASSUME NEW n \in Names, Define(n) PROVE IInv'
    BY <2>2, DefineInv
  <2>3. CASE EndOfInput
    BY <2>3, EndOfInputInv
  <2>4. CASE BindExe
    BY <2>4, BindExeInv
  <2>5. CASE BindDll
    BY <2>5, BindDllInv
  <2>6. CASE build_got_entries
    BY <2>6, BuildInv
  <2>7. CASE Layout
    BY <2>7, LayoutInv
  <2>8. CASE relocate_syms
    BY <2>8, RelocateSymsInv
  <2>9. ASSUME NEW s \in Sections, relocate_section(s) PROVE IInv'
    BY <2>9, RelocateSectionInv
  <2>10. CASE Write
    BY <2>10, WriteInv
  <2>11. CASE Load
    BY <2>11, LoadInv
  <2> QED
    BY <1>2, <2>1, <2>2, <2>3, <2>4, <2>5, <2>6, <2>7, <2>8, <2>9, <2>10, <2>11 DEF Next
<1> QED
  BY <1>1, <1>2

LEMMA Invariance == Spec => []IInv
<1>1. Init => IInv
  BY ElfLinkAssumption, InitInv
<1>2. IInv /\ [Next]_vars => IInv'
  BY ElfLinkAssumption, StepInv
<1> QED
  BY <1>1, <1>2, PTL DEF Spec

LEMMA LaidSlots ==
    ASSUME NEW m \in Nat, SymsOK(m), LaidOK(tables, m),
           phase \in Filling => TabOK(tables, m), phase \in Filling \cup Laid
    PROVE  SlotsExact
<1>1. PICK T \in TableSet(m) : T = tables /\ LaidOK(T, m)
  BY DEF LaidOK
<1>2. DOMAIN syms = 1 .. m
  BY DEF SymsOK
<1>3. ASSUME NEW g \in 3 .. Len(T.got) - 1
      PROVE  \E i \in 1 .. m : \A j \in 1 .. m : T.got_offset[j] = g <=> i = j
  <2>1. PICK i \in 1 .. m : T.got_offset[i] = g
    BY <1>1 DEF LaidOK, GotOK
  <2>2. g # 0
    BY <1>1 DEF TableSet
  <2>3. ASSUME NEW j \in 1 .. m PROVE T.got_offset[j] = g <=> i = j
    BY <1>1, <2>1, <2>2 DEF LaidOK, GotOK
  <2> QED
    BY <2>3
<1>4. ASSUME IsDynamic, NEW i \in 1 .. m, T.got_offset[i] # 0
      PROVE  \E e \in Range(T.relgot) :
                /\ e.off = T.got_offset[i]
                /\ T.dynsym[e.sym].name = syms[i].name
                /\ e.type = "JUMP_SLOT" =>
                    \E k \in 2 .. Len(T.plt) :
                        /\ T.plt[k] = e.off
                        /\ phase \in {"bind", "got", "layout"} => T.dynsym[e.sym].value = k - 1
  <2>1. PICK x \in 1 .. Len(T.relgot) : /\ T.relgot[x].off = T.got_offset[i]
                                        /\ T.dynsym[T.relgot[x].sym].name = syms[i].name
    BY <1>1, <1>4 DEF LaidOK, HasSlot
  <2>2. PICK e : e = T.relgot[x]
    OBVIOUS
  <2>3. DOMAIN T.relgot = 1 .. Len(T.relgot)
    BY DEF TableSet
  <2>4. e \in Range(T.relgot)
    BY <2>1, <2>2, <2>3 DEF Range
  <2>5. SlotLaid(T, x) /\ (phase \in Filling => SlotOK(T, x))
    BY <1>1, <2>1 DEF LaidOK, TabOK
  <2>6. ASSUME e.type = "JUMP_SLOT"
        PROVE  \E k \in 2 .. Len(T.plt) :
                  /\ T.plt[k] = e.off
                  /\ phase \in {"bind", "got", "layout"} => T.dynsym[e.sym].value = k - 1
    <3>1. CASE phase \in Filling
      BY <2>2, <2>5, <2>6, <3>1 DEF SlotOK
    <3>2. CASE phase \notin Filling
      BY <2>2, <2>5, <2>6, <3>2 DEF SlotLaid, Filling
    <3> QED
      BY <3>1, <3>2
  <2> QED
    BY <2>1, <2>2, <2>4, <2>6
<1>5. ASSUME NEW g \in 3 .. Len(tables.got) - 1
      PROVE  \E i \in DOMAIN syms : \A j \in DOMAIN syms : tables.got_offset[j] = g <=> i = j
  <2>1. g \in 3 .. Len(T.got) - 1
    BY <1>1
  <2>2. PICK i \in 1 .. m : \A j \in 1 .. m : T.got_offset[j] = g <=> i = j
    BY <1>3, <2>1
  <2>3. \A j \in DOMAIN syms : tables.got_offset[j] = g <=> i = j
    BY <1>1, <1>2, <2>2
  <2>4. i \in DOMAIN syms
    BY <1>2
  <2> QED
    BY <2>3, <2>4, Zenon
<1>6. IsDynamic => \A i \in DOMAIN syms : tables.got_offset[i] # 0 =>
        \E e \in Range(tables.relgot) :
            /\ e.off = tables.got_offset[i]
            /\ tables.dynsym[e.sym].name = syms[i].name
            /\ e.type = "JUMP_SLOT" =>
                \E k \in 2 .. Len(tables.plt) :
                    /\ tables.plt[k] = e.off
                    /\ phase \in {"bind", "got", "layout"} => tables.dynsym[e.sym].value = k - 1
  BY <1>1, <1>2, <1>4
<1> QED
  BY <1>5, <1>6, Zenon DEF SlotsExact

(* Each word of the GOT after the first three belongs to one symbol; its   *)
(* relocation names a dynamic symbol of that name, and the entry of the PLT *)
(* that jumps through it is the one the dynamic symbol stands for          *)
(* (put_got_entry, from build_got_entries and the two passes that bind and *)
(* export symbols).                                                        *)
THEOREM SlotsAreExact == Spec => []SlotsExact
<1>1. IInv => SlotsExact
  <2> SUFFICES ASSUME IInv PROVE SlotsExact
    OBVIOUS
  <2>1. PICK m \in Nat : m = Len(syms) /\ SymsOK(m)
    BY SymsLen
  <2>2. CASE phase \in {"compile", "done"}
    BY <2>2 DEF SlotsExact
  <2>3. CASE phase \in Filling
    <3>1. TabOK(tables, m)
      BY <2>1, <2>3 DEF IInv, TabInv
    <3>2. PICK T : T = tables
      OBVIOUS
    <3>3. LaidOK(T, m)
      BY <3>1, <3>2, TabLaid
    <3> QED
      BY <2>1, <2>3, <3>1, <3>2, <3>3, LaidSlots
  <2>4. CASE phase \in Laid
    <3>1. LaidOK(tables, m) /\ phase \notin Filling
      BY <2>1, <2>4 DEF IInv, TabInv, Laid, Filling
    <3> QED
      BY <2>1, <2>4, <3>1, LaidSlots
  <2> QED
    BY <2>2, <2>3, <2>4 DEF IInv, PhaseInv, Phases, Filling, Laid
<1> QED
  BY <1>1, Invariance, PTL

(* When the loader gets the file, relocate_section has kept as many entries *)
(* of each section as prepare_dynamic_rel had reserved.                     *)
THEOREM EntriesAreCounted == Spec => []EntriesCounted
<1>1. IInv => EntriesCounted
  <2> SUFFICES ASSUME IInv, phase = "load" PROVE kept = reserved
    BY DEF EntriesCounted
  <2>1. \A s \in Sections : ~ Pending(s)
    BY DEF Pending, Filling
  <2>2. \A s \in Sections : kept[s] = reserved[s]
    BY <2>1 DEF IInv, CountInv
  <2>3. reserved \in [Sections -> Nat] /\ kept \in [Sections -> Nat]
    BY DEF IInv, CountInv
  <2> QED
    BY <2>2, <2>3
<1> QED
  BY <1>1, Invariance, PTL

(* A library finds each symbol it left undefined in the program that has    *)
(* it, at its place; for a function that the program calls through the PLT  *)
(* it may find the offset of its entry, counted from the section of the     *)
(* function, since put_got_entry gives that to its dynamic symbol.          *)
THEOREM CallbacksAreExact == Spec => []CallbacksExact
<1>1. IInv => CallbacksExact
  <2> SUFFICES ASSUME IInv, IsLoaded, IsExe, NEW n \in Callbacks, SymOf(n) # 0, IsHere(n)
               PROVE  Lookup(n, TRUE) \in {Home(n)} \cup ExportedPlt(n)
    BY DEF CallbacksExact
  <2>1. n \in Wanted
    BY DEF Wanted
  <2>2. LaidCall(tables, n)
    BY <2>1 DEF IInv, CallInv, IsLoaded
  <2>3. PICK l \in Nat : l = Len(tables.dynsym)
    BY <2>2 DEF LaidCall
  <2> DEFINE q == tables.dynsym
  <2>4. PICK k \in 1 .. l :
          /\ q[k].name = n /\ q[k].sec # "undef"
          /\ \A j \in k .. l : q[j].name = n /\ q[j].sec # "undef" => LaidOwn(tables, n, q[j])
    BY <2>2, <2>3 DEF LaidCall
  <2> DEFINE Test(d) == d.name = n /\ d.value # 0 /\ (TRUE => d.sec # "undef")
             I == {i \in 1 .. l : Test(q[i])}
  <2>5. Provides(n, TRUE) = IF I # {} THEN Max(I) ELSE 0
    BY <2>3 DEF Provides, SelectLastInSeq
  <2>6. k \in I
    BY <2>4 DEF LaidOwn
  <2>7. I \in SUBSET Nat /\ \A i \in I : i <= l
    OBVIOUS
  <2>8. Max(I) \in I /\ \A i \in I : i <= Max(I)
    BY <2>6, <2>7, MaxIs
  <2>9. PICK p \in k .. l : p = Provides(n, TRUE) /\ p \in I /\ p # 0
    <3>1. PICK x : x = Max(I)
      OBVIOUS
    <3>2. x \in I /\ k <= x /\ x \in 1 .. l
      BY <2>6, <2>8, <3>1
    <3>3. x = Provides(n, TRUE)
      BY <2>5, <3>1, <3>2
    <3>4. x \in k .. l /\ x # 0 /\ x \in I
      BY <3>2
    <3> HIDE DEF I
    <3> QED
      BY <3>3, <3>4
  <2>10. LaidOwn(tables, n, q[p])
    <3>1. q[p].name = n /\ q[p].sec # "undef"
      BY <2>9
    <3> QED
      BY <2>4, <3>1
  <2> HIDE DEF I, Test
  <2>11. Lookup(n, TRUE) = LoadBase + q[p].value
    BY <2>9 DEF Lookup
  <2>12. CASE q[p].value = sh_addr[Program[n].sec] + Program[n].value
    <3>1. PICK s : s = Program[n] /\ s \in [type : Types, bind : Binds, sec : Places, value : Nat]
      <4>1. n \in Names
        BY ElfLinkAssumption DEF ElfLinkAssumption
      <4> QED
        BY <4>1, ElfLinkAssumption DEF ElfLinkAssumption, Types, Binds, Places
    <3>2. s.sec \in {"text", "data"} /\ s.value \in Nat
      BY <3>1 DEF IsHere, Places
    <3>3. PICK a : a = sh_addr[s.sec]
      OBVIOUS
    <3>4. a \in Nat
      BY <3>2, <3>3 DEF sh_addr
    <3>5. LoadBase = 0
      BY DEF LoadBase, IsExe
    <3>6. Lookup(n, TRUE) = 0 + (a + s.value) /\ Home(n) = 0 + a + s.value
      BY <2>11, <2>12, <3>1, <3>3, <3>5 DEF Home
    <3>7. PICK v \in Nat : v = s.value
      BY <3>2
    <3>8. 0 + (a + v) = 0 + a + v
      BY <3>4
    <3> QED
      BY <3>6, <3>7, <3>8
  <2>13. ASSUME NEW v, q[p].value = sh_addr[Program[n].sec] + v, OwnJump(tables, n, v)
         PROVE  Lookup(n, TRUE) \in ExportedPlt(n)
    <3>1. PICK k1 \in 1 .. Len(tables.relgot), j \in 2 .. Len(tables.plt) :
            /\ tables.relgot[k1].type = "JUMP_SLOT"
            /\ tables.dynsym[tables.relgot[k1].sym].name = n
            /\ tables.plt[j] = tables.relgot[k1].off /\ v = j - 1
      BY <2>13 DEF OwnJump
    <3>2. tables.relgot[k1] \in Range(tables.relgot) /\ j \in DOMAIN tables.plt
      BY <2>2 DEF LaidCall, Range
    <3>3. v \in PltOffsets(n)
      BY <3>1, <3>2 DEF PltOffsets
    <3>4. LoadBase = 0
      BY DEF LoadBase, IsExe
    <3>5. PICK w : w = sh_addr[Program[n].sec]
      OBVIOUS
    <3>6. w \in Nat /\ v \in Nat
      <4>1. Program[n].sec \in {"text", "data"}
        BY ElfLinkAssumption DEF ElfLinkAssumption, IsHere
      <4>2. w \in Nat
        BY <3>5, <4>1 DEF sh_addr
      <4>3. v \in Nat
        BY <3>1
      <4> QED
        BY <4>2, <4>3
    <3>7. 0 + (w + v) = 0 + w + v
      BY <3>6
    <3>8. Lookup(n, TRUE) = LoadBase + w + v
      BY <2>11, <2>13, <3>4, <3>5, <3>7
    <3> QED
      BY <3>3, <3>5, <3>8 DEF ExportedPlt
  <2> QED
    BY <2>10, <2>12, <2>13 DEF LaidOwn
<1> QED
  BY <1>1, Invariance, PTL
=============================================================================
