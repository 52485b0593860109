------------------------ MODULE StructLayout_proofs ------------------------
(***************************************************************************)
(* Proofs about StructLayout: whatever members, attributes and alignments  *)
(* a program declares, in whatever order, its fields lie in the memory of  *)
(* the struct, apart from each other and aligned.  The number of members   *)
(* and structs, the widths and the types are those of any Sessions.        *)
(***************************************************************************)
EXTENDS StructLayout, TLAPS

-----------------------------------------------------------------------------
(* Sequences                                                               *)

\* s is a sequence (of whatever elements).
IsSeq(s) == \E T : s \in Seq(T)

Elements(s) == {s[i] : i \in DOMAIN s}

LEMMA SeqDomain ==
    ASSUME NEW s, IsSeq(s)
    PROVE  Len(s) \in Nat /\ DOMAIN s = 1..Len(s)
<1>1. PICK T : s \in Seq(T)
  BY DEF IsSeq
<1> QED
  BY <1>1

\* One that is longer by the elements of another has those of both.
LEMMA ConcatElements ==
    ASSUME NEW p, NEW q, IsSeq(p), IsSeq(q)
    PROVE  IsSeq(p \o q) /\ Elements(p \o q) \subseteq Elements(p) \cup Elements(q)
<1>1. PICK T : p \in Seq(T)
  BY DEF IsSeq
<1>2. PICK U : q \in Seq(U)
  BY DEF IsSeq
<1>3. p \in Seq(T \cup U) /\ q \in Seq(T \cup U)
  BY <1>1, <1>2
<1>4. p \o q \in Seq(T \cup U)
  BY <1>3
<1>5. ASSUME NEW i \in DOMAIN (p \o q)
      PROVE  (p \o q)[i] \in Elements(p) \cup Elements(q)
  <2>1. CASE i <= Len(p)
    BY <2>1, <1>3, <1>4 DEF Elements
  <2>2. CASE i > Len(p)
    <3>1. i - Len(p) \in DOMAIN q /\ (p \o q)[i] = q[i - Len(p)]
      BY <2>2, <1>3, <1>4
    <3> QED
      BY <3>1 DEF Elements
  <2>3. i \in Int /\ Len(p) \in Int
    BY <1>3, <1>4
  <2> QED
    BY <2>1, <2>2, <2>3
<1> QED
  BY <1>4, <1>5 DEF Elements, IsSeq

LEMMA OneElement ==
    ASSUME NEW e
    PROVE  IsSeq(<<e>>) /\ Elements(<<e>>) = {e}
<1>1. <<e>> \in Seq({e}) /\ Len(<<e>>) = 1
  OBVIOUS
<1>2. DOMAIN <<e>> = {1} /\ <<e>>[1] = e
  OBVIOUS
<1>3. Elements(<<e>>) = {e}
  BY <1>2, Zenon DEF Elements
<1> QED
  BY <1>1, <1>3 DEF IsSeq

LEMMA AppendOne ==
    ASSUME NEW s, NEW e, IsSeq(s)
    PROVE  IsSeq(Append(s, e)) /\ Len(Append(s, e)) = Len(s) + 1
<1>1. PICK T : s \in Seq(T)
  BY DEF IsSeq
<1>2. s \in Seq(T \cup {e}) /\ e \in T \cup {e}
  BY <1>1
<1>3. Append(s, e) \in Seq(T \cup {e}) /\ Len(Append(s, e)) = Len(s) + 1
  BY <1>2
<1> QED
  BY <1>3 DEF IsSeq

LEMMA EmptySeq == IsSeq(<<>>) /\ Len(<<>>) = 0 /\ Elements(<<>>) = {}
<1>1. <<>> \in Seq({})
  OBVIOUS
<1> QED
  BY <1>1 DEF IsSeq, Elements

-----------------------------------------------------------------------------
(* Alignments                                                              *)

\* What is aligned for b is aligned for a smaller a.
LEMMA PowersDivide ==
    ASSUME NEW a \in Powers, NEW b \in Powers, a <= b, NEW n \in Nat, n % b = 0
    PROVE  n % a = 0
<1>1. CASE b = 1
  BY <1>1 DEF Powers
<1>2. CASE b = 2
  BY <1>2 DEF Powers
<1>4. CASE b = 4
  BY <1>4 DEF Powers
<1>8. CASE b = 8
  BY <1>8 DEF Powers
<1>16. CASE b = 16
  BY <1>16 DEF Powers
<1> QED
  BY <1>1, <1>2, <1>4, <1>8, <1>16 DEF Powers

\* A place that is aligned keeps its alignment behind another aligned one.
LEMMA AlignedSum ==
    ASSUME NEW a \in Powers, NEW m \in Nat, NEW n \in Nat, m % a = 0, n % a = 0
    PROVE  (m + n) % a = 0
<1>1. CASE a \in {1, 2}
  BY <1>1
<1>4. CASE a = 4
  BY <1>4
<1>8. CASE a = 8
  BY <1>8
<1>16. CASE a = 16
  BY <1>16
<1> QED
  BY <1>1, <1>4, <1>8, <1>16 DEF Powers

\* RoundUp gives the next aligned place.
LEMMA RoundUpAligned ==
    ASSUME NEW n \in Nat, NEW a \in Powers
    PROVE  RoundUp(n, a) \in Nat /\ RoundUp(n, a) >= n /\ RoundUp(n, a) % a = 0
<1>1. CASE a \in {1, 2}
  BY <1>1 DEF RoundUp
<1>4. CASE a = 4
  BY <1>4 DEF RoundUp
<1>8. CASE a = 8
  BY <1>8 DEF RoundUp
<1>16. CASE a = 16
  BY <1>16 DEF RoundUp
<1> QED
  BY <1>1, <1>4, <1>8, <1>16 DEF Powers

LEMMA Zero == \A a \in Powers : 0 % a = 0 /\ a \in Nat /\ a > 0 /\ a % a = 0
  BY DEF Powers

-----------------------------------------------------------------------------
(* The inductive invariant                                                 *)

IsField(f) ==
    /\ f = [t |-> f.t, c |-> f.c, pos |-> f.pos, width |-> f.width,
            own |-> f.own, m |-> f.m, al |-> f.al]
    /\ f.c \in Nat /\ f.pos \in Nat /\ f.width \in Nat /\ f.m \in Nat /\ f.own \in BOOLEAN
    /\ f.al \in Powers /\ f.t.size \in Int

\* What a struct of size n and alignment a wants of its fields
Fits(f, n, a) == IsField(f) /\ Inside(f, n) /\ Aligned(f, a)

TypeOK ==
    /\ session \in DOMAIN Sessions /\ kind \in {"none", "struct", "union"}
    /\ c \in Nat /\ offset \in Nat /\ bit_pos \in Nat /\ maxalign \in Powers
    /\ allotted \in BOOLEAN
    /\ IsSeq(decl) /\ IsSeq(fields)
    /\ packs \in Seq({0} \cup Powers) /\ Len(packs) >= 1

\* The fields so far
FieldsFit == \A f \in Elements(fields) : f.m <= Len(decl) /\ Fits(f, c, maxalign)
FieldsApart == kind = "struct" =>
                 \A f, g \in Elements(fields) : f.m # g.m => Apart(f, g)

\* The unit of the last bit-field is the last memory of the struct, and its
\* bits from bit_pos are free
UnitFree ==
    (kind = "struct" /\ allotted) =>
      /\ \E t \in Made.scalars : t.bt = prevbt /\ offset + t.size <= c
      /\ \A f \in Elements(fields) : f.own => Last(f) <= 8 * offset + bit_pos

\* The structs that are done
TagsOK ==
    \A s \in tags :
      /\ s.bt = "STRUCT" /\ s.size \in Nat /\ s.align \in Powers /\ IsSeq(s.fields)
      /\ \A f \in Elements(s.fields) : Fits(f, s.size, s.size)

LayoutInv == TypeOK /\ FieldsFit /\ FieldsApart /\ UnitFree /\ TagsOK

LEMMA InvExact == LayoutInv => LayoutExact
  BY DEF LayoutInv, FieldsFit, FieldsApart, TagsOK, LayoutExact, Fits, Elements

LEMMA InitInv == LayoutInit => LayoutInv
<1> SUFFICES ASSUME LayoutInit PROVE LayoutInv
  OBVIOUS
<1>1. Elements(fields) = {} /\ IsSeq(fields) /\ IsSeq(decl)
  BY EmptySeq DEF LayoutInit
<1>2. packs \in Seq({0} \cup Powers) /\ Len(packs) >= 1
  BY DEF LayoutInit, Powers
<1>3. TypeOK
  BY <1>1, <1>2, LayoutAssumption DEF TypeOK, LayoutInit, Powers
<1> QED
  BY <1>1, <1>3 DEF LayoutInv, FieldsFit, FieldsApart, UnitFree, TagsOK, LayoutInit

-----------------------------------------------------------------------------
(* Memory for a member                                                     *)

\* The types of members, and the alignments that attributes and #pragma pack give
LEMMA MemberType ==
    ASSUME TypeOK, TagsOK, NEW t \in Made.scalars \cup Made.arrays \cup tags
    PROVE  t.size \in Int /\ t.align \in Powers /\ (t.bt = "STRUCT" => t \in tags)
<1>1. CASE t \in Made.scalars \cup Made.arrays
  <2>1. t.size \in Powers \cup Int /\ t.align \in Powers /\ t.bt # "STRUCT"
    BY <1>1, LayoutAssumption DEF TypeOK, Made
  <2> QED
    BY <2>1 DEF Powers
<1>2. CASE t \in tags
  BY <1>2 DEF TagsOK
<1> QED
  BY <1>1, <1>2

LEMMA AlignOfPower ==
    ASSUME TypeOK, NEW t, t.align \in Powers, NEW attr \in Made.attributes
    PROVE  AlignOf(t, attr) \in Powers
<1>1. attr \in {NoAttribute, Packed} \cup Powers
  BY LayoutAssumption DEF TypeOK, Made
<1>2. packs[Len(packs)] \in {0} \cup Powers
  BY DEF TypeOK
<1>3. \A a, b \in Powers : Larger(a, b) \in Powers /\ Smaller(a, b) \in Powers /\ 1 \in Powers
  BY DEF Larger, Smaller, Powers
<1> QED
  BY <1>1, <1>2, <1>3 DEF AlignOf, NoAttribute, Packed

\* Allot makes room for the member behind, or in a union over, the others, and
\* keeps what is allotted.
LEMMA AllotFits ==
    ASSUME TypeOK, kind \in {"struct", "union"},
           NEW t, t.size \in Int, NEW align \in Powers, Allot(t, align)
    PROVE  /\ offset' \in Nat /\ c' \in Nat /\ maxalign' \in Powers
           /\ c <= c' /\ maxalign <= maxalign' /\ align <= maxalign'
           /\ offset' + Larger(t.size, 0) <= c' /\ offset' % align = 0
           /\ kind = "struct" => c <= offset'
<1>1. c \in Nat /\ maxalign \in Powers
  BY DEF TypeOK
<1>2. /\ maxalign' = Larger(align, maxalign) /\ maxalign' \in Powers
      /\ maxalign <= maxalign' /\ align <= maxalign'
  BY <1>1 DEF Allot, Larger, Powers
<1>3. CASE kind = "struct"
  <2>1. offset' = RoundUp(c, align) /\ c' = offset' + Larger(t.size, 0)
    BY <1>3 DEF Allot
  <2>2. offset' \in Nat /\ c <= offset' /\ offset' % align = 0
    BY <1>1, <2>1, RoundUpAligned
  <2> QED
    BY <1>1, <1>2, <2>1, <2>2 DEF Larger
<1>4. CASE kind = "union"
  <2>1. offset' = 0 /\ c' = Larger(t.size, c)
    BY <1>4 DEF Allot
  <2>2. offset' % align = 0
    BY <2>1, Zero
  <2> QED
    BY <1>1, <1>2, <1>4, <2>1, <2>2 DEF Larger
<1> QED
  BY <1>3, <1>4

-----------------------------------------------------------------------------
(* The new fields                                                          *)

LEMMA PowersOrdered == \A a, b \in Powers : (b % a = 0) <=> a <= b
  BY DEF Powers

\* A struct that grows still fits the fields it has; if the new ones fit it too
\* and lie behind the others, they are apart.
LEMMA Grow ==
    ASSUME TypeOK, FieldsFit, FieldsApart, kind' = kind, Len(decl') = Len(decl) + 1,
           c' \in Nat, c <= c', maxalign' \in Powers, maxalign <= maxalign',
           NEW N, Elements(fields') \subseteq Elements(fields) \cup N,
           \A g \in N : g.m = Len(decl) + 1 /\ Fits(g, c', maxalign'),
           kind = "struct" =>
              \A f \in Elements(fields), g \in N : f.own /\ g.own => Last(f) <= First(g)
    PROVE  FieldsFit' /\ FieldsApart'
<1>1. Len(decl) \in Nat /\ c \in Nat /\ maxalign \in Powers
  BY SeqDomain DEF TypeOK
<1>2. ASSUME NEW f \in Elements(fields)
      PROVE  f.m <= Len(decl') /\ f.m # Len(decl) + 1 /\ Fits(f, c', maxalign')
  <2>1. IsField(f) /\ f.m <= Len(decl) /\ Inside(f, c) /\ Aligned(f, maxalign)
    BY DEF FieldsFit, Fits
  <2>2. f.m <= Len(decl') /\ f.m # Len(decl) + 1
    BY <1>1, <2>1 DEF IsField
  <2>3. Inside(f, c')
    <3>1. Last(f) \in Int /\ Larger(f.t.size, 0) \in Int
      BY <2>1 DEF IsField, Last, First, Larger
    <3>2. SUFFICES ASSUME f.own PROVE Inside(f, c')
      BY DEF Inside
    <3>3. f.c >= 0 /\ f.c + Larger(f.t.size, 0) <= c /\ Last(f) <= 8 * c
      BY <2>1, <3>2 DEF Inside
    <3>4. f.c + Larger(f.t.size, 0) <= c' /\ Last(f) <= 8 * c'
      BY <1>1, <2>1, <3>1, <3>3 DEF IsField
    <3> QED
      BY <3>3, <3>4 DEF Inside
  <2>4. Aligned(f, maxalign')
    <3>1. maxalign % f.al = 0 => maxalign' % f.al = 0
      <4>1. f.al \in Powers
        BY <2>1 DEF IsField
      <4>2. maxalign % f.al = 0 => f.al <= maxalign
        BY <1>1, <4>1, PowersOrdered
      <4>3. f.al \in Nat /\ maxalign \in Nat /\ maxalign' \in Nat
        BY <1>1, <4>1, Zero
      <4>4. f.al <= maxalign => f.al <= maxalign'
        BY <4>3
      <4> QED
        BY <4>1, <4>2, <4>4, PowersOrdered
    <3> QED
      BY <2>1, <3>1 DEF Aligned
  <2> QED
    BY <2>1, <2>2, <2>3, <2>4 DEF Fits
<1>3. FieldsFit'
  <2>1. \A g \in N : g.m <= Len(decl')
    BY <1>1
  <2> QED
    BY <1>2, <2>1 DEF FieldsFit
<1>4. ASSUME kind = "struct", NEW f \in Elements(fields), NEW g \in N
      PROVE  Apart(f, g) /\ Apart(g, f)
  BY <1>4 DEF Apart
<1>5. FieldsApart'
  <2> SUFFICES ASSUME kind = "struct",
                      NEW f \in Elements(fields'), NEW g \in Elements(fields'), f.m # g.m
               PROVE  Apart(f, g)
    BY DEF FieldsApart
  <2>1. CASE f \in Elements(fields) /\ g \in Elements(fields)
    BY <2>1 DEF FieldsApart
  <2>2. CASE f \in N /\ g \in N
    BY <2>2
  <2> QED
    BY <1>4, <2>1, <2>2
<1> QED
  BY <1>3, <1>5

\* A field of an anonymous struct of size n, at a place where that struct fits.
LEMMA CopiedFits ==
    ASSUME NEW f, NEW n \in Nat, Fits(f, n, n), NEW k \in Nat, NEW o \in Nat,
           NEW align \in Powers, o % align = 0, NEW C \in Nat, o + n <= C,
           NEW A \in Powers, align <= A, NEW g, g = Copied(f, k, o, align)
    PROVE  g.m = k /\ g.own = f.own /\ Fits(g, C, A) /\ First(g) >= 8 * o
<1>1. IsField(f) /\ Inside(f, n) /\ Aligned(f, n)
  BY DEF Fits
<1>2. /\ g = [t |-> f.t, c |-> o + f.c, pos |-> f.pos, width |-> f.width,
              own |-> f.own, m |-> k, al |-> Smaller(f.al, align)]
  BY <1>1 DEF Copied, IsField
<1>3. /\ g.t = f.t /\ g.c = o + f.c /\ g.pos = f.pos /\ g.width = f.width
      /\ g.own = f.own /\ g.m = k /\ g.al = Smaller(f.al, align)
      /\ g = [t |-> g.t, c |-> g.c, pos |-> g.pos, width |-> g.width,
              own |-> g.own, m |-> g.m, al |-> g.al]
  BY <1>2
<1>4. /\ f.c \in Nat /\ f.pos \in Nat /\ f.width \in Nat /\ f.own \in BOOLEAN
      /\ f.al \in Powers /\ f.t.size \in Int
  BY <1>1 DEF IsField
<1>5. /\ g.al \in Powers /\ g.al <= align /\ g.al <= f.al /\ align \in Nat /\ A \in Nat
      /\ g.al \in Nat
  BY <1>3, <1>4 DEF Smaller, Powers
<1>6. IsField(g)
  BY <1>3, <1>4, <1>5 DEF IsField
<1>7. Last(g) = Last(f) + 8 * o /\ First(g) >= 8 * o /\ Last(f) \in Int
  BY <1>3, <1>4 DEF Last, First, Larger
<1>8. Inside(g, C)
  <2> SUFFICES ASSUME f.own PROVE Inside(g, C)
    BY <1>3 DEF Inside
  <2>1. f.c + Larger(f.t.size, 0) <= n /\ Last(f) <= 8 * n /\ Larger(f.t.size, 0) \in Int
    BY <1>1, <1>4 DEF Inside, Larger
  <2>2. g.c >= 0 /\ g.c + Larger(f.t.size, 0) <= C /\ Last(g) <= 8 * C
    BY <1>3, <1>4, <1>7, <2>1
  <2> QED
    BY <1>3, <2>2 DEF Inside
<1>9. Aligned(g, A)
  <2> SUFFICES ASSUME f.own PROVE g.c % g.al = 0 /\ A % g.al = 0
    BY <1>3 DEF Aligned
  <2>1. f.c % f.al = 0
    BY <1>1 DEF Aligned
  <2>2. f.c % g.al = 0 /\ o % g.al = 0
    BY <1>4, <1>5, <2>1, PowersDivide
  <2>3. g.c % g.al = 0
    BY <1>3, <1>4, <1>5, <2>2, AlignedSum
  <2>4. g.al <= A
    BY <1>5
  <2> QED
    BY <1>5, <2>3, <2>4, PowersOrdered
<1> QED
  BY <1>3, <1>6, <1>7, <1>8, <1>9 DEF Fits

\* The field that Push makes of a named member at offset o.
FieldAt(o, t, pos, width, own, align) ==
    [t |-> t, c |-> o, pos |-> pos, width |-> width,
     own |-> own, m |-> Len(decl) + 1, al |-> align]

\* sym_push of a named field.
LEMMA PushNamed ==
    ASSUME TypeOK, NEW t, NEW pos, NEW width, NEW own, NEW align,
           Push(TRUE, t, pos, width, own, align)
    PROVE  /\ IsSeq(decl') /\ Len(decl') = Len(decl) + 1 /\ IsSeq(fields')
           /\ Elements(fields') \subseteq
                Elements(fields) \cup {FieldAt(offset', t, pos, width, own, align)}
<1> DEFINE f == FieldAt(offset', t, pos, width, own, align)
<1>1. IsSeq(decl) /\ IsSeq(fields)
  BY DEF TypeOK
<1>2. /\ decl' = Append(decl, [t |-> t, c |-> offset', pos |-> pos, width |-> width, named |-> TRUE])
      /\ fields' = fields \o <<f>>
  BY DEF Push, FieldAt
<1> HIDE DEF f
<1>3. IsSeq(decl') /\ Len(decl') = Len(decl) + 1
  BY <1>1, <1>2, AppendOne
<1>4. IsSeq(<<f>>) /\ Elements(<<f>>) = {f}
  BY OneElement
<1>5. IsSeq(fields') /\ Elements(fields') \subseteq Elements(fields) \cup {f}
  BY <1>1, <1>2, <1>4, ConcatElements
<1> QED
  BY <1>3, <1>5 DEF f

\* The fields of an anonymous one.
LEMMA PushAnonymous ==
    ASSUME TypeOK, NEW t, IsSeq(t.fields), NEW align, Push(FALSE, t, 0, 0, TRUE, align)
    PROVE  /\ IsSeq(decl') /\ Len(decl') = Len(decl) + 1 /\ IsSeq(fields')
           /\ Elements(fields') \subseteq Elements(fields) \cup
                {Copied(f, Len(decl) + 1, offset', align) : f \in Elements(t.fields)}
<1> DEFINE q == [i \in 1 .. Len(t.fields) |-> Copied(t.fields[i], Len(decl) + 1, offset', align)]
           N == {Copied(f, Len(decl) + 1, offset', align) : f \in Elements(t.fields)}
<1>1. IsSeq(decl) /\ IsSeq(fields)
  BY DEF TypeOK
<1>2. /\ decl' = Append(decl, [t |-> t, c |-> offset', pos |-> 0, width |-> 0, named |-> FALSE])
      /\ fields' = fields \o q
  BY DEF Push
<1>3. IsSeq(decl') /\ Len(decl') = Len(decl) + 1
  BY <1>1, <1>2, AppendOne
<1>4. Len(t.fields) \in Nat /\ DOMAIN t.fields = 1 .. Len(t.fields)
  BY SeqDomain
<1>5. \A i \in 1 .. Len(t.fields) : q[i] \in N
  BY <1>4 DEF Elements
<1>6. q \in Seq(N) /\ DOMAIN q = 1 .. Len(t.fields)
  BY <1>4, <1>5
<1>7. IsSeq(q) /\ Elements(q) \subseteq N
  <2>1. \A i \in DOMAIN q : q[i] \in N
    BY <1>5, <1>6
  <2> HIDE DEF q, N
  <2> QED
    BY <1>6, <2>1 DEF IsSeq, Elements
<1> HIDE DEF q
<1>8. IsSeq(fields \o q) /\ Elements(fields \o q) \subseteq Elements(fields) \cup Elements(q)
  BY <1>1, <1>7, ConcatElements
<1> QED
  BY <1>2, <1>3, <1>7, <1>8

\* A named field that Allot has made room for.
LEMMA NewField ==
    ASSUME TypeOK, FieldsFit, NEW t, t.size \in Int, NEW align \in Powers,
           kind \in {"struct", "union"}, Allot(t, align), NEW width \in Nat,
           width > 0 => width <= 8 * t.size, NEW own \in BOOLEAN,
           NEW f, f = FieldAt(offset', t, 0, width, own, align)
    PROVE  /\ f.m = Len(decl) + 1 /\ Fits(f, c', maxalign')
           /\ kind = "struct" => \A g \in Elements(fields) : g.own /\ f.own => Last(g) <= First(f)
<1>1. /\ f.t = t /\ f.c = offset' /\ f.pos = 0 /\ f.width = width /\ f.own = own
      /\ f.m = Len(decl) + 1 /\ f.al = align
      /\ f = [t |-> f.t, c |-> f.c, pos |-> f.pos, width |-> f.width,
              own |-> f.own, m |-> f.m, al |-> f.al]
  BY DEF FieldAt
<1>2. /\ offset' \in Nat /\ c' \in Nat /\ maxalign' \in Powers
      /\ c <= c' /\ align <= maxalign'
      /\ offset' + Larger(t.size, 0) <= c' /\ offset' % align = 0
      /\ kind = "struct" => c <= offset'
  BY AllotFits
<1>3. Len(decl) \in Nat /\ c \in Nat
  BY SeqDomain DEF TypeOK
<1>4. IsField(f)
  BY <1>1, <1>2, <1>3 DEF IsField
<1>5. Inside(f, c')
  <2>1. Last(f) <= 8 * c'
    <3> DEFINE L == Larger(t.size, 0)
    <3>1. L \in Int /\ t.size <= L
      BY DEF Larger
    <3>2. Last(f) = IF width = 0 THEN 8 * (offset' + L) ELSE 8 * offset' + 0 + width
      BY <1>1 DEF Last, First
    <3>3. offset' + L <= c' /\ offset' \in Int /\ c' \in Int
      BY <1>2
    <3> HIDE DEF L
    <3>4. ASSUME NEW o \in Int, NEW b \in Int, o + L <= b
          PROVE  8 * (o + L) <= 8 * b /\ (width > 0 => 8 * o + 0 + width <= 8 * b)
      BY <3>1, <3>4
    <3>5. 8 * (offset' + L) <= 8 * c' /\ (width > 0 => 8 * offset' + 0 + width <= 8 * c')
      BY <3>3, <3>4
    <3> QED
      BY <3>2, <3>5
  <2>2. f.c >= 0 /\ f.c + Larger(f.t.size, 0) <= c'
    BY <1>1, <1>2
  <2> QED
    BY <2>1, <2>2 DEF Inside
<1>6. Aligned(f, maxalign')
  BY <1>1, <1>2, PowersOrdered DEF Aligned
<1>7. ASSUME kind = "struct", NEW g \in Elements(fields), g.own
      PROVE  Last(g) <= First(f)
  <2>1. IsField(g) /\ Last(g) <= 8 * c
    BY <1>7 DEF FieldsFit, Fits, Inside
  <2>2. Last(g) \in Int
    BY <2>1 DEF IsField, Last, First, Larger
  <2> QED
    BY <1>1, <1>2, <1>3, <1>7, <2>1, <2>2 DEF First
<1> QED
  BY <1>1, <1>4, <1>5, <1>6, <1>7 DEF Fits

-----------------------------------------------------------------------------
(* The steps                                                               *)

\* A member with memory of its own, of all bits of its type.
LEMMA MemberInv ==
    ASSUME LayoutInv, NEW t \in Made.scalars \cup Made.arrays \cup tags,
           NEW named \in BOOLEAN, NEW attr \in Made.attributes, Member(t, named, attr)
    PROVE  LayoutInv'
<1> DEFINE align == AlignOf(t, attr)
<1>1. t.size \in Int /\ t.align \in Powers /\ (t.bt = "STRUCT" => t \in tags)
  BY MemberType DEF LayoutInv
<1>2. align \in Powers
  BY <1>1, AlignOfPower DEF LayoutInv
<1>3. /\ kind \in {"struct", "union"} /\ Allot(t, align) /\ Push(named, t, 0, 0, TRUE, align)
      /\ bit_pos' = 0 /\ allotted' = FALSE
      /\ kind' = kind /\ packs' = packs /\ tags' = tags /\ session' = session
      /\ named = TRUE \/ (named = FALSE /\ t.bt = "STRUCT")
  BY DEF Member, Declared, LayoutInv, TypeOK
<1> HIDE DEF align
<1>4. /\ offset' \in Nat /\ c' \in Nat /\ maxalign' \in Powers
      /\ c <= c' /\ maxalign <= maxalign' /\ align <= maxalign'
      /\ offset' + Larger(t.size, 0) <= c' /\ offset' % align = 0
      /\ kind = "struct" => c <= offset'
  BY <1>1, <1>2, <1>3, AllotFits DEF LayoutInv
<1>5. TypeOK /\ FieldsFit /\ FieldsApart /\ TagsOK
  BY DEF LayoutInv
<1>6. /\ IsSeq(decl') /\ IsSeq(fields') /\ FieldsFit' /\ FieldsApart'
  <2>1. CASE named = TRUE
    <3> DEFINE f == FieldAt(offset', t, 0, 0, TRUE, align)
               N == {f}
    <3>1. Push(TRUE, t, 0, 0, TRUE, align)
      BY <1>3, <2>1
    <3>2. /\ IsSeq(decl') /\ Len(decl') = Len(decl) + 1
          /\ IsSeq(fields') /\ Elements(fields') \subseteq Elements(fields) \cup N
      BY <1>5, <3>1, PushNamed
    <3> HIDE DEF N
    <3>3. f = FieldAt(offset', t, 0, 0, TRUE, align)
      OBVIOUS
    <3> HIDE DEF f
    <3>4. /\ f.m = Len(decl) + 1 /\ Fits(f, c', maxalign')
          /\ kind = "struct" => \A g \in Elements(fields) : g.own /\ f.own => Last(g) <= First(f)
      <4>1. 0 \in Nat /\ TRUE \in BOOLEAN /\ (0 > 0 => 0 <= 8 * t.size)
        OBVIOUS
      <4>2. TypeOK /\ FieldsFit /\ kind \in {"struct", "union"} /\ Allot(t, align)
        BY <1>3, <1>5
      <4> QED
        BY <1>1, <1>2, <3>3, <4>1, <4>2, NewField
    <3>5. /\ \A g \in N : g.m = Len(decl) + 1 /\ Fits(g, c', maxalign')
          /\ kind = "struct" =>
                \A g \in Elements(fields), h \in N : g.own /\ h.own => Last(g) <= First(h)
      BY <3>4 DEF N
    <3> QED
      BY <1>3, <1>4, <1>5, <3>2, <3>5, Grow
  <2>2. CASE named = FALSE
    <3> DEFINE N == {Copied(f, Len(decl) + 1, offset', align) : f \in Elements(t.fields)}
    <3>1. /\ t \in tags /\ t.size \in Nat /\ IsSeq(t.fields)
          /\ \A f \in Elements(t.fields) : Fits(f, t.size, t.size)
      BY <1>1, <1>3, <1>5, <2>2 DEF TagsOK
    <3>2. /\ IsSeq(decl') /\ Len(decl') = Len(decl) + 1
          /\ IsSeq(fields') /\ Elements(fields') \subseteq Elements(fields) \cup N
      BY <1>3, <1>5, <2>2, <3>1, PushAnonymous
    <3>3. Len(decl) + 1 \in Nat /\ offset' + t.size <= c'
      BY <1>4, <1>5, <3>1, SeqDomain DEF TypeOK, Larger
    <3>6. ASSUME NEW f \in Elements(t.fields), NEW g, g = Copied(f, Len(decl) + 1, offset', align)
          PROVE  g.m = Len(decl) + 1 /\ Fits(g, c', maxalign') /\ First(g) >= 8 * offset' /\ First(g) \in Int
      <4>2. Fits(f, t.size, t.size)
        BY <3>1
      <4>3. g.m = Len(decl) + 1 /\ Fits(g, c', maxalign') /\ First(g) >= 8 * offset'
        <5> DEFINE k == Len(decl) + 1
        <5>1. k \in Nat /\ g = Copied(f, k, offset', align)
          BY <3>3, <3>6
        <5> HIDE DEF k
        <5>2. g.m = k /\ Fits(g, c', maxalign') /\ First(g) >= 8 * offset'
          BY <1>2, <1>4, <3>1, <3>3, <4>2, <5>1, CopiedFits
        <5> QED
          BY <5>2 DEF k
      <4> QED
        BY <4>3 DEF Fits, IsField, First
    <3>4. ASSUME NEW g \in N
          PROVE  g.m = Len(decl) + 1 /\ Fits(g, c', maxalign') /\ First(g) >= 8 * offset' /\ First(g) \in Int
      BY <3>6
    <3> HIDE DEF N
    <3>5. ASSUME kind = "struct", NEW f \in Elements(fields), NEW g \in N, f.own
          PROVE  Last(f) <= First(g)
      <4>1. IsField(f) /\ Last(f) <= 8 * c
        BY <1>5, <3>5 DEF FieldsFit, Fits, Inside
      <4>2. Last(f) \in Int /\ c \in Nat
        BY <1>5, <4>1 DEF IsField, Last, First, Larger, TypeOK
      <4> QED
        BY <1>4, <3>4, <3>5, <4>1, <4>2
    <3> QED
      BY <1>3, <1>4, <1>5, <3>2, <3>4, <3>5, Grow
  <2> QED
    BY <1>3, <2>1, <2>2
<1>7. TypeOK'
  BY <1>3, <1>4, <1>5, <1>6 DEF TypeOK
<1>8. UnitFree' /\ TagsOK'
  BY <1>3, <1>5 DEF UnitFree, TagsOK
<1> QED
  BY <1>6, <1>7, <1>8 DEF LayoutInv

\* The first bit-field of a unit: it gets memory as any member does.
LEMMA FirstBitField ==
    ASSUME LayoutInv, NEW t \in Made.scalars, NEW align \in Powers, NEW width \in Nat,
           0 < width, width <= 8 * t.size, kind \in {"struct", "union"},
           Allot(t, align), Push(TRUE, t, 0, width, TRUE, align)
    PROVE  /\ c' \in Nat /\ offset' \in Nat /\ maxalign' \in Powers
           /\ IsSeq(decl') /\ IsSeq(fields')
           /\ kind' = kind => FieldsFit' /\ FieldsApart'
           /\ offset' + t.size <= c'
           /\ kind = "struct" =>
                \A f \in Elements(fields') : f.own => Last(f) <= 8 * offset' + width
<1> DEFINE f == FieldAt(offset', t, 0, width, TRUE, align)
           N == {f}
<1>1. TypeOK /\ FieldsFit /\ FieldsApart /\ TagsOK
  BY DEF LayoutInv
<1>2. t.size \in Int
  BY <1>1, MemberType
<1>3. /\ offset' \in Nat /\ c' \in Nat /\ maxalign' \in Powers
      /\ c <= c' /\ maxalign <= maxalign' /\ align <= maxalign'
      /\ offset' + Larger(t.size, 0) <= c' /\ offset' % align = 0
      /\ kind = "struct" => c <= offset'
  BY <1>1, <1>2, AllotFits
<1>4. /\ IsSeq(decl') /\ Len(decl') = Len(decl) + 1
      /\ IsSeq(fields') /\ Elements(fields') \subseteq Elements(fields) \cup N
  BY <1>1, PushNamed
<1> HIDE DEF N
<1>5. f = FieldAt(offset', t, 0, width, TRUE, align)
  OBVIOUS
<1>6. f.c = offset' /\ f.pos = 0 /\ f.width = width
  BY DEF FieldAt
<1> HIDE DEF f
<1>7. /\ f.m = Len(decl) + 1 /\ Fits(f, c', maxalign')
      /\ kind = "struct" => \A g \in Elements(fields) : g.own /\ f.own => Last(g) <= First(f)
  <2>1. TRUE \in BOOLEAN /\ (width > 0 => width <= 8 * t.size)
    OBVIOUS
  <2> QED
    BY <1>1, <1>2, <1>5, <2>1, NewField
<1>8. /\ \A g \in N : g.m = Len(decl) + 1 /\ Fits(g, c', maxalign')
      /\ kind = "struct" =>
            \A g \in Elements(fields), h \in N : g.own /\ h.own => Last(g) <= First(h)
  BY <1>7 DEF N
<1>9. kind' = kind => FieldsFit' /\ FieldsApart'
  BY <1>1, <1>3, <1>4, <1>8, Grow
<1>10. offset' + t.size <= c'
  <2>1. Larger(t.size, 0) \in Int /\ t.size <= Larger(t.size, 0)
    BY <1>2 DEF Larger
  <2> QED
    BY <1>2, <1>3, <2>1
<1>11. ASSUME kind = "struct", NEW g \in Elements(fields'), g.own
       PROVE  Last(g) <= 8 * offset' + width
  <2>1. CASE g \in Elements(fields)
    <3>1. IsField(g) /\ Last(g) <= 8 * c
      BY <1>1, <1>11, <2>1 DEF FieldsFit, Fits, Inside
    <3>2. Last(g) \in Int /\ c \in Nat
      BY <1>1, <3>1 DEF IsField, Last, First, Larger, TypeOK
    <3> QED
      BY <1>3, <1>11, <3>1, <3>2
  <2>2. CASE g = f
    <3>1. Last(g) = 8 * offset' + 0 + width
      BY <1>6, <2>2 DEF Last, First
    <3> QED
      BY <1>3, <3>1
  <2> QED
    BY <1>4, <2>1, <2>2 DEF N
<1> QED
  BY <1>3, <1>4, <1>9, <1>10, <1>11

\* A bit-field further on in its unit: if the unit has memory, its bits do too,
\* and nothing else lies there.
LEMMA NextBitField ==
    ASSUME LayoutInv, NEW t \in Made.scalars, NEW width \in Nat, 0 < width,
           kind = "struct", kind' = kind, t.bt = prevbt, bit_pos + width <= 8 * t.size,
           c' = c, offset' = offset, maxalign' = maxalign,
           Push(TRUE, t, bit_pos, width, allotted, 1)
    PROVE  /\ IsSeq(decl') /\ IsSeq(fields') /\ FieldsFit' /\ FieldsApart'
           /\ allotted =>
                \A f \in Elements(fields') : f.own => Last(f) <= 8 * offset + (bit_pos + width)
<1> DEFINE f == FieldAt(offset', t, bit_pos, width, allotted, 1)
           N == {f}
<1>1. TypeOK /\ FieldsFit /\ FieldsApart /\ TagsOK /\ UnitFree
  BY DEF LayoutInv
<1>2. c \in Nat /\ offset \in Nat /\ bit_pos \in Nat /\ maxalign \in Powers /\ allotted \in BOOLEAN
  BY <1>1 DEF TypeOK
<1>3. t.size \in Int /\ t.size > 0
  BY <1>1, LayoutAssumption DEF TypeOK, Made, Powers
<1>4. /\ IsSeq(decl') /\ Len(decl') = Len(decl) + 1
      /\ IsSeq(fields') /\ Elements(fields') \subseteq Elements(fields) \cup N
  BY <1>1, PushNamed
<1>5. /\ f = [t |-> f.t, c |-> f.c, pos |-> f.pos, width |-> f.width,
              own |-> f.own, m |-> f.m, al |-> f.al]
      /\ f.t = t /\ f.c = offset /\ f.pos = bit_pos /\ f.width = width /\ f.own = allotted
      /\ f.m = Len(decl) + 1 /\ f.al = 1
  BY DEF FieldAt
<1> HIDE DEF f, N
<1>6. First(f) = 8 * offset + bit_pos /\ Last(f) = 8 * offset + bit_pos + width
  BY <1>2, <1>5 DEF First, Last
<1>7. allotted => offset + t.size <= c
  <2> SUFFICES ASSUME allotted PROVE offset + t.size <= c
    OBVIOUS
  <2>1. PICK u \in Made.scalars : u.bt = prevbt /\ offset + u.size <= c
    BY <1>1 DEF UnitFree
  <2>2. u.size = t.size
    BY <1>1, <2>1, LayoutAssumption DEF TypeOK, Made
  <2> QED
    BY <2>1, <2>2
<1>8. Fits(f, c', maxalign')
  <2>1. IsField(f)
    <3>1. Len(decl) + 1 \in Nat /\ 1 \in Powers
      BY <1>1, SeqDomain DEF TypeOK, Powers
    <3> QED
      BY <1>2, <1>3, <1>5, <3>1 DEF IsField
  <2>2. Inside(f, c')
    <3>1. Larger(f.t.size, 0) = t.size
      BY <1>3, <1>5 DEF Larger
    <3>2. allotted => offset + t.size <= c /\ 8 * offset + bit_pos + width <= 8 * c
      BY <1>2, <1>3, <1>7
    <3> QED
      BY <1>2, <1>5, <1>6, <3>1, <3>2 DEF Inside
  <2>3. Aligned(f, maxalign')
    <3>1. offset % 1 = 0 /\ maxalign % 1 = 0
      BY <1>2 DEF Powers
    <3> QED
      BY <1>5, <3>1 DEF Aligned
  <2> QED
    BY <2>1, <2>2, <2>3 DEF Fits
<1>9. ASSUME NEW g \in Elements(fields), g.own, allotted
      PROVE  Last(g) <= First(f) /\ Last(g) \in Int
  <2>1. Last(g) <= 8 * offset + bit_pos
    BY <1>1, <1>9 DEF UnitFree
  <2>2. Last(g) \in Int
    BY <1>1 DEF FieldsFit, Fits, IsField, Last, First, Larger
  <2> QED
    BY <1>6, <2>1, <2>2
<1>10. /\ \A g \in N : g.m = Len(decl) + 1 /\ Fits(g, c', maxalign')
       /\ \A g \in Elements(fields), h \in N : g.own /\ h.own => Last(g) <= First(h)
  BY <1>5, <1>8, <1>9 DEF N
<1>11. FieldsFit' /\ FieldsApart'
  <2>1. c' \in Nat /\ c <= c' /\ maxalign' \in Powers /\ maxalign <= maxalign'
    <3>1. maxalign \in Nat
      BY <1>2, Zero
    <3> QED
      BY <1>2, <3>1
  <2> QED
    BY <1>1, <1>4, <1>10, <2>1, Grow
<1>12. ASSUME allotted, NEW g \in Elements(fields'), g.own
       PROVE  Last(g) <= 8 * offset + (bit_pos + width)
  <2>1. CASE g \in Elements(fields)
    BY <1>2, <1>6, <1>9, <1>12, <2>1
  <2>2. CASE g = f
    BY <1>2, <1>6, <2>2
  <2> QED
    BY <1>4, <2>1, <2>2 DEF N
<1> QED
  BY <1>4, <1>11, <1>12

LEMMA BitFieldInv ==
    ASSUME LayoutInv, NEW t \in Made.scalars, NEW named \in BOOLEAN,
           NEW attr \in Made.attributes, NEW width \in Made.widths,
           BitField(t, named, attr, width)
    PROVE  LayoutInv'
<1> DEFINE starts == bit_pos + width > 8 * t.size \/ t.bt # prevbt \/ kind = "union"
           lbit_pos == IF starts THEN 0 ELSE bit_pos
           align == AlignOf(t, attr)
<1>1. TypeOK /\ FieldsFit /\ FieldsApart /\ TagsOK /\ UnitFree
  BY DEF LayoutInv
<1>2. /\ bit_pos \in Nat /\ c \in Nat /\ offset \in Nat /\ maxalign \in Powers
      /\ allotted \in BOOLEAN /\ IsSeq(decl) /\ IsSeq(fields)
  BY <1>1 DEF TypeOK
<1>3. /\ width \in Nat /\ t.size \in Int /\ t.align \in Powers
  BY <1>1, MemberType, LayoutAssumption DEF TypeOK, Made
<1>4. align \in Powers
  BY <1>1, <1>3, AlignOfPower
<1>5. /\ kind \in {"struct", "union"} /\ 0 < width /\ width < 8 * t.size
      /\ prevbt' = t.bt
      /\ kind' = kind /\ packs' = packs /\ tags' = tags /\ session' = session
  BY <1>1 DEF BitField, Declared, TypeOK
<1>6. /\ bit_pos' = lbit_pos + width
      /\ IF named /\ lbit_pos = 0 THEN Allot(t, align) ELSE UNCHANGED <<c, offset, maxalign>>
      /\ allotted' = IF lbit_pos = 0 THEN named ELSE allotted
      /\ IF named THEN Push(TRUE, t, lbit_pos, width, allotted', IF lbit_pos = 0 THEN align ELSE 1)
         ELSE UNCHANGED <<decl, fields>>
  BY DEF BitField
<1>7. lbit_pos \in Nat /\ (lbit_pos # 0 => ~starts /\ lbit_pos = bit_pos)
  BY <1>2
<1>8. ~starts => kind = "struct" /\ t.bt = prevbt /\ bit_pos + width <= 8 * t.size
  BY <1>2, <1>3, <1>5
<1> HIDE DEF lbit_pos, starts, align
<1>9. bit_pos' \in Nat /\ allotted' \in BOOLEAN /\ TagsOK'
  BY <1>1, <1>2, <1>3, <1>5, <1>6, <1>7 DEF TagsOK
<1>10. CASE lbit_pos = 0 /\ named
  <2>1. Allot(t, align) /\ allotted' = TRUE /\ bit_pos' = width
    BY <1>3, <1>6, <1>10
  <2>2. Push(TRUE, t, 0, width, TRUE, align)
    BY <1>6, <1>10, <2>1
  <2>3. /\ c' \in Nat /\ offset' \in Nat /\ maxalign' \in Powers
        /\ IsSeq(decl') /\ IsSeq(fields') /\ FieldsFit' /\ FieldsApart'
        /\ offset' + t.size <= c'
        /\ kind = "struct" =>
             \A f \in Elements(fields') : f.own => Last(f) <= 8 * offset' + width
    <3>1. width <= 8 * t.size
      BY <1>3, <1>5
    <3>2. /\ c' \in Nat /\ offset' \in Nat /\ maxalign' \in Powers
          /\ IsSeq(decl') /\ IsSeq(fields')
          /\ kind' = kind => FieldsFit' /\ FieldsApart'
          /\ offset' + t.size <= c'
          /\ kind = "struct" =>
               \A f \in Elements(fields') : f.own => Last(f) <= 8 * offset' + width
      BY <1>3, <1>4, <1>5, <2>1, <2>2, <3>1, FirstBitField
    <3> QED
      BY <1>5, <3>2
  <2>4. TypeOK'
    BY <1>1, <1>5, <1>9, <2>3 DEF TypeOK
  <2>5. UnitFree'
    BY <1>5, <2>1, <2>3 DEF UnitFree, Made
  <2> QED
    BY <1>9, <2>3, <2>4, <2>5 DEF LayoutInv
<1>11. CASE lbit_pos # 0 /\ named
  <2>1. /\ kind = "struct" /\ t.bt = prevbt /\ bit_pos + width <= 8 * t.size
        /\ c' = c /\ offset' = offset /\ maxalign' = maxalign
        /\ allotted' = allotted /\ bit_pos' = bit_pos + width
    BY <1>6, <1>7, <1>8, <1>11
  <2>2. Push(TRUE, t, bit_pos, width, allotted, 1)
    BY <1>6, <1>7, <1>11, <2>1
  <2>3. /\ IsSeq(decl') /\ IsSeq(fields') /\ FieldsFit' /\ FieldsApart'
        /\ allotted =>
             \A f \in Elements(fields') : f.own => Last(f) <= 8 * offset + (bit_pos + width)
    BY <1>3, <1>5, <2>1, <2>2, NextBitField
  <2>4. TypeOK'
    BY <1>1, <1>5, <1>9, <2>1, <2>3 DEF TypeOK
  <2>5. UnitFree'
    BY <1>1, <1>5, <2>1, <2>3 DEF UnitFree, Made
  <2> QED
    BY <1>9, <2>3, <2>4, <2>5 DEF LayoutInv
<1>12. CASE ~named
  <2>1. UNCHANGED <<c, offset, maxalign, decl, fields>>
    BY <1>6, <1>12
  <2>2. TypeOK'
    BY <1>1, <1>5, <1>9, <2>1 DEF TypeOK
  <2>3. FieldsFit' /\ FieldsApart'
    BY <1>1, <1>5, <2>1 DEF FieldsFit, FieldsApart
  <2>4. UnitFree'
    <3> SUFFICES ASSUME kind = "struct", allotted' PROVE UnitFree'
      BY <1>5, <2>1 DEF UnitFree
    <3>1. lbit_pos # 0 /\ allotted /\ t.bt = prevbt /\ bit_pos' = bit_pos + width
      BY <1>6, <1>7, <1>8, <1>12
    <3>2. /\ \E u \in Made.scalars : u.bt = prevbt /\ offset + u.size <= c
          /\ \A f \in Elements(fields) : f.own => Last(f) <= 8 * offset + bit_pos
      BY <1>1, <3>1 DEF UnitFree
    <3>3. ASSUME NEW f \in Elements(fields), f.own
          PROVE  Last(f) <= 8 * offset + (bit_pos + width)
      <4>1. Last(f) \in Int
        BY <1>1 DEF FieldsFit, Fits, IsField, Last, First, Larger
      <4> QED
        BY <1>2, <1>3, <3>2, <3>3, <4>1
    <3> QED
      BY <1>5, <2>1, <3>1, <3>2, <3>3 DEF UnitFree, Made
  <2> QED
    BY <1>9, <2>2, <2>3, <2>4 DEF LayoutInv
<1> QED
  BY <1>10, <1>11, <1>12

LEMMA WholeFieldInv ==
    ASSUME LayoutInv, NEW t \in Made.scalars, NEW named \in BOOLEAN,
           NEW attr \in Made.attributes, NEW width \in Made.widths,
           WholeField(t, named, attr, width)
    PROVE  LayoutInv'
<1> DEFINE align == AlignOf(t, attr)
<1>1. TypeOK /\ FieldsFit /\ FieldsApart /\ TagsOK
  BY DEF LayoutInv
<1>2. t.size \in Int /\ t.align \in Powers
  BY <1>1, MemberType
<1>3. align \in Powers
  BY <1>1, <1>2, AlignOfPower
<1>4. /\ kind \in {"struct", "union"} /\ bit_pos' = 0 /\ allotted' = FALSE
      /\ kind' = kind /\ packs' = packs /\ tags' = tags /\ session' = session
      /\ IF named THEN Allot(t, align) /\ Push(TRUE, t, 0, 0, TRUE, align)
         ELSE UNCHANGED <<c, offset, maxalign, decl, fields>>
  BY <1>1 DEF WholeField, Declared, TypeOK
<1> HIDE DEF align
<1>5. UnitFree' /\ TagsOK'
  BY <1>1, <1>4 DEF UnitFree, TagsOK
<1>6. CASE named
  <2> DEFINE f == FieldAt(offset', t, 0, 0, TRUE, align)
             N == {f}
  <2>1. /\ offset' \in Nat /\ c' \in Nat /\ maxalign' \in Powers
        /\ c <= c' /\ maxalign <= maxalign'
    BY <1>1, <1>2, <1>3, <1>4, <1>6, AllotFits
  <2>2. /\ IsSeq(decl') /\ Len(decl') = Len(decl) + 1
        /\ IsSeq(fields') /\ Elements(fields') \subseteq Elements(fields) \cup N
    BY <1>1, <1>4, <1>6, PushNamed
  <2> HIDE DEF N
  <2>3. f = FieldAt(offset', t, 0, 0, TRUE, align)
    OBVIOUS
  <2> HIDE DEF f
  <2>4. /\ f.m = Len(decl) + 1 /\ Fits(f, c', maxalign')
        /\ kind = "struct" => \A g \in Elements(fields) : g.own /\ f.own => Last(g) <= First(f)
    <3>1. 0 \in Nat /\ TRUE \in BOOLEAN /\ (0 > 0 => 0 <= 8 * t.size)
      OBVIOUS
    <3> QED
      BY <1>1, <1>2, <1>3, <1>4, <1>6, <2>3, <3>1, NewField
  <2>5. /\ \A g \in N : g.m = Len(decl) + 1 /\ Fits(g, c', maxalign')
        /\ kind = "struct" =>
              \A g \in Elements(fields), h \in N : g.own /\ h.own => Last(g) <= First(h)
    BY <2>4 DEF N
  <2>6. FieldsFit' /\ FieldsApart'
    BY <1>1, <1>4, <2>1, <2>2, <2>5, Grow
  <2>7. TypeOK'
    BY <1>1, <1>4, <2>1, <2>2 DEF TypeOK
  <2> QED
    BY <1>5, <2>6, <2>7 DEF LayoutInv
<1>7. CASE ~named
  <2>1. UNCHANGED <<c, offset, maxalign, decl, fields>>
    BY <1>4, <1>7
  <2>2. TypeOK' /\ FieldsFit' /\ FieldsApart'
    BY <1>1, <1>4, <2>1 DEF TypeOK, FieldsFit, FieldsApart
  <2> QED
    BY <1>5, <2>2 DEF LayoutInv
<1> QED
  BY <1>6, <1>7

LEMMA OpenInv == LayoutInv /\ Open => LayoutInv'
<1> SUFFICES ASSUME LayoutInv, Open PROVE LayoutInv'
  OBVIOUS
<1>1. /\ decl' = <<>> /\ fields' = <<>> /\ c' = 0 /\ offset' = 0 /\ bit_pos' = 0
      /\ maxalign' = 1 /\ allotted' = FALSE /\ kind' \in {"struct", "union"}
      /\ packs' = packs /\ tags' = tags /\ session' = session
  BY DEF Open, Fresh
<1>2. IsSeq(decl') /\ IsSeq(fields') /\ Elements(fields') = {}
  BY <1>1, EmptySeq
<1>3. TypeOK'
  BY <1>1, <1>2 DEF LayoutInv, TypeOK, Powers
<1> QED
  BY <1>1, <1>2, <1>3 DEF LayoutInv, FieldsFit, FieldsApart, UnitFree, TagsOK

\* The struct that is closed is rounded up to its alignment, and so to that of
\* each field.
LEMMA CloseInv == LayoutInv /\ Close => LayoutInv'
<1> SUFFICES ASSUME LayoutInv, Close PROVE LayoutInv'
  OBVIOUS
<1> DEFINE size == RoundUp(c, maxalign)
           s == Struct(kind, decl, fields, size, maxalign)
<1>1. /\ decl' = <<>> /\ fields' = <<>> /\ c' = 0 /\ offset' = 0 /\ bit_pos' = 0
      /\ maxalign' = 1 /\ allotted' = FALSE /\ kind' = "none"
      /\ packs' = packs /\ tags' \subseteq tags \cup {s} /\ session' = session
  BY DEF Close, Fresh
<1>2. IsSeq(decl') /\ IsSeq(fields') /\ Elements(fields') = {}
  BY <1>1, EmptySeq
<1>3. TypeOK'
  BY <1>1, <1>2 DEF LayoutInv, TypeOK, Powers
<1>4. TypeOK /\ FieldsFit /\ TagsOK
  BY DEF LayoutInv
<1>5. c \in Nat /\ maxalign \in Powers /\ IsSeq(fields)
  BY <1>4 DEF TypeOK
<1>6. size \in Nat /\ size >= c /\ size % maxalign = 0
  BY <1>5, RoundUpAligned
<1>7. s.bt = "STRUCT" /\ s.size = size /\ s.align = maxalign /\ s.fields = fields
  BY DEF Struct
<1> HIDE DEF s, size
<1>8. ASSUME NEW f \in Elements(fields)
      PROVE  Fits(f, size, size)
  <2>1. IsField(f) /\ Inside(f, c) /\ Aligned(f, maxalign)
    BY <1>4 DEF FieldsFit, Fits
  <2>2. Last(f) \in Int /\ Larger(f.t.size, 0) \in Int /\ f.c \in Nat /\ f.al \in Powers
    BY <2>1 DEF IsField, Last, First, Larger
  <2>3. Inside(f, size)
    BY <1>5, <1>6, <2>1, <2>2 DEF Inside
  <2>4. f.own => f.al <= maxalign
    BY <1>5, <2>1, <2>2, PowersOrdered DEF Aligned
  <2>5. Aligned(f, size)
    BY <1>5, <1>6, <2>1, <2>2, <2>4, PowersDivide DEF Aligned
  <2> QED
    BY <2>1, <2>3, <2>5 DEF Fits
<1>9. TagsOK'
  BY <1>1, <1>4, <1>5, <1>6, <1>7, <1>8 DEF TagsOK
<1> QED
  BY <1>1, <1>2, <1>3, <1>9 DEF LayoutInv, FieldsFit, FieldsApart, UnitFree

LEMMA EndScopeInv == LayoutInv /\ EndScope => LayoutInv'
  BY DEF LayoutInv, EndScope, layout, TypeOK, FieldsFit, FieldsApart, UnitFree, TagsOK, Made

LEMMA PragmaInv == LayoutInv /\ pragma_parse => LayoutInv'
<1> SUFFICES ASSUME LayoutInv, pragma_parse PROVE LayoutInv'
  OBVIOUS
<1>1. packs \in Seq({0} \cup Powers) /\ Len(packs) >= 1 /\ session \in DOMAIN Sessions
  BY DEF LayoutInv, TypeOK
<1>2. UNCHANGED <<layout, tags, session>>
  BY DEF pragma_parse
<1>3. packs' \in Seq({0} \cup Powers) /\ Len(packs') >= 1
  <2>1. CASE PackPop
    <3>1. packs' = SubSeq(packs, 1, Len(packs) - 1) /\ Len(packs) > 1
      BY <2>1 DEF PackPop
    <3> QED
      BY <1>1, <3>1
  <2>2. ASSUME NEW n \in Made.pragmas, PackPush(n) \/ PackSet(n)
        PROVE  packs' \in Seq({0} \cup Powers) /\ Len(packs') >= 1
    <3>1. n \in {0} \cup Powers
      BY <1>1, LayoutAssumption DEF Made
    <3>2. CASE PackPush(n)
      <4>1. packs' = Append(packs, n)
        BY <3>2 DEF PackPush
      <4> QED
        BY <1>1, <3>1, <4>1
    <3>3. CASE PackSet(n)
      <4>1. packs' = [packs EXCEPT ![Len(packs)] = n]
        BY <3>3 DEF PackSet
      <4> QED
        BY <1>1, <3>1, <4>1
    <3> QED
      BY <2>2, <3>2, <3>3
  <2> QED
    BY <2>1, <2>2 DEF pragma_parse
<1> QED
  BY <1>2, <1>3 DEF LayoutInv, layout, TypeOK, FieldsFit, FieldsApart, UnitFree, TagsOK, Made

LEMMA NextInv == LayoutInv /\ [LayoutNext]_layoutVars => LayoutInv'
<1> SUFFICES ASSUME LayoutInv, [LayoutNext]_layoutVars PROVE LayoutInv'
  OBVIOUS
<1>1. CASE AddMember
  <2>1. PICK named \in BOOLEAN, attr \in Made.attributes :
           \/ \E t \in Made.scalars \cup Made.arrays \cup tags : Member(t, named, attr)
           \/ \E t \in Made.scalars, w \in Made.widths :
                 BitField(t, named, attr, w) \/ WholeField(t, named, attr, w)
    BY <1>1 DEF AddMember
  <2> QED
    BY <2>1, MemberInv, BitFieldInv, WholeFieldInv
<1>2. CASE UNCHANGED layoutVars
  BY <1>2 DEF LayoutInv, layoutVars, layout, TypeOK, FieldsFit, FieldsApart, UnitFree, TagsOK, Made
<1> QED
  BY <1>1, <1>2, OpenInv, CloseInv, EndScopeInv, PragmaInv DEF LayoutNext

-----------------------------------------------------------------------------
(* The theorem                                                             *)

\* The fields of every struct that struct_decl lays out are inside it, apart
\* and aligned, however long the program goes on.
THEOREM LayoutIsExact == LayoutSpec => []LayoutExact
<1>1. LayoutInit => LayoutInv
  BY InitInv
<1>2. LayoutInv /\ [LayoutNext]_layoutVars => LayoutInv'
  BY NextInv
<1>3. LayoutInv => LayoutExact
  BY InvExact
<1> QED
  BY <1>1, <1>2, <1>3, PTL DEF LayoutSpec
=============================================================================
