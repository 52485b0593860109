---------------------------- MODULE StructLayout ----------------------------
(***************************************************************************)
(* struct_decl: the members of a struct or union get their places one by   *)
(* one as they are read, under the alignment that attributes and #pragma   *)
(* pack allow, bit-fields in units of their types.  The members of an      *)
(* anonymous struct or union become fields of the one around it.           *)
(***************************************************************************)
EXTENDS Integers, Sequences, FiniteSets

CONSTANTS
    Sessions,         \* what programs declare, by name: see LayoutAssumption
    PACK_STACK_SIZE

Powers == {1, 2, 4, 8, 16}
NoAttribute == 0
Packed == -1

ASSUME LayoutAssumption ==
    /\ PACK_STACK_SIZE \in Nat \ {0}
    /\ \A n \in DOMAIN Sessions : LET s == Sessions[n] IN
        \* the types of members besides the structs declared here, and arrays
        \* of them; the size of one without length is negative
        /\ \A t \in s.scalars : t.size \in Powers /\ t.align \in Powers /\ t.bt # "STRUCT" /\ ~t.array
        /\ \A t, u \in s.scalars : t.bt = u.bt => t.size = u.size
        /\ \A t \in s.arrays : t.size \in Int /\ t.align \in Powers /\ t.bt # "STRUCT" /\ t.array
        /\ s.widths \subseteq Nat              \* of bit-fields
        /\ s.attributes \subseteq {NoAttribute, Packed} \cup Powers  \* n for aligned(n)
        /\ s.pragmas \subseteq {0} \cup Powers   \* of #pragma pack; 0 is that of pack()
        /\ s.members \in Nat                   \* bound: members of a struct
        /\ s.tags \in Nat                      \* bound: structs

VARIABLES
    session,      \* the name of what is declared
    kind,         \* "struct" or "union": what is being declared; or "none"
    decl,         \* its members as they were declared
    fields,       \* its fields: the same, without anonymous structs; m is the
                  \* member they come from, al the alignment that they got
    c, offset, bit_pos, prevbt, maxalign, flexible,   \* of struct_decl
    allotted,     \* has the unit of the last bit-field its memory?
    packs,        \* pack_stack up to pack_stack_ptr
    tags          \* the structs declared before

layout == <<kind, decl, fields, c, offset, bit_pos, prevbt, maxalign, flexible, allotted>>
layoutVars == <<layout, packs, tags, session>>

Made == Sessions[session]

RoundUp(n, a) == ((n + a - 1) \div a) * a
Larger(x, y) == IF x > y THEN x ELSE y
Smaller(x, y) == IF x < y THEN x ELSE y

\* The types that bit-fields may have
BitTypes == {"INT", "BYTE", "SHORT", "BOOL", "ENUM", "LLONG"}

Fresh == /\ decl' = <<>> /\ fields' = <<>> /\ c' = 0 /\ offset' = 0 /\ bit_pos' = 0
         /\ prevbt' = "INT" /\ maxalign' = 1 /\ flexible' = FALSE /\ allotted' = FALSE

LayoutInit ==
    /\ kind = "none" /\ decl = <<>> /\ fields = <<>> /\ c = 0 /\ offset = 0 /\ bit_pos = 0
    /\ prevbt = "INT" /\ maxalign = 1 /\ flexible = FALSE /\ allotted = FALSE
    /\ packs = <<0>> /\ tags = {} /\ session \in DOMAIN Sessions

\* struct { or union {
Open ==
    /\ kind = "none" /\ Cardinality(tags) < Made.tags
    /\ kind' \in {"struct", "union"}
    /\ Fresh
    /\ UNCHANGED <<packs, tags, session>>

\* The alignment of a member of type t
AlignOf(t, attr) ==
    CASE attr \in Powers -> Larger(t.align, attr)
      [] attr = Packed -> 1
      [] attr = NoAttribute /\ packs[Len(packs)] # 0 -> Smaller(t.align, packs[Len(packs)])
      [] OTHER -> t.align

Declared == kind # "none" /\ ~flexible

\* Memory for a member: a struct grows, a union is as large as the largest
Allot(t, align) ==
    /\ offset' = IF kind = "struct" THEN RoundUp(c, align) ELSE 0
    /\ c' = IF kind = "struct" THEN offset' + Larger(t.size, 0) ELSE Larger(t.size, c)
    /\ maxalign' = Larger(align, maxalign)

\* A field of an anonymous member m that starts at offset o
Copied(f, m, o, align) == [f EXCEPT !.c = o + @, !.m = m, !.al = Smaller(@, align)]

\* sym_push of the field.  own: is its unit in the memory of the struct?
Push(named, t, pos, width, own, align) ==
    LET f == [t |-> t, c |-> offset', pos |-> pos, width |-> width,
              own |-> own, m |-> Len(decl) + 1, al |-> align]
    IN  /\ Len(decl) < Made.members
        /\ decl' = Append(decl, [t |-> t, c |-> offset', pos |-> pos, width |-> width, named |-> named])
        /\ fields' = fields \o
              (IF named THEN <<f>>
               ELSE [i \in 1 .. Len(t.fields) |-> Copied(t.fields[i], f.m, offset', align)])

\* Mutant: a bit-field goes on in the unit before an ordinary member.
Member_KeepsUnit(t, named, attr) ==
    /\ Declared
    /\ named \/ t.bt = "STRUCT"
    /\ t.size >= 0 \/ (kind = "struct" /\ t.array /\ c # 0)
    /\ flexible' = (t.size < 0)
    /\ Allot(t, AlignOf(t, attr))
    /\ Push(named, t, 0, 0, TRUE, AlignOf(t, attr))
    /\ UNCHANGED <<kind, bit_pos, allotted, prevbt, packs, tags, session>>

\* A member that is not a bit-field.  A struct may have no name: its fields are
\* then copied.  An array without length can only end a struct.
Member(t, named, attr) ==
    /\ Declared
    /\ named \/ t.bt = "STRUCT"
    /\ t.size >= 0 \/ (kind = "struct" /\ t.array /\ c # 0)
    /\ flexible' = (t.size < 0)
    /\ bit_pos' = 0 /\ allotted' = FALSE
    /\ Allot(t, AlignOf(t, attr))
    /\ Push(named, t, 0, 0, TRUE, AlignOf(t, attr))
    /\ UNCHANGED <<kind, prevbt, packs, tags, session>>

\* A bit-field narrower than its type: in the current unit, if it has room
\* and the type is the same, or at the start of a new one.  Only a named one
\* at the start gets memory.
BitField(t, named, attr, width) ==
    /\ Declared
    /\ t.bt \in BitTypes /\ 0 < width /\ width < 8 * t.size
    /\ LET starts == bit_pos + width > 8 * t.size \/ t.bt # prevbt \/ kind = "union"
           lbit_pos == IF starts THEN 0 ELSE bit_pos
       IN  /\ bit_pos' = lbit_pos + width
           /\ IF named /\ lbit_pos = 0 THEN Allot(t, AlignOf(t, attr))
              ELSE UNCHANGED <<c, offset, maxalign>>
           /\ allotted' = IF lbit_pos = 0 THEN named ELSE allotted
           /\ IF named THEN Push(TRUE, t, lbit_pos, width, allotted', IF lbit_pos = 0 THEN AlignOf(t, attr) ELSE 1)
              ELSE UNCHANGED <<decl, fields>>
    /\ prevbt' = t.bt
    /\ UNCHANGED <<kind, flexible, packs, tags, session>>

\* One of width 0, which has no name, or of all the bits of its type
WholeField(t, named, attr, width) ==
    /\ Declared
    /\ t.bt \in BitTypes /\ width \in {0, 8 * t.size} /\ (width = 0 => ~named)
    /\ bit_pos' = 0 /\ allotted' = FALSE /\ prevbt' = t.bt
    /\ IF named THEN /\ Allot(t, AlignOf(t, attr))
                     /\ Push(TRUE, t, 0, 0, TRUE, AlignOf(t, attr))
       ELSE UNCHANGED <<c, offset, maxalign, decl, fields>>
    /\ UNCHANGED <<kind, flexible, packs, tags, session>>

\* The type that a declaration makes; type_size
Struct(k, ds, fs, size, align) ==
    [bt |-> "STRUCT", union |-> k = "union", size |-> size, align |-> align,
     array |-> FALSE, decl |-> ds, fields |-> fs]

\* The end of the declaration.  C wants at least one field.
Close ==
    /\ kind # "none" /\ fields # <<>>
    /\ kind' = "none"
    /\ tags' = IF flexible THEN tags
               ELSE tags \cup {Struct(kind, decl, fields, RoundUp(c, maxalign), maxalign)}
    /\ Fresh
    /\ UNCHANGED <<packs, session>>

\* The end of the scope of the declarations
EndScope ==
    /\ kind = "none" /\ tags # {}
    /\ tags' = {}
    /\ UNCHANGED <<layout, packs, session>>

\* #pragma pack(push,n), #pragma pack(n) and #pragma pack(), also among members
PackPush(n) == n # 0 /\ Len(packs) < PACK_STACK_SIZE /\ packs' = Append(packs, n)
PackSet(n) == packs' = [packs EXCEPT ![Len(packs)] = n]
PackPop == Len(packs) > 1 /\ packs' = SubSeq(packs, 1, Len(packs) - 1)

pragma_parse ==
    /\ PackPop \/ \E n \in Made.pragmas : PackPush(n) \/ PackSet(n)
    /\ UNCHANGED <<layout, tags, session>>

AddMember ==
    \E named \in BOOLEAN, attr \in Made.attributes :
        \/ \E t \in Made.scalars \cup Made.arrays \cup tags : Member(t, named, attr)
        \/ \E t \in Made.scalars, w \in Made.widths :
              BitField(t, named, attr, w) \/ WholeField(t, named, attr, w)

LayoutNext == Open \/ AddMember \/ Close \/ EndScope \/ pragma_parse

LayoutSpec == LayoutInit /\ [][LayoutNext]_layoutVars

-----------------------------------------------------------------------------
(* Properties                                                              *)

\* The bits from First up to Last are those of a field
First(f) == 8 * f.c + f.pos
Last(f) == IF f.width = 0 THEN 8 * (f.c + Larger(f.t.size, 0)) ELSE First(f) + f.width

\* The memory of a field, with the whole unit of a bit-field, is in the first n bytes
Inside(f, n) == f.own => f.c >= 0 /\ f.c + Larger(f.t.size, 0) <= n /\ Last(f) <= 8 * n

Apart(f, g) == f.own /\ g.own => Last(f) <= First(g) \/ Last(g) <= First(f)

\* Also in an array of structs of size n
Aligned(f, n) == f.own => f.c % f.al = 0 /\ n % f.al = 0

\* Of a struct or union that is declared: every field and bit-field lies in
\* its memory, those of different members of a struct never share a bit, and
\* each keeps its alignment wherever the struct may lie (struct_decl).  Left out
\* are bit-fields that follow an unnamed one in a unit without memory, for
\* which this fails: section 4 of the README.
LayoutExact ==
    /\ \A i \in DOMAIN fields : Inside(fields[i], c) /\ Aligned(fields[i], maxalign)
    /\ kind = "struct" =>
         \A i, j \in DOMAIN fields : fields[i].m # fields[j].m => Apart(fields[i], fields[j])
    /\ \A s \in tags : \A i \in DOMAIN s.fields : Inside(s.fields[i], s.size) /\ Aligned(s.fields[i], s.size)
=============================================================================
