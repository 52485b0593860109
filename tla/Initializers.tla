---------------------------- MODULE Initializers ----------------------------
(***************************************************************************)
(* decl_initializer: an object of a declared type is filled from a list of *)
(* values.  The recursion of decl_initializer and decl_designator is a     *)
(* stack of frames; each token that next() brings is also read by the      *)
(* reader of InitMeaning, which says where C puts its value.               *)
(*                                                                         *)
(* An object with static storage is in a section that is zero, one with    *)
(* automatic storage holds garbage until something is stored.  Values are  *)
(* small and not negative.  Left out are ranges of designators, adjacent   *)
(* strings, expressions of struct type, flexible arrays and labels.        *)
(***************************************************************************)
EXTENDS StructLayout, InitMeaning, FiniteSetsExt, Bitwise

CONSTANTS
    Nothing,        \* no object
    MaxLength       \* bound: of an array that has no length

ASSUME NothingAssumption == MaxLength \in Nat

VARIABLES
    object,         \* [t, auto, n]: the object that is initialized, or Nothing; n
                    \* is the length that an array without one has got
    tok,            \* the current token
    frames,         \* calls of decl_initializer, the last one inside the others.
                    \* cur is index or f, length array_length; strayed: did the
                    \* last value have several designators? (see Fault)
    pc,             \* where the last one is
    arg,            \* what decl_initializer is to initialize: its type and place
    mem,            \* the bytes of the object
    reader          \* of InitMeaning

initVars == <<object, tok, frames, pc, arg, mem, reader>>
vars == <<layoutVars, initVars>>

Garbage == 91

top == frames[Len(frames)]
Callers == SubSeq(frames, 1, Len(frames) - 1)
Replace(f) == frames' = Append(Callers, f)
Call(t, c0, braced) ==
    frames' = Append(frames, [t |-> t, c |-> c0, braced |-> braced, cur |-> IF t.array THEN 0 ELSE 1,
                              length |-> 0, strayed |-> FALSE])

-----------------------------------------------------------------------------
(* Memory                                                                  *)

\* The number in the bytes of a place, and memory with another number there
Unit(m, a) == FoldSet(LAMBDA i, x : x + m[a.c + i] * 256^i, 0, 0 .. a.t.size - 1)
SetUnit(m, a, x) ==
    [i \in DOMAIN m |-> IF i \in a.c .. a.c + a.t.size - 1 THEN (x \div 256^(i - a.c)) % 256 ELSE m[i]]

Content(m, a) == IF a.width = 0 THEN Unit(m, a) ELSE (Unit(m, a) \div 2^a.pos) % 2^a.width

\* init_putv: an | into the section, or vstore
init_putv(m, a, v) ==
    SetUnit(m, a, IF object.auto THEN Unit(m, a) + (v - Content(m, a)) * 2^a.pos
                  ELSE Unit(m, a) | (v * 2^a.pos))

\* init_putz: a section is already zero
init_putz(m, from, to) ==
    IF object.auto THEN [i \in DOMAIN m |-> IF i >= from /\ i < to THEN 0 ELSE m[i]] ELSE m

\* A string and its zero, as far as there is room
PutString(m, from, n, v, size) ==
    [i \in DOMAIN m |->
        CASE i >= from /\ i < from + n /\ (size < 0 \/ i < from + size) -> v
          [] i = from + n /\ (size < 0 \/ n < size) /\ object.auto -> 0
          [] OTHER -> m[i]]

-----------------------------------------------------------------------------
(* Reading                                                                 *)

Tokens == [k : {"{", "}", ",", "=", ";"}] \cup [k : {"value"}, v : Made.values]
          \cup [k : {"string"}, n : 0 .. MaxLength, v : {1}]
          \cup [k : {"."}, i : 1 .. 2 * MaxLength] \cup [k : {"["}, i : 0 .. MaxLength - 1]

\* next(): any token that C allows here
next(r) == \E token \in {k \in Tokens : Legal(r, k, MaxLength)} : tok' = token /\ reader' = Read(r, token)
Keep == UNCHANGED <<tok, reader>>

Goto(l) == pc' = l
Return == Goto(IF Len(frames) = 1 THEN "end" ELSE "after")
Fails == Goto("error") /\ Keep /\ UNCHANGED <<frames, arg, mem>>

IsDesignator == tok.k \in {".", "["}

ArgOf(t, c0, pos, width, first) == [t |-> t, c |-> c0, pos |-> pos, width |-> width, first |-> first]
ElementArg(t, c0, i) == ArgOf(t.elem, c0 + i * t.elem.size, 0, 0, FALSE)
FieldArg(t, c0, i) ==
    LET f == t.fields[i] IN ArgOf(f.t, c0 + f.c, f.pos, f.width, FALSE)

-----------------------------------------------------------------------------
(* Known faults, which section 4 of the README lists: the object is then   *)
(* not followed any further.                                               *)

\* A union around an anonymous struct: its fields are not all at one place
Crowded(t) == IsUnion(t) /\ \E i \in DOMAIN t.decl : ~t.decl[i].named /\ Len(t.decl[i].t.fields) > 1

Fault ==
    \* a designator among values without braces of their own
    \/ pc = "loop" /\ IsDesignator /\ ~top.braced
    \* the value after one with several designators
    \/ pc = "loop" /\ ~IsDesignator /\ tok.k # "}" /\ top.strayed
    \* another value among the fields of such a union
    \/ /\ pc = "loop" /\ ~IsDesignator /\ tok.k # "}" /\ IsStruct(top.t) /\ top.cur > 1
       /\ Crowded(top.t) \/ \E i \in DOMAIN top.t.decl : ~top.t.decl[i].named /\ Crowded(top.t.decl[i].t)
    \* a second value for a part of a section, or without braces for an
    \* aggregate on the stack
    \/ /\ pc = "initializer"
       /\ IF IsScalar(arg.t) THEN ~object.auto /\ Content(mem, arg) # 0
          ELSE /\ object.auto => tok.k # "{" /\ ~(tok.k = "string" /\ IsCharArray(arg.t))
               /\ \E i \in DOMAIN mem :
                     i >= arg.c /\ i < arg.c + arg.t.size /\ mem[i] \notin {0, Garbage}
    \* a designator that turns a union to another member
    \/ pc = "designator" /\ tok.k = "=" /\ \E w \in reader.values : Displaces(Here(reader).p, w.p)
    \* braces around the members of an anonymous struct
    \/ pc = "initializer" /\ tok.k = "{" /\ ~Top(reader).named
    \* a comma after the only value in braces
    \/ pc \in {"after", "close"} /\ tok.k = "," /\ top.braced /\ (IsScalar(top.t) \/ pc = "close")
    \* several designators into a part of the stack without values yet
    \/ /\ pc = "designator" /\ IsDesignator /\ object.auto
       /\ ~\E w \in reader.values : Prefix(Top(reader).p, w.p)

-----------------------------------------------------------------------------
(* decl_initializer                                                        *)

At(l) == object # Nothing /\ pc = l /\ ~Fault
Unmoved == UNCHANGED <<layoutVars, object>>

OpenArray ==
    /\ At("initializer") /\ arg.t.array
    /\ IF tok.k = "{" THEN next(reader) /\ Call(arg.t, arg.c, TRUE) /\ Goto("array") /\ UNCHANGED <<arg, mem>>
       ELSE IF arg.first /\ tok.k # "string" THEN Fails
       ELSE Keep /\ Call(arg.t, arg.c, FALSE) /\ Goto("array") /\ UNCHANGED <<arg, mem>>
    /\ Unmoved

\* The whole array from a string, or a list
ArrayBody ==
    /\ At("array")
    /\ IF tok.k = "string" /\ IsCharArray(top.t)
       THEN LET n == top.t.n
                length == IF n < 0 \/ tok.n < n THEN tok.n + 1 ELSE n
            IN  /\ mem' = PutString(mem, top.c, tok.n, tok.v, n)
                /\ Replace([top EXCEPT !.length = length])
                /\ next(reader) /\ Goto("close") /\ UNCHANGED arg
       ELSE Keep /\ Goto("loop") /\ UNCHANGED <<frames, arg, mem>>
    /\ Unmoved

OpenStruct ==
    /\ At("initializer") /\ IsStruct(arg.t)
    /\ IF tok.k = "{" THEN next(reader) /\ Call(arg.t, arg.c, TRUE) /\ Goto("loop") /\ UNCHANGED <<arg, mem>>
       ELSE IF arg.first THEN Fails
       ELSE Keep /\ Call(arg.t, arg.c, FALSE) /\ Goto("loop") /\ UNCHANGED <<arg, mem>>
    /\ Unmoved

\* A scalar may have braces too
Scalar ==
    /\ At("initializer") /\ IsScalar(arg.t)
    /\ CASE tok.k = "{" -> next(reader) /\ Call(arg.t, arg.c, TRUE) /\ UNCHANGED <<pc, arg, mem>>
         [] tok.k = "value" ->
               /\ mem' = init_putv(mem, arg, tok.v)
               /\ next(reader) /\ Goto(IF frames = <<>> THEN "end" ELSE "after")
               /\ UNCHANGED <<frames, arg>>
         [] OTHER -> Fails
    /\ Unmoved

-----------------------------------------------------------------------------
(* decl_designator                                                         *)

\* The part of type t at c0 that a designator names, or none
Named(t, c0) ==
    CASE tok.k = "[" /\ t.array /\ (t.n < 0 \/ tok.i < t.n) -> {ElementArg(t, c0, tok.i)}
      [] tok.k = "." /\ IsStruct(t) /\ tok.i \in DOMAIN t.fields -> {FieldArg(t, c0, tok.i)}
      [] OTHER -> {}

Designate ==
    /\ At("loop") /\ IsDesignator
    /\ IF Named(top.t, top.c) = {} THEN Fails
       ELSE /\ arg' \in Named(top.t, top.c)
            /\ Replace([top EXCEPT !.cur = tok.i, !.strayed = FALSE])
            /\ next(reader) /\ Goto("designator") /\ UNCHANGED mem
    /\ Unmoved

DesignateMore ==
    /\ At("designator") /\ IsDesignator
    /\ IF Named(arg.t, arg.c) = {} THEN Fails
       ELSE /\ arg' \in Named(arg.t, arg.c)
            /\ next(reader) /\ UNCHANGED <<frames, pc, mem>>
    /\ Unmoved

Equals ==
    /\ At("designator") /\ tok.k = "="
    /\ next(reader) /\ Goto("initializer")
    /\ UNCHANGED <<frames, arg, mem>> /\ Unmoved

\* Without designator: the current element or field
Positional ==
    /\ At("loop") /\ ~IsDesignator /\ tok.k # "}"
    /\ IF top.t.array THEN arg' = ElementArg(top.t, top.c, top.cur) /\ Goto("initializer") /\ Keep /\ UNCHANGED <<frames, mem>>
       ELSE IF top.cur > Len(top.t.fields) THEN Fails
       ELSE arg' = FieldArg(top.t, top.c, top.cur) /\ Goto("initializer") /\ Keep /\ UNCHANGED <<frames, mem>>
    /\ Unmoved

ListEnds ==
    /\ At("loop") /\ tok.k = "}"
    /\ Goto("close") /\ Keep
    /\ UNCHANGED <<frames, arg, mem>> /\ Unmoved

-----------------------------------------------------------------------------
(* After an element or a field                                             *)

\* Is C still in a part that several designators named?  Anonymous structs
\* are the same object here.
RECURSIVE Solid(_)
Solid(levels) == IF levels[Len(levels)].named \/ levels[Len(levels)].braced THEN levels[Len(levels)]
                 ELSE Solid(Outer(levels))
Strays == top.braced /\ ~Solid(reader.levels).braced

\* The end of the list, or a comma and the next one
Goes(f, ends) ==
    IF ends \/ tok.k = "}" THEN Replace(f) /\ Goto("close") /\ Keep
    ELSE IF tok.k = "," THEN Replace([f EXCEPT !.strayed = Strays]) /\ next(reader) /\ Goto("loop")
    ELSE frames' = frames /\ Goto("error") /\ Keep

AfterElement ==
    /\ At("after") /\ top.t.array
    /\ LET size == top.t.elem.size
           i == top.cur + 1
       IN  IF top.t.n >= 0 /\ top.cur >= top.t.n THEN Goto("error") /\ Keep /\ UNCHANGED <<frames, mem>>
           ELSE
           /\ mem' = IF top.length < top.cur
                     THEN init_putz(mem, top.c + top.length * size, top.c + top.cur * size) ELSE mem
           /\ Goes([top EXCEPT !.cur = i, !.length = Larger(@, i)], i >= top.t.n /\ ~top.braced)
    /\ UNCHANGED arg /\ Unmoved

\* The last of the fields from i that share its place: they are skipped
SamePlace(f, g) == f.c = g.c /\ (f.width > 0 /\ g.width > 0 => f.pos = g.pos)
\* Mutant: also the bit-fields of one unit.
LastOfUnion_AnyPlace(fs, i) ==
    CHOOSE j \in i .. Len(fs) : /\ \A k \in i .. j - 1 : fs[k].c = fs[k + 1].c
                                /\ j = Len(fs) \/ fs[j].c # fs[j + 1].c
LastOfUnion(fs, i) ==
    CHOOSE j \in i .. Len(fs) : /\ \A k \in i .. j - 1 : SamePlace(fs[k], fs[k + 1])
                                /\ j = Len(fs) \/ ~SamePlace(fs[j], fs[j + 1])

AfterField ==
    /\ At("after") /\ IsStruct(top.t)
    /\ LET fs == top.t.fields
           f == fs[top.cur]
           i == LastOfUnion(fs, top.cur) + 1
       IN  /\ mem' = IF top.length < f.c THEN init_putz(mem, top.c + top.length, top.c + f.c) ELSE mem
           /\ Goes([top EXCEPT !.cur = i, !.length = Larger(@, f.c + f.t.size)],
                   ~top.braced /\ i > Len(fs))
    /\ UNCHANGED arg /\ Unmoved

\* The braces of a scalar
AfterScalar ==
    /\ At("after") /\ IsScalar(top.t)
    /\ IF tok.k = "}" THEN next(reader) /\ frames' = Callers /\ Return /\ UNCHANGED <<arg, mem>> ELSE Fails
    /\ Unmoved

\* The end of decl_initializer for an array or a struct: zeros up to its end,
\* and the length of an array without one
CloseList ==
    /\ At("close")
    /\ LET size == IF top.t.array THEN top.t.elem.size ELSE 1
           n == IF top.t.array THEN top.t.n ELSE top.t.size
       IN  IF top.braced /\ tok.k # "}" THEN Fails
           ELSE /\ mem' = IF top.length < n THEN init_putz(mem, top.c + top.length * size, top.c + n * size) ELSE mem
                /\ frames' = Callers /\ Return /\ UNCHANGED arg
                /\ IF top.braced THEN next(reader) ELSE Keep
    /\ object' = IF top.t.array /\ top.t.n < 0 THEN [object EXCEPT !.n = top.length] ELSE object
    /\ UNCHANGED layoutVars

-----------------------------------------------------------------------------
(* Objects                                                                 *)

ArrayOf(t, n) == [bt |-> "PTR", array |-> TRUE, size |-> t.size * n, align |-> t.align,
                  fields |-> <<>>, elem |-> t, n |-> n]

\* Objects whose fields have all memory of their own
Sound(t) == \A i \in DOMAIN t.fields : t.fields[i].own

Objects == LET ts == {t \in tags : Sound(t)} \cup Made.arrays
           IN  ts \cup {ArrayOf(t, n) : t \in ts, n \in Made.lengths}

\* decl_initializer_alloc.  The pack stack plays no part here: objects are made
\* when it is empty.
Define ==
    /\ object = Nothing /\ kind = "none" /\ packs = <<0>>
    /\ \E t \in Objects, auto \in Made.storage :
          /\ object' = [t |-> t, auto |-> auto, n |-> 0]
          /\ mem' = [i \in 0 .. (IF t.size < 0 THEN MaxLength * t.elem.size ELSE t.size) - 1 |->
                        IF auto THEN Garbage ELSE 0]
          /\ frames' = <<>> /\ pc' = "initializer" /\ arg' = ArgOf(t, 0, 0, 0, TRUE)
          /\ next(Start(t))
    /\ UNCHANGED layoutVars

Forget == /\ object' = Nothing /\ tok' = Nothing /\ frames' = <<>> /\ pc' = "end"
          /\ arg' = Nothing /\ mem' = <<>> /\ reader' = Nothing

Finish ==
    /\ object # Nothing /\ (pc = "end" \/ Fault)
    /\ Forget /\ UNCHANGED layoutVars

Init == /\ LayoutInit
        /\ object = Nothing /\ tok = Nothing /\ frames = <<>> /\ pc = "end"
        /\ arg = Nothing /\ mem = <<>> /\ reader = Nothing

Next == \/ LayoutNext /\ object = Nothing /\ UNCHANGED initVars
        \/ Define \/ Finish
        \/ OpenArray \/ ArrayBody \/ OpenStruct \/ Scalar
        \/ Designate \/ DesignateMore \/ Equals \/ Positional \/ ListEnds
        \/ AfterElement \/ AfterField \/ AfterScalar \/ CloseList

Spec == Init /\ [][Next]_vars

-----------------------------------------------------------------------------
(* Properties                                                              *)

\* In an object on the stack, the bit-fields without a value next to one with
\* a value keep what was there: section 4 of the README
LeftOver(l, leaves) ==
    /\ object.auto /\ l.width > 0 /\ ~\E w \in reader.values : w.p = l.p
    /\ \E k \in leaves : k.c = l.c /\ k.width > 0 /\ \E w \in reader.values : w.p = k.p

\* decl_initializer accepts every list that C allows, and at its end each part
\* of the object holds the value that C gives it: its last one, or zero.  An
\* array without length gets that of its last element.
InitExact ==
    /\ pc # "error"
    /\ (object # Nothing /\ pc = "end") =>
          /\ tok.k = ";"
          /\ object.t.array /\ object.t.n < 0 => object.n = reader.n
          /\ LET leaves == Leaves(object.t, <<>>, 0, reader.n)
             IN  \A l \in leaves :
                    Alive(l.p, reader.values) /\ ~LeftOver(l, leaves)
                      => Content(mem, l) = ValueOf(l.p, reader.values)
=============================================================================
