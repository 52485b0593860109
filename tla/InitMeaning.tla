---------------------------- MODULE InitMeaning ----------------------------
(***************************************************************************)
(* The initializers of C: which part of an object each value of a list is  *)
(* for, and what the parts without a value are.  A list is read token by   *)
(* token.  This is C (section 6.7.8 of C99), not the compiler.             *)
(*                                                                         *)
(* An object is a tree of types: arrays have elem and n, negative if their *)
(* length is not known; structs and unions have decl.  A part is named by  *)
(* its path, a sequence of steps <<number, in a union?>>.                  *)
(***************************************************************************)
EXTENDS Integers, Sequences, FiniteSets

IsStruct(t) == t.bt = "STRUCT"
IsScalar(t) == ~t.array /\ ~IsStruct(t)
IsUnion(t) == IsStruct(t) /\ t.union
IsCharArray(t) == t.array /\ t.elem.bt = "BYTE"

\* The parts of an aggregate, numbered from 0
Count(t) == IF t.array THEN t.n ELSE IF IsStruct(t) THEN Len(t.decl) ELSE 1
Part(t, i) == IF t.array THEN t.elem ELSE t.decl[i + 1].t
Step(t, i) == <<i, IsUnion(t)>>

Prefix(p, q) == Len(p) <= Len(q) /\ SubSeq(q, 1, Len(p)) = p

\* Two parts of which the second ends the life of the first: they differ
\* first in the member of a union
Displaces(p, q) ==
    \E k \in 1 .. Len(p) : /\ k <= Len(q) /\ p[k] # q[k] /\ p[k][2]
                           /\ SubSeq(p, 1, k - 1) = SubSeq(q, 1, k - 1)

(***************************************************************************)
(* The state of a reader: levels, one for each aggregate around the        *)
(* current part, with the number of that part; what is expected next; the  *)
(* values of the parts so far; and the length of an array that has none.   *)
(***************************************************************************)
Start(t) == [t |-> t, levels |-> <<>>, expect |-> "object", values |-> {}, n |-> 0]

Top(r) == r.levels[Len(r.levels)]
Outer(levels) == SubSeq(levels, 1, Len(levels) - 1)

Level(t, p, i, braced, named) == [t |-> t, p |-> p, i |-> i, braced |-> braced, named |-> named]

\* The current part
Here(r) ==
    IF r.levels = <<>> THEN [t |-> r.t, p |-> <<>>, named |-> TRUE]
    ELSE LET l == Top(r)
         IN  IF IsScalar(l.t) THEN [t |-> l.t, p |-> l.p, named |-> TRUE]
             ELSE [t |-> Part(l.t, l.i), p |-> Append(l.p, Step(l.t, l.i)),
                   named |-> IsStruct(l.t) => l.t.decl[l.i + 1].named]

Ended(l) == Count(l.t) >= 0 /\ l.i >= Count(l.t)
HasPart(r) == r.levels = <<>> \/ ~Ended(Top(r))

Entered(r) == LET h == Here(r) IN Append(r.levels, Level(h.t, h.p, 0, FALSE, h.named))

\* Without braces a value is for the first scalar of the current part, and a
\* string for its first array of char
RECURSIVE Descend(_)
Descend(r) == IF IsScalar(Here(r).t) THEN r ELSE Descend([r EXCEPT !.levels = Entered(r)])

RECURSIVE DescendToChars(_)
DescendToChars(r) ==
    IF IsScalar(Here(r).t) \/ IsCharArray(Here(r).t) THEN r
    ELSE DescendToChars([r EXCEPT !.levels = Entered(r)])

\* The braces of an array of char may hold a string for all of it
Whole(r) == r.expect = "first" /\ IsCharArray(Top(r).t)
StringPart(r) == IF Whole(r) THEN [t |-> Top(r).t, p |-> Top(r).p] ELSE Here(DescendToChars(r))

\* The length of an array without one, from the parts in use
Longer(r, p) == IF r.t.array /\ r.t.n < 0 /\ p # <<>> /\ p[1][1] + 1 > r.n THEN p[1][1] + 1 ELSE r.n

Without(values, p) == {w \in values : ~Prefix(p, w.p) /\ ~Displaces(p, w.p)}
Write(r, p, v) == [r EXCEPT !.values = Without(@, p) \cup {[p |-> p, v |-> v]}, !.n = Longer(r, p)]

\* After a comma: the next part of the innermost list that has one
RECURSIVE Advance(_)
Advance(levels) ==
    LET l == levels[Len(levels)]
        next == [l EXCEPT !.i = IF IsUnion(l.t) THEN Count(l.t) ELSE @ + 1]
    IN  IF Ended(next) /\ ~l.braced THEN Advance(Outer(levels))
        ELSE Append(Outer(levels), next)

RECURSIVE Braced(_)
Braced(levels) == IF levels[Len(levels)].braced THEN levels ELSE Braced(Outer(levels))

\* The levels that a designator of field f leads to; an anonymous member is
\* entered to reach the fields in it
RECURSIVE Select(_, _)
Select(levels, f) ==
    LET l == levels[Len(levels)]
        m == l.t.fields[f].m
        chosen == Append(Outer(levels), [l EXCEPT !.i = m - 1])
        first == CHOOSE g \in DOMAIN l.t.fields :
                    l.t.fields[g].m = m /\ \A h \in 1 .. g - 1 : l.t.fields[h].m # m
    IN  IF l.t.decl[m].named THEN chosen
        ELSE Select(Append(chosen, Level(l.t.decl[m].t, Append(l.p, Step(l.t, m - 1)), 0, FALSE, FALSE)),
                    f - first + 1)

\* Where a designator applies: the braces around, or the part designated so far
Designated(r) == IF r.expect = "designator" THEN Entered(r) ELSE Braced(r.levels)

Starts(r) == r.expect \in {"object", "first", "item", "value"}
Lists(r) == r.expect \in {"first", "item"}

\* The tokens that may come next.  Values and lengths of strings are bounded.
Legal(r, tok, most) ==
    CASE tok.k = "{" -> /\ Starts(r) /\ HasPart(r) /\ (r.levels # <<>> => ~IsScalar(Top(r).t))
                        /\ Longer(r, Here(r).p) <= most
      [] tok.k = "value" -> /\ Starts(r) /\ HasPart(r) /\ (r.levels = <<>> => IsScalar(r.t))
                            /\ Longer(r, Here(r).p) <= most
      [] tok.k = "string" ->
            /\ Starts(r) /\ HasPart(r) /\ (r.levels = <<>> => IsCharArray(r.t))
            /\ LET h == StringPart(r)
               IN  /\ IsCharArray(h.t)
                   /\ IF h.t.n < 0 THEN tok.n + 1 <= most
                      ELSE tok.n <= h.t.n /\ Longer(r, h.p) <= most
      [] tok.k \in {".", "["} ->
            /\ Lists(r) \/ (r.expect = "designator" /\ ~IsScalar(Here(r).t))
            /\ LET t == Designated(r)[Len(Designated(r))].t
               IN  IF tok.k = "." THEN IsStruct(t) /\ tok.i \in DOMAIN t.fields
                   ELSE t.array /\ (IF t.n < 0 THEN tok.i < most ELSE tok.i < t.n)
      [] tok.k = "=" -> r.expect = "designator"
      [] tok.k = "," -> r.expect = "after" /\ r.levels # <<>>
      [] tok.k = "}" -> r.expect \in {"after", "item"} /\ r.levels # <<>>
      [] tok.k = ";" -> r.expect = "after" /\ r.levels = <<>>

Read(r, tok) ==
    CASE tok.k = "{" ->
            LET h == Here(r)
            IN  [r EXCEPT !.levels = Append(@, Level(h.t, h.p, 0, TRUE, h.named)), !.expect = "first",
                          !.values = Without(@, h.p), !.n = Longer(r, h.p)]
      [] tok.k = "value" ->
            LET d == Descend(r) IN [Write(d, Here(d).p, tok.v) EXCEPT !.expect = "after"]
      [] tok.k = "string" ->
            LET h == StringPart(r)
                d == IF Whole(r) THEN [r EXCEPT !.levels = Append(Outer(@), [Top(r) EXCEPT !.i = Count(h.t)])]
                     ELSE DescendToChars(r)
                clear == Without(r.values, h.p)
            IN  [d EXCEPT !.values = clear \cup {[p |-> Append(h.p, Step(h.t, k)), v |-> tok.v] : k \in 0 .. tok.n - 1},
                          !.n = IF h.t.n < 0 THEN tok.n + 1 ELSE Longer(r, h.p),
                          !.expect = "after"]
      [] tok.k = "." -> [r EXCEPT !.levels = Select(Designated(r), tok.i), !.expect = "designator"]
      [] tok.k = "[" ->
            LET ls == Designated(r)
            IN  [r EXCEPT !.levels = Append(Outer(ls), [ls[Len(ls)] EXCEPT !.i = tok.i]),
                          !.expect = "designator"]
      [] tok.k = "=" -> [r EXCEPT !.expect = "value"]
      [] tok.k = "," -> [r EXCEPT !.levels = Advance(@), !.expect = "item"]
      [] tok.k = "}" -> [r EXCEPT !.levels = Outer(Braced(@)), !.expect = "after"]
      [] tok.k = ";" -> [r EXCEPT !.expect = "end"]

-----------------------------------------------------------------------------
(* The object at the end                                                   *)

\* The scalars of an object of type t at address c, with their places
RECURSIVE Leaves(_, _, _, _)
Leaves(t, p, c, n) ==
    CASE IsScalar(t) -> {[p |-> p, t |-> t, c |-> c, pos |-> 0, width |-> 0]}
      [] t.array -> UNION {Leaves(t.elem, Append(p, Step(t, i)), c + i * t.elem.size, t.elem.n) :
                             i \in 0 .. (IF t.n < 0 THEN n ELSE t.n) - 1}
      [] IsStruct(t) ->
            UNION {LET d == t.decl[i]
                       q == Append(p, Step(t, i - 1))
                   IN  IF d.width > 0
                       THEN {[p |-> q, t |-> d.t, c |-> c + d.c, pos |-> d.pos, width |-> d.width]}
                       ELSE Leaves(d.t, q, c + d.c, 0) : i \in DOMAIN t.decl}

\* In a union, what the value is for; the first member if there is none
Alive(p, values) ==
    /\ \A w \in values : ~Displaces(w.p, p)
    /\ \A k \in DOMAIN p : (p[k][2] /\ p[k][1] # 0) =>
          \E w \in values : Prefix(SubSeq(p, 1, k), w.p)

ValueOf(p, values) == IF \E w \in values : w.p = p THEN (CHOOSE w \in values : w.p = p).v ELSE 0
=============================================================================
