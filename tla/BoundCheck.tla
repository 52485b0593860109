----------------------------- MODULE BoundCheck -----------------------------
(***************************************************************************)
(* The bounds checker of lib/bcheck.c: a table of two levels over the      *)
(* address space, whose cells hold lists of regions.  A region is in the   *)
(* list of the cells of its first byte and of the byte after its last, and *)
(* alone in the cells between them.  Every lookup moves the region it      *)
(* finds to the head of its list.                                          *)
(*                                                                         *)
(* The memory of the program is its regions; malloc and the frames of      *)
(* functions are modelled by where they may place one.                     *)
(***************************************************************************)
EXTENDS Integers, Sequences, SequencesExt

CONSTANTS
    BOUND_T1_SIZE, BOUND_T2_SIZE, BOUND_T3_SIZE,
    HeapStart, HeapSize,    \* sbrk(0), and the zone after it that is marked
    Frames,                 \* the arrays of a function: sequences of [start, size]
    Sizes,                  \* what malloc is called with
    Offsets, AccessSizes,   \* what pointers are checked with
    MaxRegions              \* bound: regions of malloc

BOUND_T23_SIZE == BOUND_T2_SIZE * BOUND_T3_SIZE
Space    == BOUND_T1_SIZE * BOUND_T23_SIZE
LastPage == (BOUND_T1_SIZE - 1) * BOUND_T23_SIZE    \* nothing lies there or above

\* The bytes of a region and one more: "to ensure the regions will be
\* separated by at least one byte".
Bytes(p, size) == p .. p + size

ASSUME BoundCheckAssumption ==
    /\ {BOUND_T1_SIZE, BOUND_T2_SIZE} \subseteq Nat \ {0} /\ BOUND_T3_SIZE \in Nat \ {0, 1}
    /\ HeapStart \in Nat \ {0} /\ HeapSize \in Nat
    /\ HeapStart + HeapSize <= LastPage
    /\ Sizes \subseteq Nat
    /\ AccessSizes \subseteq 1 .. BOUND_T23_SIZE    \* no access is larger than a page
    /\ MaxRegions \in Nat

\* The arrays of a function do not overlap.
ASSUME FramesAssumption ==
    \A f \in Frames :
        /\ f \in Seq([start : Nat \ {0}, size : Nat])
        /\ \A i \in DOMAIN f : f[i].start + f[i].size < LastPage
        /\ \A i, j \in DOMAIN f :
              i = j \/ Bytes(f[i].start, f[i].size) \cap Bytes(f[j].start, f[j].size) = {}

\* An offset does not lead around the address space, back into the region.
ASSUME OffsetsAssumption ==
    \A offset \in Offsets :
        /\ offset \in Int
        /\ \A size \in Sizes \cup UNION {{f[i].size : i \in DOMAIN f} : f \in Frames} :
              /\ size - Space < offset
              /\ \A d \in AccessSizes \cup {0} : size + offset + d < Space

VARIABLES
    t1,         \* __bound_t1: the page is __bound_empty_t2, __bound_invalid_t2 or its own
    t2,         \* the cells of the pages of their own
    regions,    \* the memory of the program: [start, size, heap]
    frames,     \* the arrays of the functions that run, the innermost last
    stopped     \* the pointer that bound_error was called for, or None

vars == <<t1, t2, regions, frames, stopped>>

Address == 0 .. Space - 1
Pages   == 0 .. BOUND_T1_SIZE - 1
Cells   == 0 .. BOUND_T1_SIZE * BOUND_T2_SIZE - 1

None == -1

INVALID_POINTER == Space - 2
EMPTY_SIZE      == Space - 1
INVALID_SIZE    == 0

Entry(start, size) == [start |-> start, size |-> size]

Cell(size, is_invalid) == [list |-> <<Entry(0, size)>>, is_invalid |-> is_invalid]

EmptyCell   == Cell(EMPTY_SIZE, FALSE)
InvalidCell == Cell(INVALID_SIZE, TRUE)

CellOf(p) == p \div BOUND_T3_SIZE
PageOf(c) == c \div BOUND_T2_SIZE

\* A table T is a record of t1 and t2.
At(T, c) ==
    CASE T.t1[PageOf(c)] = "own"     -> T.t2[c]
      [] T.t1[PageOf(c)] = "empty"   -> EmptyCell
      [] T.t1[PageOf(c)] = "invalid" -> InvalidCell

\* The unsigned difference of two addresses.
Minus(p, q) == (p - q) % Space

Matches(e, p) == Minus(p, e.start) <= e.size

-----------------------------------------------------------------------------
(***************************************************************************)
(* The table.                                                              *)
(***************************************************************************)

\* get_page for the pages from first to last.  The cells of a new one are
\* empty, also when it was __bound_invalid_t2.
Owned(T, first, last) ==
    LET new == {i \in first .. last : T.t1[i] # "own"}
    IN  [t1 |-> [i \in Pages |-> IF i \in new THEN "own" ELSE T.t1[i]],
         t2 |-> [c \in Cells |-> IF PageOf(c) \in new THEN EmptyCell ELSE T.t2[c]]]

\* The cells from first to before last of T become invalid.
Marked(T, first, last) ==
    LET O == IF first < last THEN Owned(T, PageOf(first), PageOf(last - 1)) ELSE T
    IN  [O EXCEPT !.t2 = [c \in Cells |->
            IF first <= c /\ c < last
            THEN [O.t2[c] EXCEPT !.list[1].size = INVALID_SIZE, !.is_invalid = TRUE]
            ELSE O.t2[c]]]

\* mark_invalid, for a zone with a whole page in it.
MarkInvalid(T, start, end) ==
    LET first == (start + BOUND_T3_SIZE - 1) \div BOUND_T3_SIZE
        last  == end \div BOUND_T3_SIZE
        p     == (first + BOUND_T2_SIZE - 1) \div BOUND_T2_SIZE
        q     == PageOf(last)
        ends  == Marked(Marked(T, first, p * BOUND_T2_SIZE), q * BOUND_T2_SIZE, last)
    IN  [ends EXCEPT !.t1 = [i \in Pages |->
            IF p <= i /\ i < q THEN "invalid" ELSE ends.t1[i]]]

\* Mutant: a list keeps the region that was first.
add_region_Replaced(cell, e) == [cell EXCEPT !.list[1] = e]

add_region(cell, e) ==
    IF cell.list[1].start = 0 THEN [cell EXCEPT !.list[1] = e]
    ELSE [cell EXCEPT !.list = <<e>> \o @]

NewRegion(T, p, size) ==
    LET first == CellOf(p)
        last  == CellOf(p + size)
        e     == Entry(p, size)
        O     == Owned(T, PageOf(first), PageOf(last))
    IN  [O EXCEPT !.t2 = [c \in Cells |->
            IF c \in {first, last} THEN add_region(O.t2[c], e)
            ELSE IF first < c /\ c < last THEN [O.t2[c] EXCEPT !.list[1] = e]
            ELSE O.t2[c]]]

\* The position of the first entry for p, 0 when there is none.
Position(list, p) ==
    LET found == {k \in DOMAIN list : Matches(list[k], p)}
    IN  IF found = {} THEN 0 ELSE CHOOSE k \in found : \A j \in found : k <= j

\* Mutant: the entry that is found is copied to the head.
MovedToHead_Copied(list, k) == [list EXCEPT ![1] = list[k]]

MovedToHead(list, k) == [list EXCEPT ![1] = list[k], ![k] = list[1]]

\* The table after __bound_find_region.
Looked(T, p) ==
    LET c == CellOf(p)
        k == Position(At(T, c).list, p)
    IN  IF k <= 1 THEN T ELSE [T EXCEPT !.t2[c].list = MovedToHead(@, k)]

\* The entry it returns.
Found(T, p) ==
    LET cell == At(T, CellOf(p))
        k    == Position(cell.list, p)
    IN  IF k > 0 THEN cell.list[k]
        ELSE IF cell.is_invalid THEN InvalidCell.list[1] ELSE EmptyCell.list[1]

delete_region(cell, p, empty_size) ==
    LET k == Position(cell.list, p)
    IN  IF k = 0 THEN cell
        ELSE IF Len(cell.list) = 1 THEN [cell EXCEPT !.list = <<Entry(0, empty_size)>>]
        ELSE [cell EXCEPT !.list = RemoveAt(@, k)]

\* __bound_delete_region fails.
NoRegionAt(T, p) == Found(T, p).size = EMPTY_SIZE \/ Found(T, p).start # p

\* Mutant: the last cell keeps its entry.
LastCell_Forgotten(p, size) == CellOf(p + size) - 1

LastCell(p, size) == CellOf(p + size)

\* The table after __bound_delete_region.
Deleted(T, p) ==
    LET L     == Looked(T, p)
        first == CellOf(p)
        last  == LastCell(p, Found(T, p).size)
        empty == IF At(L, first).is_invalid THEN INVALID_SIZE ELSE EMPTY_SIZE
    IN  IF NoRegionAt(T, p) THEN L
        ELSE [L EXCEPT !.t2 = [c \in Cells |->
                IF c \in {first, last} THEN delete_region(L.t2[c], p, empty)
                ELSE IF first < c /\ c < last THEN [L.t2[c] EXCEPT !.list[1] = Entry(0, empty)]
                ELSE L.t2[c]]]

-----------------------------------------------------------------------------
(***************************************************************************)
(* The operations.                                                         *)
(***************************************************************************)

Table == [t1 |-> t1, t2 |-> t2]

SetTable(T) == t1' = T.t1 /\ t2' = T.t2

Region(p, size, heap) == [start |-> p, size |-> size, heap |-> heap]

\* No region and no array of a function that runs lies in B.
Unused(B) ==
    /\ \A r \in regions : Bytes(r.start, r.size) \cap B = {}
    /\ \A k \in DOMAIN frames : \A i \in DOMAIN frames[k] :
          Bytes(frames[k][i].start, frames[k][i].size) \cap B = {}

\* __bound_init, without static arrays.
Init ==
    LET none  == [t1 |-> [i \in Pages |-> "empty"], t2 |-> [c \in Cells |-> EmptyCell]]
        top   == MarkInvalid(none, LastPage, Space)
        table == MarkInvalid(top, HeapStart, HeapStart + HeapSize)
    IN  /\ t1 = table.t1 /\ t2 = table.t2
        /\ regions = {} /\ frames = <<>>
        /\ stopped = None

\* What __bound_ptr_add returns.
ptr_add(p, offset) ==
    LET e == Found(Table, p)
    IN  IF (Minus(p, e.start) + offset) % Space > e.size THEN INVALID_POINTER
        ELSE (p + offset) % Space

\* Mutant: the first byte of the access is checked, not its end.
ptr_indir_FirstByte(p, offset, dsize) == ptr_add(p, offset)

\* What __bound_ptr_indir1, 2, 4, ... return.
ptr_indir(p, offset, dsize) ==
    LET e == Found(Table, p)
    IN  IF (Minus(p, e.start) + offset + dsize) % Space > e.size THEN INVALID_POINTER
        ELSE (p + offset) % Space

\* A check of p changes the table as the lookup does.
Check(p) ==
    /\ stopped = None
    /\ SetTable(Looked(Table, p))
    /\ UNCHANGED <<regions, frames, stopped>>

\* libc_malloc(size + 1) returned p.
Allocates(p, size) ==
    /\ Cardinality({r \in regions : r.heap}) < MaxRegions
    /\ p >= HeapStart /\ p + size < HeapStart + HeapSize
    /\ Unused(Bytes(p, size))

\* __bound_malloc, and __bound_memalign where the allocation is as large.
Malloc(p, size) ==
    /\ stopped = None /\ Allocates(p, size)
    /\ regions' = regions \cup {Region(p, size, TRUE)}
    /\ SetTable(NewRegion(Table, p, size))
    /\ UNCHANGED <<frames, stopped>>

StartingAt(p) == {r \in regions : r.start = p}

\* __bound_free.  The region may be an array of a function that runs, which
\* then has no bounds; libc_free of an array is taken to return.
Free(p) ==
    /\ stopped = None
    /\ SetTable(Deleted(Table, p))
    /\ IF NoRegionAt(Table, p) THEN stopped' = p /\ UNCHANGED regions
       ELSE regions' = regions \ StartingAt(p) /\ UNCHANGED stopped
    /\ UNCHANGED frames

\* __bound_realloc of p to size, where malloc returns q.
Realloc(p, q, size) ==
    LET T   == NewRegion(Table, q, size)
        got == Looked(T, p)      \* get_region_size
    IN  /\ stopped = None /\ p # q
        /\ Allocates(q, size)
        /\ IF Found(T, p).start # p
           THEN /\ SetTable(got) /\ stopped' = p
                /\ regions' = regions \cup {Region(q, size, TRUE)}
           ELSE /\ SetTable(Deleted(got, p)) /\ UNCHANGED stopped
                /\ regions' = (regions \cup {Region(q, size, TRUE)}) \ StartingAt(p)
        /\ UNCHANGED frames

\* __bound_local_new: the arrays of a function that is called.
LocalNew(f) ==
    /\ stopped = None
    /\ \A i \in DOMAIN f : Unused(Bytes(f[i].start, f[i].size))
    /\ LET T[k \in 0 .. Len(f)] ==
              IF k = 0 THEN Table ELSE NewRegion(T[k - 1], f[k].start, f[k].size)
       IN  SetTable(T[Len(f)])
    /\ regions' = regions \cup {Region(f[i].start, f[i].size, FALSE) : i \in DOMAIN f}
    /\ frames' = Append(frames, f)
    /\ UNCHANGED stopped

\* __bound_local_delete.  An array that was freed is not found.
LocalDelete ==
    LET f == Last(frames)
        T[k \in 0 .. Len(f)] ==
            IF k = 0 THEN Table ELSE Deleted(T[k - 1], f[k].start)
    IN  /\ stopped = None /\ frames # <<>>
        /\ SetTable(T[Len(f)])
        /\ regions' = regions \ {Region(f[i].start, f[i].size, FALSE) : i \in DOMAIN f}
        /\ frames' = Front(frames)
        /\ UNCHANGED stopped

Stopped == stopped # None /\ UNCHANGED vars

Next ==
    \/ \E p \in Address : Check(p)
    \/ \E p \in Address, size \in Sizes : Malloc(p, size)
    \/ \E p \in Address \ {0} : Free(p)
    \/ \E p \in Address \ {0}, q \in Address, size \in Sizes \ {0} : Realloc(p, q, size)
    \/ \E f \in Frames : LocalNew(f)
    \/ LocalDelete
    \/ Stopped

Spec == Init /\ [][Next]_vars

-----------------------------------------------------------------------------
(***************************************************************************)
(* Properties.                                                             *)
(***************************************************************************)

\* The cells hold the regions of the program and nothing else: after any
\* calls, in any order, no region is lost, left behind or listed twice.
CellsExact ==
    \A c \in Cells :
        LET of   == {r \in regions : CellOf(r.start) <= c /\ c <= CellOf(r.start + r.size)}
            list == At(Table, c).list
        IN  IF of = {} THEN Len(list) = 1 /\ list[1].start = 0
            ELSE /\ ToSet(list) = {Entry(r.start, r.size) : r \in of}
                 /\ Len(list) = Cardinality(of)

Abs == INSTANCE Regions WITH
    Space    <- Space,
    Pointers <- Address,
    Invalid  <- INVALID_POINTER,
    Faults   <- {0} \cup LastPage .. Space - 1

\* Every pointer is checked against its own region, whatever regions share
\* the cell and wherever lookups have moved them.
ChecksExact ==
    stopped = None => \A p \in Address, offset \in Offsets :
        /\ ptr_add(p, offset) \in Abs!Answers(p, offset, 0)
        /\ \A d \in AccessSizes :
              ptr_indir(p, offset, d) \in Abs!Answers(p, offset, d)

\* free and realloc stop the program exactly when they are not given the
\* start of a region that has not ended: of malloc, or of an array of a
\* function that runs.  They end that region and no other.
ImplementsRegions == [][Abs!Next]_<<regions, stopped>>

\* __bound_ptr_indir: "the resulting must be strictly inside the region".
StrictlyInside ==
    \A r \in regions, offset \in Offsets, d \in AccessSizes :
        ptr_indir(r.start, offset, d) # INVALID_POINTER =>
            Abs!In(r, r.start + offset, d)
=============================================================================
