------------------------------ MODULE Regions ------------------------------
(***************************************************************************)
(* What the bounds checker of lib/bcheck.c promises: the program has       *)
(* disjoint regions of memory; a pointer into a region may not leave it,   *)
(* nor be used beyond it; only the start of a region is freed.  A pointer  *)
(* may point just after the last byte of its region.  Of a pointer into no *)
(* region nothing is known.                                                *)
(*                                                                         *)
(* One should expect that only a region of malloc is freed; an array of a  *)
(* function that runs is freed as well, and then is no region any more.    *)
(***************************************************************************)
EXTENDS Integers

CONSTANTS
    Space,          \* the size of the address space
    Pointers,       \* what free and realloc may be called with
    Invalid,        \* the pointer that a check returns for an error
    Faults          \* the addresses that no access survives

VARIABLES
    regions,        \* [start, size, heap]: heap when malloc returned it
    stopped         \* the pointer of the call that stopped the program

Points(r, p) == r.start <= p /\ p <= r.start + r.size

Apart(r, s) == r.start + r.size < s.start \/ s.start + s.size < r.start

AllApart(R) == \A r, s \in R : r = s \/ Apart(r, s)

\* The d bytes from a are in r; d = 0 for a pointer that is only computed.
In(r, a, d) == r.start <= a /\ a + d <= r.start + r.size

\* What a check of the d bytes at p + offset may return.  The bytes may start
\* before the region: that is left open.
Answers(p, offset, d) ==
    LET from   == p + offset
        either == {from % Space, Invalid}
        of     == {r \in regions : Points(r, p)}
    IN  IF of # {}
        THEN LET r == CHOOSE r \in of : TRUE
             IN  IF In(r, from, d) THEN {from}
                 ELSE IF from < r.start /\ r.start <= from + d THEN either
                 ELSE {Invalid}
        ELSE IF p = Invalid THEN either \cap Faults
        ELSE either

\* Regions of malloc, or of a function that is called.
Create ==
    /\ regions \subseteq regions' /\ AllApart(regions')
    /\ UNCHANGED stopped

Return ==
    /\ regions' \subseteq {r \in regions : ~ r.heap} \cup {r \in regions' : r.heap}
    /\ {r \in regions' : r.heap} = {r \in regions : r.heap}
    /\ UNCHANGED stopped

StartingAt(p) == {r \in regions : r.start = p}

\* Nothing but the start of a region is freed: of malloc, or of an array.
Free(p) ==
    /\ regions' = regions \ StartingAt(p)
    /\ stopped' = IF StartingAt(p) = {} THEN p ELSE stopped

\* The new region exists before the old one ends.
Realloc(p) ==
    \E new \in regions' \ regions :
        /\ AllApart(regions \cup {new})
        /\ regions' = (regions \cup {new}) \ StartingAt(p)
        /\ stopped' = IF StartingAt(p) = {} THEN p ELSE stopped

Next == Create \/ Return \/ \E p \in Pointers : Free(p) \/ Realloc(p)
=============================================================================
