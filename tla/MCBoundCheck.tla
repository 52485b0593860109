---------------------------- MODULE MCBoundCheck ----------------------------
(***************************************************************************)
(* Instances of BoundCheck for TLC: five pages of two cells of two         *)
(* addresses.  The heap starts inside a page, as sbrk(0) may; functions    *)
(* have one or two arrays below it.                                        *)
(***************************************************************************)
EXTENDS BoundCheck

One(start, size) == [start |-> start, size |-> size]

MCFrames == {<<One(1, 2)>>, <<One(4, 0), One(2, 1)>>}
MCOffsets == -3 .. 4
=============================================================================
