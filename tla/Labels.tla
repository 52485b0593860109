------------------------------- MODULE Labels -------------------------------
(***************************************************************************)
(* The label table of tccpp.c: label_find, label_push and label_pop on the *)
(* two stacks global_label_stack and local_label_stack and the heads       *)
(* sym_label of the token table.  The globals are one record, which the    *)
(* operators take and return:                                              *)
(*   sym[s]     the Sym of a label: its name v, its state r, the label it  *)
(*              hides (prev_tok), the jumps of its chain while it is       *)
(*              FORWARD (jumps), its address once it is DEFINED (jnext),   *)
(*              and the relocations that '&&label' made (refs)             *)
(*   head[v]    sym_label of the token v                                   *)
(*   global, local   the stacks, the newest label last                     *)
(*   dangling   the stacks that hold a Sym which was freed                 *)
(* An address is the number of a cell of the code of the unit; 0 is an     *)
(* address in no function of the unit.                                     *)
(***************************************************************************)
EXTENDS Naturals, Sequences, FiniteSets

CONSTANTS
    Names,      \* the names of labels
    MaxLabels,  \* bound: the Syms there are for labels
    Null        \* the null pointer

ASSUME LabelsAssumption ==
    /\ Names # {} /\ MaxLabels \in Nat
    /\ Null \notin Names /\ Null \notin Nat

Slots  == 1..MaxLabels
States == {"DEFINED", "FORWARD", "DECLARED"}    \* LABEL_DEFINED, ...
Stacks == {"global", "local"}

Label == [v : Names, r : States, prev_tok : Slots \cup {Null},
          jumps : SUBSET Nat, jnext : Nat, refs : SUBSET Nat]

Elements(q) == {q[k] : k \in DOMAIN q}

\* A Sym that is free.
Unused == [v |-> CHOOSE v \in Names : TRUE, r |-> "DEFINED", prev_tok |-> Null,
           jumps |-> {}, jnext |-> 0, refs |-> {}]

NoLabels ==
    [sym      |-> [s \in Slots |-> Unused],
     head     |-> [v \in Names |-> Null],
     global   |-> <<>>,
     local    |-> <<>>,
     dangling |-> {}]

OnStack(L) == Elements(L.global) \cup Elements(L.local)

\* A Sym for the next label: which one sym_malloc returns makes no difference.
FreshSlot(L) == CHOOSE s \in Slots : s \notin OnStack(L)

\* Bound: there is a free Sym.
Room(L) == \E s \in Slots : s \notin OnStack(L)

label_find(L, v) == L.head[v]

\* label_push(&local_label_stack, ...): the new label hides the others.
PushLocal(L, v, r) ==
    LET s == FreshSlot(L)
    IN  [L EXCEPT !.sym[s]  = [v |-> v, r |-> r, prev_tok |-> L.head[v],
                               jumps |-> {}, jnext |-> 0, refs |-> {}],
                  !.head[v] = s,
                  !.local   = Append(@, s)]

\* label_push(&global_label_stack, ...): it goes to the end of the chain of
\* its name, so that it is found again when the local ones are popped.  (The
\* callers do this only for a name that has no label, so that no chain is
\* there.)
PushGlobal(L, v, r) ==
    LET s == FreshSlot(L)
        End[t \in Slots] == IF L.sym[t].prev_tok = Null THEN t
                            ELSE End[L.sym[t].prev_tok]
        new == [L EXCEPT !.sym[s]  = [v |-> v, r |-> r, prev_tok |-> Null,
                                      jumps |-> {}, jnext |-> 0, refs |-> {}],
                         !.global  = Append(@, s)]
    IN  IF L.head[v] = Null THEN [new EXCEPT !.head[v] = s]
                            ELSE [new EXCEPT !.sym[End[L.head[v]]].prev_tok = s]

-----------------------------------------------------------------------------
\* label_pop takes the labels of stack st above depth d, the newest first, as
\* far as a FORWARD one: then it raises an error, before *ptop is set.
Stuck(L, st, d) ==
    {k \in d+1..Len(L[st]) : L.sym[L[st][k]].r = "FORWARD"}

\* The depth that the loop comes to.
Reached(L, st, d) ==
    IF Stuck(L, st, d) = {} THEN d
    ELSE CHOOSE k \in Stuck(L, st, d) : \A j \in Stuck(L, st, d) : j <= k

\* The labels it frees.
Freed(L, st, d) == {L[st][k] : k \in Reached(L, st, d)+1..Len(L[st])}

\* Mutant: the head is what the newest freed label hid.
HeadsAfterPop_Newest(L, st, d) ==
    [v \in Names |->
        LET K == {k \in Reached(L, st, d)+1..Len(L[st]) : L.sym[L[st][k]].v = v}
        IN  IF K = {} THEN L.head[v]
            ELSE LET k == CHOOSE k \in K : \A j \in K : j <= k
                 IN  L.sym[L[st][k]].prev_tok]

\* The heads when it ends: what the oldest freed label of the name hid.
HeadsAfterPop(L, st, d) ==
    [v \in Names |->
        LET K == {k \in Reached(L, st, d)+1..Len(L[st]) : L.sym[L[st][k]].v = v}
        IN  IF K = {} THEN L.head[v]
            ELSE LET k == CHOOSE k \in K : \A j \in K : k <= j
                 IN  L.sym[L[st][k]].prev_tok]

PopFails(L, st, d) == Stuck(L, st, d) # {}

Popped(L, st, d) ==
    IF PopFails(L, st, d)
    THEN [L EXCEPT !.head     = HeadsAfterPop(L, st, d),
                   !.dangling = @ \cup IF Freed(L, st, d) = {} THEN {} ELSE {st}]
    ELSE [L EXCEPT !.head = HeadsAfterPop(L, st, d),
                   ![st]  = SubSeq(@, 1, d)]

\* The relocations that the freed labels resolve: put_extern_sym gives the
\* symbol of a label whose address was taken the address of the label.
Resolved(L, st, d) ==
    UNION {{<<a, L.sym[s].jnext>> : a \in L.sym[s].refs} : s \in Freed(L, st, d)}
=============================================================================
