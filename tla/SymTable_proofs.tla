-------------------------- MODULE SymTable_proofs --------------------------
(***************************************************************************)
(* Proofs about SymTable: the type invariant, and that as long as no error *)
(* strikes inside a scope, the head of every name is the declaration that  *)
(* a search of the symbol stacks would find.                               *)
(***************************************************************************)
EXTENDS SymTable, SequenceTheorems, WellFoundedInduction, TLAPS

(***************************************************************************)
(* Lemmas about the operators of the model.                                *)
(***************************************************************************)

\* A minimal position for a relation that contains < is a least one.
LEMMA MinimalIsLeast ==
    ASSUME NEW R, \A i, m \in Nat : i < m => <<i, m>> \in R,
           NEW I, I \subseteq Nat,
           \E m \in I : \A i \in I : ~ (<<i, m>> \in R)
    PROVE  \E m \in I : \A i \in I : m <= i
<1>1. PICK m \in I : \A i \in I : ~ (<<i, m>> \in R)
  OBVIOUS
<1>2. SUFFICES ASSUME NEW i \in I
               PROVE  m <= i
  OBVIOUS
<1>3. i \in Nat /\ m \in Nat
  OBVIOUS
<1>4. ~ (i < m)
  BY <1>1, <1>3, Zenon
<1> QED
  BY <1>3, <1>4

\* A non-empty set of positions has a least element, and Min returns it.
LEMMA MinOfPositions ==
    ASSUME NEW I, I \subseteq Nat, I # {}
    PROVE  Min(I) \in I /\ \A i \in I : Min(I) <= i
<1>1. \A i, m \in Nat : i < m => <<i, m>> \in OpToRel(<, Nat)
  BY DEF OpToRel
<1>2. \E m \in I : \A i \in I : ~ (<<i, m>> \in OpToRel(<, Nat))
  BY NatLessThanWellFounded, WFMin, Zenon
<1>3. \E m \in I : \A i \in I : m <= i
  BY <1>1, <1>2, MinimalIsLeast
<1> QED
  BY <1>3 DEF Min

\* The three ways of pushing keep stacks sequences of Slots.
LEMMA AppendSlot ==
    ASSUME NEW S \in Seq(Slots), NEW s \in Slots
    PROVE  /\ Append(S, s) \in Seq(Slots)
           /\ Len(Append(S, s)) = Len(S) + 1
           /\ \A i \in 1 .. Len(S) : Append(S, s)[i] = S[i]
           /\ Append(S, s)[Len(S) + 1] = s
  BY AppendProperties

\* Popping to length b keeps the b oldest symbols.
LEMMA PrefixOf ==
    ASSUME NEW T, NEW S \in Seq(T), NEW b \in Nat, b <= Len(S)
    PROVE  /\ SubSeq(S, 1, b) \in Seq(T)
           /\ Len(SubSeq(S, 1, b)) = b
           /\ \A i \in 1 .. b : SubSeq(S, 1, b)[i] = S[i]
  BY SubSeqProperties

\* What a pop leaves in the heads are pointers.
LEMMA HeadsAfterPopType ==
    ASSUME TypeOK, NEW heads \in [Names -> Pointer],
           NEW S \in Seq(Slots), NEW b \in Nat
    PROVE  HeadsAfterPop(heads, S, b) \in [Names -> Pointer]
<1>1. SUFFICES ASSUME NEW n \in Names
               PROVE  HeadsAfterPop(heads, S, b)[n] \in Pointer
  BY DEF HeadsAfterPop
<1> DEFINE I == {i \in (b + 1) .. Len(S) : v[S[i]] = n}
<1>2. CASE I = {}
  BY <1>2 DEF HeadsAfterPop
<1>3. CASE I # {}
  <2>1. Min(I) \in I
    <3>1. I \subseteq Nat
      OBVIOUS
    <3> HIDE DEF I
    <3> QED
      BY <1>3, <3>1, MinOfPositions
  <2>2. S[Min(I)] \in Slots
    BY <2>1
  <2> QED
    BY <1>3, <2>2 DEF HeadsAfterPop, TypeOK
<1> QED
  BY <1>2, <1>3

(***************************************************************************)
(* Lemmas about searching the stacks.  w and w2 are the names of the       *)
(* symbols before and after a step, G and L the stacks.                    *)
(***************************************************************************)

\* A search sees only the names and the positions it visits.
LEMMA NewestSame ==
    ASSUME NEW w, NEW w2, NEW S, NEW S2, NEW k \in Nat, NEW n, NEW s,
           \A i \in 1 .. k : S2[i] = S[i] /\ w2[S[i]] = w[S[i]]
    PROVE  /\ Newest(w, S, k, n, s) => Newest(w2, S2, k, n, s)
           /\ Absent(w, S, k, n) => Absent(w2, S2, k, n)
<1>1. ASSUME Newest(w, S, k, n, s)
      PROVE  Newest(w2, S2, k, n, s)
  <2>1. PICK i \in 1 .. k :
          /\ S[i] = s /\ w[s] = n
          /\ \A j \in (i + 1) .. k : w[S[j]] # n
    BY <1>1 DEF Newest
  <2>2. S2[i] = s /\ w2[s] = n
    BY <2>1
  <2>3. \A j \in (i + 1) .. k : w2[S2[j]] # n
    BY <2>1
  <2> QED
    BY <2>2, <2>3 DEF Newest
<1>2. Absent(w, S, k, n) => Absent(w2, S2, k, n)
  BY DEF Absent
<1> QED
  BY <1>1, <1>2

LEMMA FoundSame ==
    ASSUME NEW w, NEW w2, NEW G, NEW G2, NEW L, NEW L2, NEW b \in Nat,
           NEW n, NEW s, Len(G) \in Nat, Len(G2) = Len(G),
           \A i \in 1 .. Len(G) : G2[i] = G[i] /\ w2[G[i]] = w[G[i]],
           \A i \in 1 .. b : L2[i] = L[i] /\ w2[L[i]] = w[L[i]],
           Found(w, G, L, b, n, s)
    PROVE  Found(w2, G2, L2, b, n, s)
<1>1. /\ Newest(w, L, b, n, s) => Newest(w2, L2, b, n, s)
      /\ Absent(w, L, b, n) => Absent(w2, L2, b, n)
  BY NewestSame
<1>2. /\ Newest(w, G, Len(G), n, s) => Newest(w2, G2, Len(G), n, s)
      /\ Absent(w, G, Len(G), n) => Absent(w2, G2, Len(G), n)
  BY NewestSame
<1> QED
  BY <1>1, <1>2 DEF Found, NewestOrNil

\* One more symbol, of another name, does not change what is found.
LEMMA NewestSkip ==
    ASSUME NEW w, NEW S, NEW k \in Nat, NEW n, NEW s, w[S[k + 1]] # n
    PROVE  /\ Newest(w, S, k, n, s) => Newest(w, S, k + 1, n, s)
           /\ Absent(w, S, k, n) => Absent(w, S, k + 1, n)
<1>1. ASSUME Newest(w, S, k, n, s)
      PROVE  Newest(w, S, k + 1, n, s)
  <2>1. PICK i \in 1 .. k :
          /\ S[i] = s /\ w[s] = n
          /\ \A j \in (i + 1) .. k : w[S[j]] # n
    BY <1>1 DEF Newest
  <2>2. i \in 1 .. k + 1
    OBVIOUS
  <2>3. \A j \in (i + 1) .. k + 1 : w[S[j]] # n
    BY <2>1
  <2> QED
    BY <2>1, <2>2, <2>3 DEF Newest
<1>2. Absent(w, S, k, n) => Absent(w, S, k + 1, n)
  BY DEF Absent
<1> QED
  BY <1>1, <1>2

\* One more symbol, of this name, is what is found.
LEMMA NewestIsLast ==
    ASSUME NEW w, NEW S, NEW k \in Nat, NEW n, w[S[k + 1]] = n
    PROVE  Newest(w, S, k + 1, n, S[k + 1])
<1>1. k + 1 \in 1 .. k + 1
  OBVIOUS
<1>2. \A j \in (k + 1) + 1 .. k + 1 : w[S[j]] # n
  OBVIOUS
<1> QED
  BY <1>1, <1>2 DEF Newest

\* Nothing of this name among the symbols popped: the search is the same.
LEMMA NewestAfterPop ==
    ASSUME NEW w, NEW S, NEW k \in Nat, NEW b \in Nat, b <= k, NEW n, NEW s,
           \A i \in (b + 1) .. k : w[S[i]] # n
    PROVE  /\ Newest(w, S, k, n, s) => Newest(w, S, b, n, s)
           /\ Absent(w, S, k, n) => Absent(w, S, b, n)
<1>1. ASSUME Newest(w, S, k, n, s)
      PROVE  Newest(w, S, b, n, s)
  <2>1. PICK i \in 1 .. k :
          /\ S[i] = s /\ w[s] = n
          /\ \A j \in (i + 1) .. k : w[S[j]] # n
    BY <1>1 DEF Newest
  <2>2. i \in 1 .. b
    BY <2>1
  <2>3. \A j \in (i + 1) .. b : w[S[j]] # n
    BY <2>1
  <2> QED
    BY <2>1, <2>2, <2>3 DEF Newest
<1>2. Absent(w, S, k, n) => Absent(w, S, b, n)
  BY DEF Absent
<1> QED
  BY <1>1, <1>2

(***************************************************************************)
(* Type correctness.                                                       *)
(***************************************************************************)

LEMMA TypeInit == Init => TypeOK
<1> SUFFICES ASSUME Init
             PROVE  TypeOK
  OBVIOUS
<1>1. <<>> \in Seq(Slots) /\ <<>> \in Seq(Nat)
  OBVIOUS
<1>2. global_stack \in Seq(Slots) /\ local_stack \in Seq(Slots) /\ blocks \in Seq(Nat)
  BY <1>1 DEF Init
<1>3. /\ v \in [Slots -> Names \cup {Anon}]
      /\ prev_tok \in [Slots -> Pointer]
      /\ next \in [Slots -> Pointer]
      /\ sym_of \in [Names -> Pointer]
  BY DEF Init, Pointer
<1> QED
  BY <1>2, <1>3 DEF Init, TypeOK, Pointer

\* The marker of the innermost block.
LEMMA InnermostMarker ==
    ASSUME TypeOK, BlocksOK, blocks # <<>>
    PROVE  /\ Len(blocks) \in 1 .. Len(blocks)
           /\ blocks[Len(blocks)] \in Nat
           /\ blocks[Len(blocks)] < Len(local_stack)
           /\ scope_stack_bottom = local_stack[blocks[Len(blocks)] + 1]
           /\ scope_stack_bottom \in Slots
           /\ v[scope_stack_bottom] = Anon
<1>1. Len(blocks) \in 1 .. Len(blocks)
  BY DEF TypeOK
<1>2. blocks[Len(blocks)] \in Nat
  BY <1>1 DEF TypeOK
<1>3. /\ blocks[Len(blocks)] < Len(local_stack)
      /\ v[local_stack[blocks[Len(blocks)] + 1]] = Anon
      /\ scope_stack_bottom = local_stack[blocks[Len(blocks)] + 1]
  BY <1>1 DEF BlocksOK
<1>4. local_stack[blocks[Len(blocks)] + 1] \in Slots
  BY <1>2, <1>3 DEF TypeOK
<1> QED
  BY <1>1, <1>2, <1>3, <1>4

LEMMA PopLocalType ==
    ASSUME TypeOK, NEW b \in Nat, b <= Len(local_stack), PopLocal(b)
    PROVE  /\ v' \in [Slots -> Names \cup {Anon}]
           /\ prev_tok' \in [Slots -> Pointer]
           /\ next' \in [Slots -> Pointer]
           /\ sym_of' \in [Names -> Pointer]
           /\ global_stack' \in Seq(Slots)
           /\ local_stack' \in Seq(Slots)
<1>1. HeadsAfterPop(sym_of, local_stack, b) \in [Names -> Pointer]
  BY HeadsAfterPopType DEF TypeOK
<1>2. SubSeq(local_stack, 1, b) \in Seq(Slots)
  BY PrefixOf DEF TypeOK
<1> QED
  BY <1>1, <1>2 DEF PopLocal, Freed, TypeOK, Pointer

LEMMA TypeNext ==
    ASSUME TypeOK, BlocksOK, [Next]_vars
    PROVE  TypeOK'
<1> USE DEF TypeOK
<1>1. CASE StartUnit
  BY <1>1 DEF StartUnit
<1>2. CASE EndOfFile
  BY <1>2 DEF EndOfFile
<1>3. CASE RaiseError
  BY <1>3 DEF RaiseError
<1>4. CASE FinishUnit
  <2>1. HeadsAfterPop(sym_of, global_stack, 0) \in [Names -> Pointer]
    BY HeadsAfterPopType
  <2>2. HeadsAfterPop(HeadsAfterPop(sym_of, global_stack, 0), local_stack, 0)
          \in [Names -> Pointer]
    BY <2>1, HeadsAfterPopType
  <2> QED
    BY <1>4, <2>2 DEF FinishUnit, Freed, Pointer
<1>5. CASE Recreate
  BY <1>5 DEF Recreate, Pointer
<1>6. CASE Exited
  BY <1>6 DEF Exited, vars
<1>7. ASSUME NEW n \in Names, Declare(n)
      PROVE  TypeOK'
  <2>1. PICK s \in Slots : IF local_stack # <<>> THEN PushLocal(s, n)
                                                 ELSE PushGlobal(s, n)
    BY <1>7 DEF Declare
  <2>2. Append(local_stack, s) \in Seq(Slots) /\ Append(global_stack, s) \in Seq(Slots)
    BY AppendSlot
  <2>3. UNCHANGED <<scope_stack_bottom, blocks, phase, fn, inline_fns, dirty>>
    BY <1>7 DEF Declare
  <2>4. CASE PushLocal(s, n)
    BY <2>2, <2>3, <2>4 DEF PushLocal, Pointer
  <2>5. CASE PushGlobal(s, n)
    BY <2>2, <2>3, <2>5 DEF PushGlobal, Pointer
  <2> QED
    BY <2>1, <2>4, <2>5
<1>8. ASSUME NEW n \in Names, DeclareImplicitly(n)
      PROVE  TypeOK'
  <2>1. PICK s \in Slots : PushUnderLocals(s, n)
    BY <1>8 DEF DeclareImplicitly
  <2>2. Append(global_stack, s) \in Seq(Slots)
    BY AppendSlot
  <2> QED
    BY <1>8, <2>1, <2>2 DEF DeclareImplicitly, PushUnderLocals, Pointer
<1>9. ASSUME NEW n \in Names, DefineFunction(n)
      PROVE  TypeOK'
  <2>1. CASE UNCHANGED <<v, prev_tok, next, sym_of, global_stack, local_stack>>
    BY <1>9, <2>1 DEF DefineFunction
  <2>2. CASE \E s \in Slots : PushUnderLocals(s, n)
    <3>1. PICK s \in Slots : PushUnderLocals(s, n)
      BY <2>2
    <3>2. Append(global_stack, s) \in Seq(Slots)
      BY AppendSlot
    <3> QED
      BY <1>9, <3>1, <3>2 DEF DefineFunction, PushUnderLocals, Pointer
  <2> QED
    BY <1>9, <2>1, <2>2 DEF DefineFunction
<1>10. CASE GenInline
  BY <1>10 DEF GenInline
<1>11. CASE BeginFunction
  <2>1. PICK s \in Slots : PushMarker(s, Nil)
    BY <1>11 DEF BeginFunction
  <2>2. Append(local_stack, s) \in Seq(Slots)
    BY AppendSlot
  <2> QED
    BY <1>11, <2>1, <2>2 DEF BeginFunction, PushMarker, Pointer
<1>12. CASE EnterBlock
  <2>1. PICK s \in Slots : PushMarker(s, scope_stack_bottom) /\ scope_stack_bottom' = s
    BY <1>12 DEF EnterBlock
  <2>2. Append(local_stack, s) \in Seq(Slots)
    BY AppendSlot
  <2>3. Append(blocks, Len(local_stack)) \in Seq(Nat)
    BY AppendProperties
  <2> QED
    BY <1>12, <2>1, <2>2, <2>3 DEF EnterBlock, PushMarker, Pointer
<1>13. CASE LeaveBlock
  <2> DEFINE b == blocks[Len(blocks)]
  <2>1. b \in Nat /\ b <= Len(local_stack)
    BY <1>13, InnermostMarker DEF LeaveBlock
  <2>2. PopLocal(b)
    BY <1>13 DEF LeaveBlock
  <2>3. SubSeq(blocks, 1, Len(blocks) - 1) \in Seq(Nat)
    BY <1>13, PrefixOf DEF LeaveBlock
  <2>4. scope_stack_bottom' \in Pointer
    BY <1>13, InnermostMarker DEF LeaveBlock
  <2> HIDE DEF b
  <2> QED
    BY <1>13, <2>1, <2>2, <2>3, <2>4, PopLocalType DEF LeaveBlock
<1>14. CASE EndFunction
  BY <1>14, PopLocalType DEF EndFunction, Pointer
<1>15. CASE UNCHANGED vars
  BY <1>15 DEF vars
<1> QED
  BY <1>1, <1>2, <1>3, <1>4, <1>5, <1>6, <1>7, <1>8, <1>9, <1>10, <1>11,
     <1>12, <1>13, <1>14, <1>15 DEF Next

(***************************************************************************)
(* The table operations keep the stacks and the chains in agreement.       *)
(***************************************************************************)

Table == StacksOK /\ Chains /\ Heads

\* A Sym that is taken from the free list is on no stack.
LEMMA FreeIsNotStacked ==
    ASSUME TypeOK, NEW s \in Slots \ Used
    PROVE  /\ s \in Slots
           /\ \A i \in 1 .. Len(global_stack) : global_stack[i] # s
           /\ \A i \in 1 .. Len(local_stack) : local_stack[i] # s
  BY DEF Used, Elems

\* The entries of a stack are Syms.
LEMMA StackEntries ==
    ASSUME TypeOK
    PROVE  /\ Len(global_stack) \in Nat /\ Len(local_stack) \in Nat
           /\ \A i \in 1 .. Len(global_stack) : global_stack[i] \in Slots
           /\ \A i \in 1 .. Len(local_stack) : local_stack[i] \in Slots
  BY DEF TypeOK

\* Pushing a free Sym and popping keep every Sym on at most one stack.
LEMMA LocalPushStacks ==
    ASSUME TypeOK, StacksOK, NEW s \in Slots \ Used,
           local_stack' = Append(local_stack, s), global_stack' = global_stack,
           \A t \in Slots : t # s => v'[t] = v[t]
    PROVE  StacksOK'
<1>1. /\ Len(local_stack') = Len(local_stack) + 1
      /\ \A i \in 1 .. Len(local_stack) : local_stack'[i] = local_stack[i]
      /\ local_stack'[Len(local_stack) + 1] = s
  BY AppendSlot DEF TypeOK
<1> QED
  BY <1>1, FreeIsNotStacked, StackEntries, SMTT(30) DEF StacksOK

LEMMA GlobalPushStacks ==
    ASSUME TypeOK, StacksOK, NEW s \in Slots \ Used, v'[s] \in Names,
           global_stack' = Append(global_stack, s), local_stack' = local_stack,
           \A t \in Slots : t # s => v'[t] = v[t]
    PROVE  StacksOK'
<1>1. /\ Len(global_stack') = Len(global_stack) + 1
      /\ \A i \in 1 .. Len(global_stack) : global_stack'[i] = global_stack[i]
      /\ global_stack'[Len(global_stack) + 1] = s
  BY AppendSlot DEF TypeOK
<1> QED
  BY <1>1, FreeIsNotStacked, StackEntries, SMTT(30) DEF StacksOK

\* The Syms that stay after a pop keep their fields.
LEMMA PopLocalKeeps ==
    ASSUME TypeOK, StacksOK, NEW b \in Nat, b <= Len(local_stack), PopLocal(b)
    PROVE  /\ Len(local_stack') = b /\ global_stack' = global_stack
           /\ \A i \in 1 .. b :
                 /\ local_stack'[i] = local_stack[i]
                 /\ v'[local_stack[i]] = v[local_stack[i]]
                 /\ prev_tok'[local_stack[i]] = prev_tok[local_stack[i]]
                 /\ next'[local_stack[i]] = next[local_stack[i]]
           /\ \A i \in 1 .. Len(global_stack) :
                 /\ v'[global_stack[i]] = v[global_stack[i]]
                 /\ prev_tok'[global_stack[i]] = prev_tok[global_stack[i]]
<1> DEFINE F == {local_stack[i] : i \in (b + 1) .. Len(local_stack)}
<1>1. /\ Len(local_stack') = b /\ global_stack' = global_stack
      /\ \A i \in 1 .. b : local_stack'[i] = local_stack[i]
  BY PrefixOf DEF PopLocal, TypeOK
<1>2. ASSUME NEW i \in 1 .. b
      PROVE  local_stack[i] \in Slots \ F
  <2>1. /\ i \in 1 .. Len(local_stack)
        /\ \A j \in (b + 1) .. Len(local_stack) : j \in 1 .. Len(local_stack) /\ i # j
    BY StackEntries
  <2> QED
    BY <2>1, StackEntries DEF StacksOK
<1>3. ASSUME NEW i \in 1 .. Len(global_stack)
      PROVE  global_stack[i] \in Slots \ F
  <2>1. \A j \in (b + 1) .. Len(local_stack) : j \in 1 .. Len(local_stack)
    BY StackEntries
  <2> QED
    BY <2>1, StackEntries DEF StacksOK
<1>4. \A s \in Slots \ F : v'[s] = v[s] /\ prev_tok'[s] = prev_tok[s] /\ next'[s] = next[s]
  BY DEF PopLocal, Freed
<1> QED
  BY <1>1, <1>2, <1>3, <1>4

LEMMA PopLocalStacks ==
    ASSUME TypeOK, StacksOK, NEW b \in Nat, b <= Len(local_stack), PopLocal(b)
    PROVE  StacksOK'
<1>1. \A i \in 1 .. b : i \in 1 .. Len(local_stack)
  BY StackEntries
<1> QED
  BY <1>1, PopLocalKeeps DEF StacksOK

\* What holds of the symbols already stacked still holds when s is pushed on
\* the local stack.
LEMMA LocalGrows ==
    ASSUME TypeOK, Table, NEW s \in Slots \ Used,
           local_stack' = Append(local_stack, s), global_stack' = global_stack,
           \A t \in Slots : t # s => v'[t] = v[t] /\ prev_tok'[t] = prev_tok[t]
    PROVE  /\ StacksOK'
           /\ \A b \in 0 .. Len(local_stack) : \A m, x :
                 Found(v, global_stack, local_stack, b, m, x)
                   => Found(v', global_stack, local_stack', b, m, x)
           /\ \A i \in 1 .. Len(global_stack) :
                 NewestOrNil(v', global_stack, i - 1, v'[global_stack[i]],
                             prev_tok'[global_stack[i]])
           /\ \A i \in 1 .. Len(local_stack) :
                 v'[local_stack'[i]] \in Names =>
                   Found(v', global_stack, local_stack', i - 1,
                         v'[local_stack'[i]], prev_tok'[local_stack'[i]])
<1> DEFINE L == local_stack  G == global_stack  k == Len(local_stack)
<1>1. /\ L' = Append(L, s) /\ G' = G /\ k \in Nat /\ k' = k + 1
      /\ \A i \in 1 .. k : L'[i] = L[i]
      /\ L'[k + 1] = s
  BY AppendSlot DEF TypeOK
<1>2. /\ \A i \in 1 .. Len(G) : G[i] \in Slots /\ G[i] # s
      /\ \A i \in 1 .. k : L[i] \in Slots /\ L[i] # s
      /\ Len(G) \in Nat
  BY FreeIsNotStacked, StackEntries
<1>3. /\ \A i \in 1 .. Len(G) : v'[G[i]] = v[G[i]] /\ prev_tok'[G[i]] = prev_tok[G[i]]
      /\ \A i \in 1 .. k : v'[L[i]] = v[L[i]] /\ prev_tok'[L[i]] = prev_tok[L[i]]
  BY <1>2
<1>4. StacksOK'
  BY LocalPushStacks DEF Table
<1>5. ASSUME NEW b \in 0 .. k, NEW m, NEW x, Found(v, G, L, b, m, x)
      PROVE  Found(v', G, L', b, m, x)
  <2>1. b \in Nat /\ \A i \in 1 .. b : L'[i] = L[i] /\ v'[L[i]] = v[L[i]]
    BY <1>1, <1>3
  <2> HIDE DEF L, G, k
  <2> QED
    BY <1>2, <1>3, <1>5, <2>1, FoundSame
<1>6. ASSUME NEW i \in 1 .. Len(G)
      PROVE  NewestOrNil(v', G, i - 1, v'[G[i]], prev_tok'[G[i]])
  <2>1. NewestOrNil(v, G, i - 1, v[G[i]], prev_tok[G[i]])
    BY DEF Table, Chains
  <2>2. \A j \in 1 .. i - 1 : G[j] = G[j] /\ v'[G[j]] = v[G[j]]
    BY <1>2, <1>3
  <2>3. i - 1 \in Nat
    OBVIOUS
  <2> HIDE DEF G
  <2> QED
    BY <1>3, <2>1, <2>2, <2>3, NewestSame DEF NewestOrNil
<1>7. ASSUME NEW i \in 1 .. k, v'[L'[i]] \in Names
      PROVE  Found(v', G, L', i - 1, v'[L'[i]], prev_tok'[L'[i]])
  <2>1. L'[i] = L[i] /\ v'[L[i]] = v[L[i]] /\ prev_tok'[L[i]] = prev_tok[L[i]]
    BY <1>1, <1>3
  <2>2. Found(v, G, L, i - 1, v[L[i]], prev_tok[L[i]])
    BY <1>7, <2>1 DEF Table, Chains
  <2>3. i - 1 \in 0 .. k
    BY <1>1
  <2> HIDE DEF L, G, k
  <2> QED
    BY <1>5, <2>1, <2>2, <2>3
<1> QED
  BY <1>4, <1>5, <1>6, <1>7

LEMMA PushLocalTable ==
    ASSUME TypeOK, Table, NEW n \in Names, NEW s \in Slots \ Used, PushLocal(s, n)
    PROVE  Table'
<1> DEFINE L == local_stack  G == global_stack  k == Len(local_stack)
<1>1. /\ k \in Nat /\ k' = k + 1 /\ G' = G
      /\ \A i \in 1 .. k : L'[i] = L[i]
      /\ L'[k + 1] = s
  BY AppendSlot DEF PushLocal, TypeOK
<1>2. /\ v'[s] = n /\ prev_tok'[s] = sym_of[n]
      /\ \A t \in Slots : t # s => v'[t] = v[t] /\ prev_tok'[t] = prev_tok[t]
      /\ sym_of'[n] = s
      /\ \A m \in Names : m # n => sym_of'[m] = sym_of[m]
  BY DEF PushLocal, TypeOK
<1>3. /\ StacksOK'
      /\ \A b \in 0 .. k : \A m, x : Found(v, G, L, b, m, x) => Found(v', G, L', b, m, x)
      /\ \A i \in 1 .. Len(G) : NewestOrNil(v', G, i - 1, v'[G[i]], prev_tok'[G[i]])
      /\ \A i \in 1 .. k : v'[L'[i]] \in Names =>
            Found(v', G, L', i - 1, v'[L'[i]], prev_tok'[L'[i]])
  BY <1>2, LocalGrows DEF PushLocal
<1>4. \A m \in Names : Found(v', G, L', k, m, sym_of[m])
  BY <1>1, <1>3 DEF Table, Heads, Visible
<1>5. Chains'
  BY <1>1, <1>2, <1>3, <1>4 DEF Chains
<1>6. Heads'
  <2> HIDE DEF L, G, k
  <2>1. ASSUME NEW m \in Names, m # n
        PROVE  Found(v', G, L', k + 1, m, sym_of[m])
    <3>1. v'[L'[k + 1]] # m
      BY <1>1, <1>2, <2>1
    <3> QED
      BY <1>1, <1>4, <3>1, NewestSkip DEF Found
  <2>2. Newest(v', L', k + 1, n, L'[k + 1])
    BY <1>1, <1>2, NewestIsLast
  <2>3. Found(v', G, L', k + 1, n, s)
    BY <1>1, <2>2 DEF Found
  <2> USE DEF L, G, k
  <2> QED
    BY <1>1, <1>2, <2>1, <2>3 DEF Heads, Visible
<1> QED
  BY <1>3, <1>5, <1>6 DEF Table

LEMMA PushMarkerTable ==
    ASSUME TypeOK, Table, NEW s \in Slots \ Used, NEW e, PushMarker(s, e)
    PROVE  Table'
<1> DEFINE L == local_stack  G == global_stack  k == Len(local_stack)
<1>1. /\ k \in Nat /\ k' = k + 1 /\ G' = G
      /\ \A i \in 1 .. k : L'[i] = L[i]
      /\ L'[k + 1] = s
  BY AppendSlot DEF PushMarker, TypeOK
<1>2. /\ v'[s] = Anon
      /\ \A t \in Slots : t # s => v'[t] = v[t] /\ prev_tok'[t] = prev_tok[t]
      /\ sym_of' = sym_of
  BY DEF PushMarker, TypeOK
<1>3. /\ StacksOK'
      /\ \A b \in 0 .. k : \A m, x : Found(v, G, L, b, m, x) => Found(v', G, L', b, m, x)
      /\ \A i \in 1 .. Len(G) : NewestOrNil(v', G, i - 1, v'[G[i]], prev_tok'[G[i]])
      /\ \A i \in 1 .. k : v'[L'[i]] \in Names =>
            Found(v', G, L', i - 1, v'[L'[i]], prev_tok'[L'[i]])
  BY <1>2, LocalGrows DEF PushMarker
<1>4. Chains'
  BY <1>1, <1>2, <1>3, SymTableAssumption DEF Chains
<1>5. Heads'
  <2>1. ASSUME NEW m \in Names
        PROVE  Found(v', G, L', k + 1, m, sym_of[m])
    <3>1. Found(v', G, L', k, m, sym_of[m])
      BY <1>1, <1>3 DEF Table, Heads, Visible
    <3>2. v'[L'[k + 1]] # m
      BY <1>1, <1>2, SymTableAssumption
    <3> HIDE DEF L, G, k
    <3> QED
      BY <1>1, <3>1, <3>2, NewestSkip DEF Found
  <2> QED
    BY <1>1, <1>2, <2>1 DEF Heads, Visible
<1> QED
  BY <1>3, <1>4, <1>5 DEF Table

\* A global declaration of a name that no local symbol has: both PushGlobal
\* with an empty local stack and PushUnderLocals are of this form.
LEMMA GlobalPushTable ==
    ASSUME TypeOK, Table, NEW n \in Names, NEW s \in Slots \ Used,
           Absent(v, local_stack, Len(local_stack), n),
           NewestOrNil(v, global_stack, Len(global_stack), n, sym_of[n]),
           global_stack' = Append(global_stack, s), local_stack' = local_stack,
           v' = [v EXCEPT ![s] = n], prev_tok' = [prev_tok EXCEPT ![s] = sym_of[n]],
           sym_of' = [sym_of EXCEPT ![n] = s]
    PROVE  Table'
<1> DEFINE L == local_stack  G == global_stack  g == Len(global_stack)
<1>1. /\ g \in Nat /\ g' = g + 1 /\ L' = L /\ Len(L) \in Nat
      /\ \A i \in 1 .. g : G'[i] = G[i]
      /\ G'[g + 1] = s
  BY AppendSlot DEF TypeOK
<1>2. /\ v'[s] = n /\ prev_tok'[s] = sym_of[n]
      /\ \A t \in Slots : t # s => v'[t] = v[t] /\ prev_tok'[t] = prev_tok[t]
      /\ sym_of'[n] = s
      /\ \A m \in Names : m # n => sym_of'[m] = sym_of[m]
  BY DEF TypeOK
<1>3. /\ \A i \in 1 .. g : G[i] \in Slots /\ G[i] # s
      /\ \A i \in 1 .. Len(L) : L[i] \in Slots /\ L[i] # s
  BY FreeIsNotStacked, StackEntries
<1>4. /\ \A i \in 1 .. g : v'[G[i]] = v[G[i]] /\ prev_tok'[G[i]] = prev_tok[G[i]]
      /\ \A i \in 1 .. Len(L) : v'[L[i]] = v[L[i]] /\ prev_tok'[L[i]] = prev_tok[L[i]]
  BY <1>2, <1>3
<1>5. StacksOK'
  BY <1>2, GlobalPushStacks DEF Table
<1>6. \A b \in 0 .. g : \A m, x :
          NewestOrNil(v, G, b, m, x) => NewestOrNil(v', G', b, m, x)
  <2>1. SUFFICES ASSUME NEW b \in 0 .. g, NEW m, NEW x, NewestOrNil(v, G, b, m, x)
                 PROVE  NewestOrNil(v', G', b, m, x)
    OBVIOUS
  <2>2. b \in Nat /\ \A i \in 1 .. b : G'[i] = G[i] /\ v'[G[i]] = v[G[i]]
    BY <1>1, <1>4
  <2> HIDE DEF G, g
  <2> QED
    BY <2>1, <2>2, NewestSame DEF NewestOrNil
<1>7. \A b \in 0 .. Len(L) : \A m, x :
          Found(v, G, L, b, m, x) /\ m # n => Found(v', G', L, b, m, x)
  <2>1. SUFFICES ASSUME NEW b \in 0 .. Len(L), NEW m, NEW x,
                        Found(v, G, L, b, m, x), m # n
                 PROVE  Found(v', G', L, b, m, x)
    OBVIOUS
  <2>2. b \in Nat /\ \A i \in 1 .. b : L[i] = L[i] /\ v'[L[i]] = v[L[i]]
    BY <1>1, <1>4
  <2>3. NewestOrNil(v, G, g, m, x) => NewestOrNil(v', G', g, m, x)
    <3>1. g \in 0 .. g
      BY <1>1
    <3> HIDE DEF G, g
    <3> QED
      BY <1>6, <3>1
  <2>4. v'[G'[g + 1]] # m
    BY <1>1, <1>2, <2>1
  <2>5. Len(G') = g + 1
    BY <1>1
  <2>6. Len(G) = g
    OBVIOUS
  <2> HIDE DEF L, G, g
  <2>7. NewestOrNil(v', G', g, m, x) => NewestOrNil(v', G', g + 1, m, x)
    BY <1>1, <2>4, NewestSkip DEF NewestOrNil
  <2>8. /\ Newest(v, L, b, m, x) => Newest(v', L, b, m, x)
        /\ Absent(v, L, b, m) => Absent(v', L, b, m)
    BY <2>2, NewestSame
  <2> QED
    BY <2>1, <2>3, <2>5, <2>6, <2>7, <2>8 DEF Found
<1>8. Chains'
  <2>1. ASSUME NEW i \in 1 .. g
        PROVE  NewestOrNil(v', G', i - 1, v'[G'[i]], prev_tok'[G'[i]])
    <3>1. NewestOrNil(v, G, i - 1, v[G[i]], prev_tok[G[i]])
      BY DEF Table, Chains
    <3>2. i - 1 \in 0 .. g
      BY <1>1
    <3> QED
      BY <1>1, <1>4, <1>6, <3>1, <3>2
  <2>2. NewestOrNil(v', G', g, v'[G'[g + 1]], prev_tok'[G'[g + 1]])
    <3>1. NewestOrNil(v, G, g, n, sym_of[n])
      OBVIOUS
    <3>2. g \in 0 .. g
      BY <1>1
    <3>3. v'[G'[g + 1]] = n /\ prev_tok'[G'[g + 1]] = sym_of[n]
      BY <1>1, <1>2
    <3> HIDE DEF G, g
    <3> QED
      BY <1>6, <3>1, <3>2, <3>3
  <2>3. ASSUME NEW i \in 1 .. Len(L), v'[L'[i]] \in Names
        PROVE  Found(v', G', L', i - 1, v'[L'[i]], prev_tok'[L'[i]])
    <3>1. v[L[i]] # n
      BY DEF Absent
    <3>2. Found(v, G, L, i - 1, v[L[i]], prev_tok[L[i]])
      BY <1>1, <1>4, <2>3 DEF Table, Chains
    <3>3. i - 1 \in 0 .. Len(L)
      BY <1>1
    <3>4. v'[L'[i]] = v[L[i]] /\ prev_tok'[L'[i]] = prev_tok[L[i]] /\ L' = L
      BY <1>1, <1>4
    <3> HIDE DEF L, G, g
    <3> QED
      BY <1>7, <3>1, <3>2, <3>3, <3>4
  <2>4. \A i \in 1 .. Len(G') : i \in 1 .. g \/ (i = g + 1 /\ i - 1 = g)
    BY <1>1
  <2> QED
    BY <1>1, <2>1, <2>2, <2>3, <2>4 DEF Chains
<1>9. Heads'
  <2>1. ASSUME NEW m \in Names, m # n
        PROVE  Found(v', G', L, Len(L), m, sym_of[m])
    <3>1. Found(v, G, L, Len(L), m, sym_of[m])
      BY DEF Table, Heads, Visible
    <3>2. Len(L) \in 0 .. Len(L)
      BY <1>1
    <3> HIDE DEF L, G, g
    <3> QED
      BY <1>7, <2>1, <3>1, <3>2
  <2>2. Found(v', G', L, Len(L), n, s)
    <3>1. Absent(v', L, Len(L), n)
      BY <1>4 DEF Absent
    <3>2. Newest(v', G', g + 1, n, G'[g + 1])
      BY <1>1, <1>2, NewestIsLast
    <3> QED
      BY <1>1, <3>1, <3>2 DEF Found, NewestOrNil
  <2> QED
    BY <1>1, <1>2, <2>1, <2>2 DEF Heads, Visible
<1> QED
  BY <1>5, <1>8, <1>9 DEF Table

\* Nil is not on a stack, so what is found as Nil is declared nowhere.
LEMMA FoundNil ==
    ASSUME TypeOK, NEW n \in Names, Visible(n, Nil)
    PROVE  /\ Absent(v, local_stack, Len(local_stack), n)
           /\ NewestOrNil(v, global_stack, Len(global_stack), n, Nil)
  BY StackEntries, SymTableAssumption DEF Visible, Found, Newest, NewestOrNil

LEMMA PushUnderLocalsTable ==
    ASSUME TypeOK, Table, NEW n \in Names, NEW s \in Slots \ Used, PushUnderLocals(s, n)
    PROVE  Table'
<1>1. sym_of[n] = Nil /\ Visible(n, Nil)
  BY DEF PushUnderLocals, Table, Heads
<1>2. /\ Absent(v, local_stack, Len(local_stack), n)
      /\ NewestOrNil(v, global_stack, Len(global_stack), n, sym_of[n])
  BY <1>1, FoundNil
<1> QED
  BY <1>1, <1>2, GlobalPushTable DEF PushUnderLocals

LEMMA PushGlobalTable ==
    ASSUME TypeOK, Table, local_stack = <<>>,
           NEW n \in Names, NEW s \in Slots \ Used, PushGlobal(s, n)
    PROVE  Table'
<1>1. Len(local_stack) = 0
  OBVIOUS
<1>2. Visible(n, sym_of[n])
  BY DEF Table, Heads
<1>3. /\ Absent(v, local_stack, Len(local_stack), n)
      /\ ~ Newest(v, local_stack, Len(local_stack), n, sym_of[n])
  BY <1>1 DEF Absent, Newest
<1>4. NewestOrNil(v, global_stack, Len(global_stack), n, sym_of[n])
  BY <1>2, <1>3 DEF Visible, Found
<1> QED
  BY <1>3, <1>4, GlobalPushTable DEF PushGlobal

\* Popping the local stack to length b makes visible what was visible then.
LEMMA HeadAfterPop ==
    ASSUME TypeOK, Table, NEW b \in Nat, b <= Len(local_stack), NEW n \in Names
    PROVE  Found(v, global_stack, local_stack, b, n,
                 HeadsAfterPop(sym_of, local_stack, b)[n])
<1> DEFINE L == local_stack  G == global_stack  k == Len(local_stack)
           I == {i \in (b + 1) .. k : v[L[i]] = n}
<1>1. k \in Nat
  BY StackEntries
<1>2. ASSUME NEW i \in b .. k, NEW x, Found(v, G, L, i, n, x),
             \A j \in (b + 1) .. i : v[L[j]] # n
      PROVE  Found(v, G, L, b, n, x)
  <2>1. i \in Nat /\ b <= i
    BY <1>1
  <2> HIDE DEF L, G, k
  <2> QED
    BY <1>2, <2>1, NewestAfterPop DEF Found
<1>3. CASE I = {}
  <2>1. HeadsAfterPop(sym_of, L, b)[n] = sym_of[n]
    BY <1>3 DEF HeadsAfterPop
  <2>2. Found(v, G, L, k, n, sym_of[n])
    BY DEF Table, Heads, Visible
  <2>3. k \in b .. k /\ \A j \in (b + 1) .. k : v[L[j]] # n
    BY <1>1, <1>3
  <2> HIDE DEF L, G, k
  <2>4. Found(v, G, L, b, n, sym_of[n])
    BY <1>2, <2>2, <2>3
  <2> QED
    BY <2>1, <2>4 DEF L, G
<1>4. CASE I # {}
  <2>1. HeadsAfterPop(sym_of, L, b)[n] = prev_tok[L[Min(I)]]
    BY <1>4 DEF HeadsAfterPop
  <2>2. Min(I) \in I /\ \A i \in I : Min(I) <= i
    <3>1. I \subseteq Nat
      OBVIOUS
    <3> HIDE DEF I
    <3> QED
      BY <1>4, <3>1, MinOfPositions
  <2> DEFINE m == Min(I)
  <2>3. m \in (b + 1) .. k /\ v[L[m]] = n
    BY <2>2
  <2>4. \A j \in (b + 1) .. m - 1 : v[L[j]] # n
    <3>1. SUFFICES ASSUME NEW j \in (b + 1) .. m - 1, v[L[j]] = n
                   PROVE  FALSE
      OBVIOUS
    <3>2. j \in I
      BY <1>1, <2>3, <3>1
    <3>3. m <= j
      BY <2>2, <3>2
    <3> HIDE DEF m
    <3> QED
      BY <2>3, <3>3
  <2>5. HeadsAfterPop(sym_of, L, b)[n] = prev_tok[L[m]]
    BY <2>1
  <2> HIDE DEF I, m
  <2>6. m \in 1 .. k /\ m - 1 \in b .. k
    BY <1>1, <2>3
  <2>7. Found(v, G, L, m - 1, n, prev_tok[L[m]])
    BY <2>3, <2>6 DEF Table, Chains
  <2> HIDE DEF L, G, k
  <2>8. Found(v, G, L, b, n, prev_tok[L[m]])
    BY <1>2, <2>4, <2>6, <2>7
  <2> QED
    BY <2>5, <2>8 DEF L, G
<1> QED
  BY <1>3, <1>4

LEMMA PopLocalTable ==
    ASSUME TypeOK, Table, NEW b \in Nat, b <= Len(local_stack), PopLocal(b)
    PROVE  Table'
<1> DEFINE L == local_stack  G == global_stack  k == Len(local_stack)
<1>1. /\ Len(L') = b /\ G' = G /\ k \in Nat /\ Len(G) \in Nat
      /\ \A i \in 1 .. b : L'[i] = L[i]
  BY PopLocalKeeps, StackEntries DEF Table
<1>2. /\ \A i \in 1 .. Len(G) : v'[G[i]] = v[G[i]] /\ prev_tok'[G[i]] = prev_tok[G[i]]
      /\ \A i \in 1 .. b : v'[L[i]] = v[L[i]] /\ prev_tok'[L[i]] = prev_tok[L[i]]
  BY PopLocalKeeps DEF Table
<1>3. StacksOK'
  BY PopLocalStacks DEF Table
<1>4. \A c \in 0 .. b : \A m, x : Found(v, G, L, c, m, x) => Found(v', G', L', c, m, x)
  <2>1. SUFFICES ASSUME NEW c \in 0 .. b, NEW m, NEW x, Found(v, G, L, c, m, x)
                 PROVE  Found(v', G', L', c, m, x)
    OBVIOUS
  <2>2. c \in Nat /\ \A i \in 1 .. c : L'[i] = L[i] /\ v'[L[i]] = v[L[i]]
    BY <1>1, <1>2
  <2>3. /\ Len(G') = Len(G)
        /\ \A i \in 1 .. Len(G) : G'[i] = G[i] /\ v'[G[i]] = v[G[i]]
    BY <1>1, <1>2
  <2> HIDE DEF L, G, k
  <2> QED
    BY <1>1, <2>1, <2>2, <2>3, FoundSame
<1>5. Chains'
  <2>1. ASSUME NEW i \in 1 .. Len(G)
        PROVE  NewestOrNil(v', G, i - 1, v'[G[i]], prev_tok'[G[i]])
    <3>1. NewestOrNil(v, G, i - 1, v[G[i]], prev_tok[G[i]])
      BY DEF Table, Chains
    <3>2. i - 1 \in Nat /\ \A j \in 1 .. i - 1 : G[j] = G[j] /\ v'[G[j]] = v[G[j]]
      BY <1>1, <1>2
    <3>3. v'[G[i]] = v[G[i]] /\ prev_tok'[G[i]] = prev_tok[G[i]]
      BY <1>2
    <3> HIDE DEF G
    <3> QED
      BY <3>1, <3>2, <3>3, NewestSame DEF NewestOrNil
  <2>2. ASSUME NEW i \in 1 .. b, v'[L'[i]] \in Names
        PROVE  Found(v', G', L', i - 1, v'[L'[i]], prev_tok'[L'[i]])
    <3>1. L'[i] = L[i] /\ v'[L[i]] = v[L[i]] /\ prev_tok'[L[i]] = prev_tok[L[i]]
      BY <1>1, <1>2
    <3>2. i \in 1 .. k /\ i - 1 \in 0 .. b
      BY <1>1
    <3>3. Found(v, G, L, i - 1, v[L[i]], prev_tok[L[i]])
      BY <2>2, <3>1, <3>2 DEF Table, Chains
    <3> HIDE DEF L, G, k
    <3> QED
      BY <1>4, <3>1, <3>2, <3>3
  <2> QED
    BY <1>1, <2>1, <2>2 DEF Chains
<1>6. Heads'
  <2>1. ASSUME NEW n \in Names
        PROVE  Found(v', G', L', b, n, sym_of'[n])
    <3>1. sym_of'[n] = HeadsAfterPop(sym_of, L, b)[n]
      BY DEF PopLocal
    <3>2. Found(v, G, L, b, n, sym_of'[n])
      BY <3>1, HeadAfterPop
    <3>3. b \in 0 .. b
      OBVIOUS
    <3> HIDE DEF L, G, k
    <3> QED
      BY <1>4, <3>2, <3>3
  <2> QED
    BY <1>1, <2>1 DEF Heads, Visible
<1> QED
  BY <1>3, <1>5, <1>6 DEF Table

(***************************************************************************)
(* The inductive invariant.                                                *)
(***************************************************************************)

LEMMA IndInit == Init => IndInv
<1> SUFFICES ASSUME Init
             PROVE  IndInv
  OBVIOUS
<1>1. TypeOK
  BY TypeInit
<1>2. /\ Len(global_stack) = 0 /\ Len(local_stack) = 0 /\ Len(blocks) = 0
      /\ global_stack = <<>> /\ local_stack = <<>> /\ blocks = <<>>
      /\ phase = "idle" /\ fn = "no"
  BY DEF Init
<1>3. StacksOK /\ BlocksOK /\ ChainsOK /\ OnePerScope
  BY <1>2 DEF StacksOK, BlocksOK, ChainsOK, Chains, OnePerScope
<1>4. ControlOK
  BY <1>2 DEF ControlOK
<1>5. HeadsExact
  BY <1>2 DEF Init, HeadsExact, Heads, Visible, Found, NewestOrNil, Absent
<1> QED
  BY <1>1, <1>3, <1>4, <1>5 DEF IndInv

\* The three parts of IndInv that depend on dirty are Table.
LEMMA CleanIsTable ==
    ASSUME IndInv, ~ dirty
    PROVE  Table
  BY DEF IndInv, ChainsOK, HeadsExact, Table

\* A step that changes neither the symbols nor the blocks.
LEMMA QuietStep ==
    ASSUME IndInv,
           UNCHANGED <<v, prev_tok, next, sym_of, global_stack, local_stack,
                       scope_stack_bottom, blocks>>,
           dirty => dirty'
    PROVE  StacksOK' /\ BlocksOK' /\ ChainsOK' /\ HeadsExact' /\ OnePerScope'
<1>1. StacksOK' /\ BlocksOK'
  BY DEF IndInv, StacksOK, BlocksOK
<1>2. ChainsOK' /\ HeadsExact'
  BY DEF IndInv, ChainsOK, HeadsExact, Chains, Heads, Visible
<1>3. OnePerScope'
  BY DEF IndInv, OnePerScope, OuterBottom
<1> QED
  BY <1>1, <1>2, <1>3

\* Pushing a Sym on the local stack does not disturb the active blocks.
LEMMA LocalPushBlocks ==
    ASSUME TypeOK, BlocksOK, NEW s \in Slots \ Used,
           local_stack' = Append(local_stack, s),
           \A t \in Slots : t # s => v'[t] = v[t] /\ next'[t] = next[t]
    PROVE  /\ \A k \in 1 .. Len(blocks) :
                 /\ blocks[k] < Len(local_stack')
                 /\ local_stack'[blocks[k] + 1] = local_stack[blocks[k] + 1]
                 /\ v'[local_stack[blocks[k] + 1]] = Anon
                 /\ next'[local_stack[blocks[k] + 1]] = next[local_stack[blocks[k] + 1]]
<1>1. /\ Len(local_stack') = Len(local_stack) + 1
      /\ \A i \in 1 .. Len(local_stack) : local_stack'[i] = local_stack[i]
  BY AppendSlot DEF TypeOK
<1>2. ASSUME NEW k \in 1 .. Len(blocks)
      PROVE  /\ blocks[k] < Len(local_stack)
             /\ blocks[k] + 1 \in 1 .. Len(local_stack)
             /\ v[local_stack[blocks[k] + 1]] = Anon
  BY StackEntries DEF TypeOK, BlocksOK
<1>3. ASSUME NEW k \in 1 .. Len(blocks)
      PROVE  /\ local_stack'[blocks[k] + 1] = local_stack[blocks[k] + 1]
             /\ local_stack[blocks[k] + 1] \in Slots
             /\ local_stack[blocks[k] + 1] # s
  BY <1>1, <1>2, FreeIsNotStacked, StackEntries
<1> QED
  BY <1>1, <1>2, <1>3, StackEntries DEF TypeOK

\* The blocks stay linked if their markers keep their place, name and link.
LEMMA MarkersKept ==
    ASSUME TypeOK, BlocksOK, UNCHANGED <<blocks, scope_stack_bottom>>,
           \A k \in 1 .. Len(blocks) :
               /\ blocks[k] < Len(local_stack')
               /\ local_stack'[blocks[k] + 1] = local_stack[blocks[k] + 1]
               /\ v'[local_stack[blocks[k] + 1]] = Anon
               /\ next'[local_stack[blocks[k] + 1]] = next[local_stack[blocks[k] + 1]]
    PROVE  BlocksOK' /\ OuterBottom' = OuterBottom
<1>1. Len(blocks) \in Nat /\ (blocks # <<>> => Len(blocks) \in 1 .. Len(blocks) /\ 1 \in 1 .. Len(blocks))
  BY DEF TypeOK
<1>2. blocks' = blocks /\ scope_stack_bottom' = scope_stack_bottom
  OBVIOUS
<1>3. \A k \in 1 .. Len(blocks) :
        blocks[k] < Len(local_stack') /\ v'[local_stack'[blocks[k] + 1]] = Anon
  OBVIOUS
<1>4. ASSUME NEW k \in 2 .. Len(blocks)
      PROVE  next'[local_stack'[blocks[k] + 1]] = local_stack'[blocks[k - 1] + 1]
  <2>1. k \in 1 .. Len(blocks) /\ k - 1 \in 1 .. Len(blocks)
    BY <1>1
  <2>2. next[local_stack[blocks[k] + 1]] = local_stack[blocks[k - 1] + 1]
    BY DEF BlocksOK
  <2> QED
    BY <2>1, <2>2
<1>5. blocks # <<>> => scope_stack_bottom = local_stack'[blocks[Len(blocks)] + 1]
  BY <1>1 DEF BlocksOK
<1>6. BlocksOK'
  <2>1. \A j, k \in 1 .. Len(blocks) : j < k => blocks[j] < blocks[k]
    BY DEF BlocksOK
  <2> QED
    BY <1>2, <1>3, <1>4, <1>5, <2>1 DEF BlocksOK
<1>7. OuterBottom' = OuterBottom
  BY <1>1, <1>2 DEF OuterBottom
<1> QED
  BY <1>6, <1>7

LEMMA DeclareLocalInd ==
    ASSUME IndInv, NEW n \in Names, NEW s \in Slots \ Used,
           local_stack # <<>>, ~ Redeclared(n), PushLocal(s, n), Declaring,
           UNCHANGED <<scope_stack_bottom, blocks, phase, fn, inline_fns, dirty>>
    PROVE  StacksOK' /\ ControlOK' /\ BlocksOK' /\ ChainsOK' /\ HeadsExact' /\ OnePerScope'
<1> USE DEF IndInv
<1>1. /\ \A t \in Slots : t # s => v'[t] = v[t] /\ next'[t] = next[t]
      /\ v'[s] = n
      /\ local_stack' = Append(local_stack, s) /\ global_stack' = global_stack
      /\ Len(local_stack') = Len(local_stack) + 1
      /\ \A i \in 1 .. Len(local_stack) : local_stack'[i] = local_stack[i]
      /\ local_stack'[Len(local_stack) + 1] = s
  BY AppendSlot DEF PushLocal, TypeOK
<1>2. StacksOK'
  BY <1>1, LocalPushStacks
<1>3. ChainsOK' /\ HeadsExact'
  BY CleanIsTable, PushLocalTable DEF Table, ChainsOK, HeadsExact
<1>4. BlocksOK' /\ OuterBottom' = OuterBottom
  <2>1. \A k \in 1 .. Len(blocks) :
          /\ blocks[k] < Len(local_stack')
          /\ local_stack'[blocks[k] + 1] = local_stack[blocks[k] + 1]
          /\ v'[local_stack[blocks[k] + 1]] = Anon
          /\ next'[local_stack[blocks[k] + 1]] = next[local_stack[blocks[k] + 1]]
    BY <1>1, LocalPushBlocks
  <2> QED
    BY <2>1, MarkersKept
<1>5. ControlOK'
  BY StackEntries DEF ControlOK, Declaring, AtFileScope
<1>6. OnePerScope'
  <2>1. SUFFICES ASSUME OuterBottom = Nil,
                        NEW i \in 1 .. Len(local_stack), v[local_stack[i]] = n
                 PROVE  \E k \in i .. Len(local_stack) : v[local_stack[k]] = Anon
    <3>1. SUFFICES ASSUME OuterBottom = Nil,
                          NEW i \in 1 .. Len(local_stack'), NEW j \in 1 .. Len(local_stack'),
                          i < j, v'[local_stack'[i]] = v'[local_stack'[j]],
                          v'[local_stack'[i]] \in Names
                   PROVE  \E k \in i .. j : v'[local_stack'[k]] = Anon
      BY <1>4 DEF OnePerScope
    <3>2. \A k \in 1 .. Len(local_stack) : v'[local_stack'[k]] = v[local_stack[k]]
      BY <1>1, FreeIsNotStacked, StackEntries
    <3>3. /\ i \in 1 .. Len(local_stack)
          /\ j \in 1 .. Len(local_stack) \/ j = Len(local_stack) + 1
      BY <1>1, <3>1, StackEntries
    <3>4. \E k \in i .. j : k \in 1 .. Len(local_stack) /\ v[local_stack[k]] = Anon
      <4>1. CASE j \in 1 .. Len(local_stack)
        <5>1. \E k \in i .. j : v[local_stack[k]] = Anon
          BY <3>1, <3>2, <3>3, <4>1 DEF OnePerScope
        <5> QED
          BY <3>3, <4>1, <5>1, StackEntries
      <4>2. CASE j = Len(local_stack) + 1
        <5>1. v[local_stack[i]] = n
          BY <1>1, <3>1, <3>2, <3>3, <4>2
        <5>2. \E k \in i .. Len(local_stack) : v[local_stack[k]] = Anon
          BY <2>1, <3>1, <3>3, <5>1
        <5> QED
          BY <3>3, <4>2, <5>2, StackEntries
      <4> QED
        BY <3>3, <4>1, <4>2
    <3> QED
      BY <3>2, <3>4
  <2>2. PICK j \in i .. Len(local_stack) : local_stack[j] = scope_stack_bottom
    BY <2>1 DEF Redeclared
  <2>3. scope_stack_bottom # Nil
    BY <2>2, StackEntries, SymTableAssumption
  <2>4. blocks # <<>>
    BY <2>1, <2>3 DEF OuterBottom
  <2>5. v[scope_stack_bottom] = Anon
    BY <2>4, InnermostMarker
  <2> QED
    BY <2>2, <2>5
<1> QED
  BY <1>2, <1>3, <1>4, <1>5, <1>6

\* A global declaration changes nothing about the local stack.
LEMMA DeclareGlobalInd ==
    ASSUME IndInv, NEW n \in Names, NEW s \in Slots \ Used,
           (local_stack = <<>> /\ PushGlobal(s, n)) \/ PushUnderLocals(s, n),
           phase = "file" \/ InFunction,
           UNCHANGED <<scope_stack_bottom, blocks, phase, dirty>>
    PROVE  StacksOK' /\ BlocksOK' /\ ChainsOK' /\ HeadsExact' /\ OnePerScope'
<1> USE DEF IndInv
<1>1. /\ \A t \in Slots : t # s => v'[t] = v[t]
      /\ v'[s] = n
      /\ next' = next
      /\ global_stack' = Append(global_stack, s) /\ local_stack' = local_stack
  BY DEF PushGlobal, PushUnderLocals, TypeOK
<1>2. StacksOK'
  BY <1>1, GlobalPushStacks
<1>3. ChainsOK' /\ HeadsExact'
  BY CleanIsTable, PushGlobalTable, PushUnderLocalsTable DEF Table, ChainsOK, HeadsExact
<1>4. \A i \in 1 .. Len(local_stack) : v'[local_stack[i]] = v[local_stack[i]]
  BY <1>1, FreeIsNotStacked, StackEntries
<1>5. BlocksOK' /\ OuterBottom' = OuterBottom
  <2>1. ASSUME NEW k \in 1 .. Len(blocks)
        PROVE  /\ blocks[k] < Len(local_stack)
               /\ blocks[k] + 1 \in 1 .. Len(local_stack)
               /\ v[local_stack[blocks[k] + 1]] = Anon
    BY StackEntries DEF TypeOK, BlocksOK
  <2>2. \A k \in 1 .. Len(blocks) :
          /\ blocks[k] < Len(local_stack')
          /\ local_stack'[blocks[k] + 1] = local_stack[blocks[k] + 1]
          /\ v'[local_stack[blocks[k] + 1]] = Anon
          /\ next'[local_stack[blocks[k] + 1]] = next[local_stack[blocks[k] + 1]]
    BY <1>1, <1>4, <2>1
  <2> QED
    BY <2>2, MarkersKept
<1>6. OnePerScope'
  <2>1. SUFFICES ASSUME OuterBottom = Nil,
                        NEW i \in 1 .. Len(local_stack), NEW j \in 1 .. Len(local_stack),
                        i < j, v'[local_stack[i]] = v'[local_stack[j]],
                        v'[local_stack[i]] \in Names
                 PROVE  \E k \in i .. j : v'[local_stack[k]] = Anon
    BY <1>1, <1>5 DEF OnePerScope
  <2>2. \E k \in i .. j : v[local_stack[k]] = Anon
    BY <1>4, <2>1 DEF OnePerScope
  <2>3. \A k \in i .. j : k \in 1 .. Len(local_stack)
    BY StackEntries
  <2> QED
    BY <1>4, <2>2, <2>3
<1> QED
  BY <1>2, <1>3, <1>5, <1>6

\* A marker on the local stack, of gen_function or of block().
LEMMA MarkerInd ==
    ASSUME IndInv, NEW s \in Slots \ Used, NEW e \in Pointer, PushMarker(s, e),
           UNCHANGED dirty
    PROVE  /\ StacksOK' /\ ChainsOK' /\ HeadsExact'
           /\ Len(local_stack') = Len(local_stack) + 1
           /\ local_stack'[Len(local_stack) + 1] = s
           /\ v'[s] = Anon /\ next'[s] = e
           /\ \A i \in 1 .. Len(local_stack) : local_stack'[i] = local_stack[i]
           /\ \A i \in 1 .. Len(local_stack) : v'[local_stack[i]] = v[local_stack[i]]
           /\ \A k \in 1 .. Len(blocks) :
                 /\ blocks[k] < Len(local_stack')
                 /\ local_stack'[blocks[k] + 1] = local_stack[blocks[k] + 1]
                 /\ v'[local_stack[blocks[k] + 1]] = Anon
                 /\ next'[local_stack[blocks[k] + 1]] = next[local_stack[blocks[k] + 1]]
           /\ OuterBottom' = Nil /\ OuterBottom = Nil => OnePerScope'
<1> USE DEF IndInv
<1>1. /\ \A t \in Slots : t # s => v'[t] = v[t] /\ next'[t] = next[t]
      /\ v'[s] = Anon /\ next'[s] = e
      /\ local_stack' = Append(local_stack, s) /\ global_stack' = global_stack
      /\ Len(local_stack') = Len(local_stack) + 1
      /\ \A i \in 1 .. Len(local_stack) : local_stack'[i] = local_stack[i]
      /\ local_stack'[Len(local_stack) + 1] = s
  BY AppendSlot DEF PushMarker, TypeOK
<1>2. StacksOK'
  BY <1>1, LocalPushStacks
<1>3. ChainsOK' /\ HeadsExact'
  BY CleanIsTable, PushMarkerTable DEF Table, ChainsOK, HeadsExact
<1>4. \A i \in 1 .. Len(local_stack) : v'[local_stack[i]] = v[local_stack[i]]
  BY <1>1, FreeIsNotStacked, StackEntries
<1>5. \A k \in 1 .. Len(blocks) :
        /\ blocks[k] < Len(local_stack')
        /\ local_stack'[blocks[k] + 1] = local_stack[blocks[k] + 1]
        /\ v'[local_stack[blocks[k] + 1]] = Anon
        /\ next'[local_stack[blocks[k] + 1]] = next[local_stack[blocks[k] + 1]]
  BY <1>1, LocalPushBlocks
<1>6. ASSUME OuterBottom' = Nil, OuterBottom = Nil
      PROVE  OnePerScope'
  <2>1. SUFFICES ASSUME NEW i \in 1 .. Len(local_stack'), NEW j \in 1 .. Len(local_stack'),
                        i < j, v'[local_stack'[i]] = v'[local_stack'[j]],
                        v'[local_stack'[i]] \in Names
                 PROVE  \E k \in i .. j : v'[local_stack'[k]] = Anon
    BY DEF OnePerScope
  <2>2. CASE j = Len(local_stack) + 1
    BY <1>1, <2>1, <2>2, SymTableAssumption
  <2>3. CASE j \in 1 .. Len(local_stack)
    <3>1. i \in 1 .. Len(local_stack) /\ \A k \in i .. j : k \in 1 .. Len(local_stack)
      BY <2>1, <2>3, StackEntries
    <3>2. \E k \in i .. j : v[local_stack[k]] = Anon
      BY <1>1, <1>4, <1>6, <2>1, <2>3, <3>1 DEF OnePerScope
    <3> QED
      BY <1>1, <1>4, <3>1, <3>2
  <2> QED
    BY <1>1, <2>2, <2>3, StackEntries
<1> QED
  BY <1>1, <1>2, <1>3, <1>4, <1>5, <1>6

LEMMA BeginFunctionInd ==
    ASSUME IndInv, BeginFunction
    PROVE  StacksOK' /\ ControlOK' /\ BlocksOK' /\ ChainsOK' /\ HeadsExact' /\ OnePerScope'
<1>1. PICK s \in Slots \ Used : PushMarker(s, Nil)
  BY DEF BeginFunction
<1>2. blocks = <<>> /\ Len(blocks) = 0
  BY DEF IndInv, ControlOK, BeginFunction
<1>3. Nil \in Pointer
  BY DEF Pointer
<1>4. OuterBottom' = OuterBottom
  BY <1>2 DEF OuterBottom, BeginFunction
<1>5. StacksOK' /\ ChainsOK' /\ HeadsExact' /\ OnePerScope'
  <2>1. dirty' = dirty
    BY DEF BeginFunction
  <2>2. OuterBottom # Nil => OnePerScope'
    BY <1>4 DEF OnePerScope
  <2> QED
    BY <1>1, <1>3, <1>4, <2>1, <2>2, MarkerInd
<1>6. BlocksOK'
  BY <1>2 DEF BeginFunction, BlocksOK
<1>7. ControlOK'
  BY <1>2 DEF BeginFunction, ControlOK, IndInv
<1> QED
  BY <1>5, <1>6, <1>7

LEMMA EnterBlockInd ==
    ASSUME IndInv, EnterBlock
    PROVE  StacksOK' /\ ControlOK' /\ BlocksOK' /\ ChainsOK' /\ HeadsExact' /\ OnePerScope'
<1> DEFINE m == Len(blocks)  k == Len(local_stack)
<1>1. PICK s \in Slots \ Used : PushMarker(s, scope_stack_bottom) /\ scope_stack_bottom' = s
  BY DEF EnterBlock
<1>2. /\ blocks' = Append(blocks, k) /\ dirty' = dirty
      /\ phase' = phase /\ fn' = IF fn = "params" THEN "body" ELSE fn
      /\ m \in Nat /\ k \in Nat /\ Len(blocks') = m + 1 /\ blocks'[m + 1] = k
      /\ \A i \in 1 .. m : blocks'[i] = blocks[i] /\ blocks[i] \in Nat
      /\ blocks' # <<>>
  <2>1. blocks \in Seq(Nat) /\ k \in Nat
    BY StackEntries DEF IndInv, TypeOK
  <2>2. blocks' = Append(blocks, k)
    BY DEF EnterBlock
  <2>3. /\ Len(blocks') = m + 1 /\ blocks'[m + 1] = k /\ blocks' # <<>>
        /\ \A i \in 1 .. m : blocks'[i] = blocks[i]
    BY <2>1, <2>2, AppendProperties
  <2>4. m \in Nat /\ \A i \in 1 .. m : blocks[i] \in Nat
    BY <2>1
  <2>5. dirty' = dirty /\ phase' = phase /\ fn' = IF fn = "params" THEN "body" ELSE fn
    BY DEF EnterBlock
  <2> QED
    BY <2>1, <2>2, <2>3, <2>4, <2>5
<1>3. scope_stack_bottom \in Pointer
  BY DEF IndInv, TypeOK
<1>4. /\ StacksOK' /\ ChainsOK' /\ HeadsExact'
      /\ Len(local_stack') = k + 1
      /\ local_stack'[k + 1] = s
      /\ v'[s] = Anon /\ next'[s] = scope_stack_bottom
      /\ \A i \in 1 .. k : local_stack'[i] = local_stack[i]
      /\ \A i \in 1 .. m :
            /\ blocks[i] < Len(local_stack')
            /\ local_stack'[blocks[i] + 1] = local_stack[blocks[i] + 1]
            /\ v'[local_stack[blocks[i] + 1]] = Anon
            /\ next'[local_stack[blocks[i] + 1]] = next[local_stack[blocks[i] + 1]]
      /\ OuterBottom' = Nil /\ OuterBottom = Nil => OnePerScope'
  BY <1>1, <1>2, <1>3, MarkerInd
<1>5. OuterBottom' = OuterBottom
  <2>1. CASE blocks = <<>>
    <3>1. OuterBottom' = next'[local_stack'[k + 1]]
      BY <1>2, <2>1 DEF OuterBottom
    <3> QED
      BY <1>4, <2>1, <3>1 DEF OuterBottom
  <2>2. CASE blocks # <<>>
    <3>1. 1 \in 1 .. m /\ blocks'[1] = blocks[1]
      BY <1>2, <2>2 DEF IndInv, TypeOK
    <3> QED
      BY <1>2, <1>4, <2>2, <3>1 DEF OuterBottom
  <2> QED
    BY <2>1, <2>2
<1>6. OnePerScope'
  BY <1>4, <1>5 DEF OnePerScope
<1>7. BlocksOK'
  <2>1. ASSUME NEW i \in 1 .. Len(blocks')
        PROVE  blocks'[i] < Len(local_stack') /\ v'[local_stack'[blocks'[i] + 1]] = Anon
    <3>1. CASE i \in 1 .. m
      <4>1. blocks'[i] = blocks[i] /\ local_stack'[blocks'[i] + 1] = local_stack[blocks[i] + 1]
        BY <1>2, <1>4, <3>1
      <4> QED
        BY <1>4, <3>1, <4>1
    <3>2. CASE i = m + 1
      BY <1>2, <1>4, <3>2
    <3> QED
      BY <1>2, <3>1, <3>2
  <2>2. ASSUME NEW i \in 2 .. Len(blocks')
        PROVE  next'[local_stack'[blocks'[i] + 1]] = local_stack'[blocks'[i - 1] + 1]
    <3>1. CASE i \in 2 .. m
      <4>1. i \in 1 .. m /\ i - 1 \in 1 .. m
        BY <1>2, <3>1
      <4>2. next[local_stack[blocks[i] + 1]] = local_stack[blocks[i - 1] + 1]
        BY <3>1 DEF IndInv, BlocksOK
      <4> QED
        BY <1>2, <1>4, <4>1, <4>2
    <3>2. CASE i = m + 1
      <4>1. blocks # <<>> /\ i - 1 = m /\ m \in 1 .. m
        BY <1>2, <3>2
      <4>2. scope_stack_bottom = local_stack[blocks[m] + 1]
        BY <4>1, InnermostMarker DEF IndInv
      <4> QED
        BY <1>2, <1>4, <3>2, <4>1, <4>2
    <3> QED
      BY <1>2, <3>1, <3>2
  <2>3. scope_stack_bottom' = local_stack'[blocks'[Len(blocks')] + 1]
    BY <1>1, <1>2, <1>4
  <2>4. ASSUME NEW i \in 1 .. Len(blocks'), NEW j \in 1 .. Len(blocks'), i < j
        PROVE  blocks'[i] < blocks'[j]
    <3>1. i \in 1 .. m /\ (j \in 1 .. m \/ j = m + 1)
      BY <1>2, <2>4
    <3>2. blocks[i] < k
      BY <3>1 DEF IndInv, BlocksOK
    <3> QED
      BY <1>2, <2>4, <3>1, <3>2 DEF IndInv, BlocksOK
  <2> QED
    BY <2>1, <2>2, <2>3, <2>4 DEF BlocksOK
<1>8. ControlOK'
  <2>1. phase' = "file" \/ fn' # "no"
    BY <1>2 DEF EnterBlock, Declaring, AtFileScope, IndInv, ControlOK
  <2>2. fn' \notin {"entered", "params"} /\ phase' \notin {"idle"}
    BY <1>2 DEF EnterBlock, Declaring, AtFileScope, IndInv, ControlOK
  <2>3. phase' = "exit" => fn' = "no"
    BY <1>2 DEF EnterBlock, Declaring, AtFileScope, IndInv, ControlOK
  <2>4. ~ dirty' /\ fn' = "no" => blocks'[1] = 0
    <3>1. SUFFICES ASSUME ~ dirty, fn = "no"
                   PROVE  blocks'[1] = 0
      BY <1>2
    <3>2. CASE blocks = <<>>
      <4>1. local_stack = <<>> /\ m = 0
        BY <3>1, <3>2 DEF IndInv, ControlOK
      <4> QED
        BY <1>2, <4>1
    <3>3. CASE blocks # <<>>
      <4>1. 1 \in 1 .. m /\ blocks[1] = 0
        BY <1>2, <3>1, <3>3 DEF IndInv, ControlOK, TypeOK
      <4> QED
        BY <1>2, <4>1
    <3> QED
      BY <3>2, <3>3
  <2> QED
    BY <1>2, <2>1, <2>2, <2>3, <2>4 DEF ControlOK
<1> QED
  BY <1>4, <1>6, <1>7, <1>8

LEMMA LeaveBlockInd ==
    ASSUME IndInv, LeaveBlock
    PROVE  StacksOK' /\ ControlOK' /\ BlocksOK' /\ ChainsOK' /\ HeadsExact' /\ OnePerScope'
<1> DEFINE m == Len(blocks)  b == blocks[m]  M(k) == local_stack[blocks[k] + 1]
<1>1. /\ blocks # <<>> /\ m \in 1 .. m /\ m \in Nat /\ b \in Nat /\ b < Len(local_stack)
      /\ scope_stack_bottom = M(m) /\ Len(local_stack) \in Nat
  BY InnermostMarker, StackEntries DEF LeaveBlock, IndInv, TypeOK
<1>2. /\ PopLocal(b) /\ scope_stack_bottom' = next[M(m)]
      /\ phase' = phase /\ fn' = fn /\ dirty' = dirty
  BY <1>1 DEF LeaveBlock
<1>3. /\ Len(blocks') = m - 1 /\ (blocks' = <<>> <=> m = 1)
      /\ \A k \in 1 .. m - 1 : blocks'[k] = blocks[k] /\ blocks[k] \in Nat /\ blocks[k] < b
  <2>1. blocks' = SubSeq(blocks, 1, m - 1) /\ blocks \in Seq(Nat)
    BY DEF LeaveBlock, IndInv, TypeOK
  <2>2. m - 1 \in Nat /\ m - 1 <= m
    BY <1>1
  <2>3. /\ blocks' \in Seq(Nat) /\ Len(blocks') = m - 1
        /\ \A k \in 1 .. m - 1 : blocks'[k] = blocks[k]
    BY <2>1, <2>2, PrefixOf
  <2>4. \A k \in 1 .. m - 1 : k \in 1 .. m /\ k < m
    BY <1>1
  <2>5. \A k \in 1 .. m - 1 : blocks[k] \in Nat /\ blocks[k] < b
    BY <1>1, <2>1, <2>4, SMTT(30) DEF IndInv, BlocksOK
  <2>6. blocks' = <<>> <=> m - 1 = 0
    BY <2>3
  <2> HIDE DEF m, b
  <2> QED
    BY <1>1, <2>3, <2>5, <2>6
<1>4. /\ Len(local_stack') = b
      /\ \A i \in 1 .. b :
            /\ local_stack'[i] = local_stack[i]
            /\ v'[local_stack[i]] = v[local_stack[i]]
            /\ next'[local_stack[i]] = next[local_stack[i]]
  BY <1>1, <1>2, PopLocalKeeps DEF IndInv
<1>5. StacksOK'
  BY <1>1, <1>2, PopLocalStacks DEF IndInv
<1>6. ChainsOK' /\ HeadsExact'
  <2>1. ASSUME ~ dirty
        PROVE  Chains' /\ Heads'
    <3>1. TypeOK /\ Table
      BY <2>1, CleanIsTable DEF IndInv
    <3>2. Table'
      BY <1>1, <1>2, <3>1, PopLocalTable
    <3> QED
      BY <3>2 DEF Table
  <2> QED
    BY <1>2, <2>1 DEF ChainsOK, HeadsExact
<1>7. ASSUME NEW k \in 1 .. m - 1
      PROVE  /\ blocks'[k] < Len(local_stack')
             /\ local_stack'[blocks'[k] + 1] = M(k)
             /\ v'[M(k)] = Anon
             /\ next'[M(k)] = next[M(k)]
  <2>1. k \in 1 .. m /\ v[M(k)] = Anon
    BY <1>1 DEF IndInv, BlocksOK
  <2>2. blocks[k] + 1 \in 1 .. b /\ blocks[k] < b
    BY <1>1, <1>3
  <2>3. blocks'[k] = blocks[k]
    BY <1>3
  <2>4. /\ local_stack'[blocks[k] + 1] = M(k)
        /\ v'[M(k)] = v[M(k)] /\ next'[M(k)] = next[M(k)]
    BY <1>4, <2>2
  <2> HIDE DEF m, b, M
  <2> QED
    BY <1>4, <2>1, <2>2, <2>3, <2>4 DEF M
<1>8. BlocksOK'
  <2>1. ASSUME NEW k \in 2 .. m - 1
        PROVE  next'[local_stack'[blocks'[k] + 1]] = local_stack'[blocks'[k - 1] + 1]
    <3>1. k \in 1 .. m - 1 /\ k - 1 \in 1 .. m - 1 /\ k \in 2 .. m
      BY <1>1
    <3>2. next[M(k)] = M(k - 1)
      BY <3>1 DEF IndInv, BlocksOK
    <3> QED
      BY <1>7, <3>1, <3>2
  <2>2. m # 1 => scope_stack_bottom' = local_stack'[blocks'[m - 1] + 1]
    <3>1. SUFFICES ASSUME m # 1
                   PROVE  scope_stack_bottom' = local_stack'[blocks'[m - 1] + 1]
      OBVIOUS
    <3>2. m - 1 \in 1 .. m - 1 /\ m \in 2 .. m
      <4> HIDE DEF m
      <4> QED
        BY <1>1, <3>1
    <3>3. next[M(m)] = M(m - 1)
      BY <3>2 DEF IndInv, BlocksOK
    <3> QED
      BY <1>2, <1>7, <3>2, <3>3
  <2>3. ASSUME NEW i \in 1 .. m - 1, NEW j \in 1 .. m - 1, i < j
        PROVE  blocks'[i] < blocks'[j]
    <3>1. i \in 1 .. m /\ j \in 1 .. m
      BY <1>1
    <3> QED
      BY <1>3, <2>3, <3>1 DEF IndInv, BlocksOK
  <2>4. \A k \in 1 .. m - 1 :
          blocks'[k] < Len(local_stack') /\ v'[local_stack'[blocks'[k] + 1]] = Anon
    BY <1>7
  <2> HIDE DEF m, M
  <2> QED
    BY <1>3, <2>1, <2>2, <2>3, <2>4 DEF BlocksOK
<1>9. OuterBottom' = OuterBottom
  <2>1. CASE m = 1
    BY <1>1, <1>2, <1>3, <2>1 DEF OuterBottom
  <2>2. CASE m # 1
    <3>1. 1 \in 1 .. m - 1
      <4> HIDE DEF m
      <4> QED
        BY <1>1, <2>2
    <3> QED
      BY <1>1, <1>3, <1>7, <2>2, <3>1 DEF OuterBottom
  <2> QED
    BY <2>1, <2>2
<1>10. OnePerScope'
  <2>1. SUFFICES ASSUME OuterBottom = Nil, NEW i \in 1 .. b, NEW j \in 1 .. b, i < j,
                        v[local_stack[i]] = v[local_stack[j]], v[local_stack[i]] \in Names
                 PROVE  \E k \in i .. j : v[local_stack[k]] = Anon
    <3>1. \A i, j \in 1 .. b : \A k \in i .. j : k \in 1 .. b
      BY <1>1
    <3> QED
      BY <1>4, <1>9, <3>1 DEF OnePerScope
  <2>2. i \in 1 .. Len(local_stack) /\ j \in 1 .. Len(local_stack)
    BY <1>1
  <2> QED
    BY <2>1, <2>2 DEF IndInv, OnePerScope
<1>11. ControlOK'
  <2>1. \A k \in 1 .. 1 : m # 1 => blocks'[1] = blocks[1]
    BY <1>1, <1>3
  <2>2. /\ phase \notin {"idle", "exit"}
        /\ fn \notin {"entered", "params"}
        /\ fn = "no" => phase = "file"
    BY <1>1 DEF IndInv, ControlOK, TypeOK
  <2>3. ~ dirty /\ fn = "no" => blocks[1] = 0
    BY <1>1 DEF IndInv, ControlOK
  <2>4. ~ dirty /\ fn = "no" /\ m = 1 => local_stack' = <<>>
    <3>1. SUFFICES ASSUME ~ dirty, fn = "no", m = 1
                   PROVE  local_stack' = <<>>
      OBVIOUS
    <3>2. Len(local_stack') = 0 /\ local_stack' \in Seq(Slots)
      BY <1>1, <1>2, <1>4, <2>3, <3>1, PopLocalType DEF IndInv
    <3> QED
      BY <3>2
  <2> QED
    BY <1>2, <1>3, <2>1, <2>2, <2>3, <2>4 DEF ControlOK
<1> QED
  BY <1>5, <1>6, <1>8, <1>10, <1>11

LEMMA EndFunctionInd ==
    ASSUME IndInv, EndFunction
    PROVE  StacksOK' /\ ControlOK' /\ BlocksOK' /\ ChainsOK' /\ HeadsExact' /\ OnePerScope'
<1>1. /\ 0 \in Nat /\ 0 <= Len(local_stack) /\ PopLocal(0)
      /\ blocks = <<>> /\ blocks' = <<>> /\ Len(blocks') = 0
      /\ fn' = "no" /\ phase' = phase /\ dirty' = dirty
      /\ phase \notin {"idle", "exit"}
  BY StackEntries DEF EndFunction, IndInv, ControlOK
<1>2. StacksOK'
  BY <1>1, PopLocalStacks DEF IndInv
<1>3. Len(local_stack') = 0 /\ local_stack' = <<>>
  BY <1>1, PopLocalKeeps, PopLocalType DEF IndInv
<1>4. ChainsOK' /\ HeadsExact'
  <2>1. ASSUME ~ dirty
        PROVE  Chains' /\ Heads'
    <3>1. TypeOK /\ Table
      BY <2>1, CleanIsTable DEF IndInv
    <3>2. Table'
      BY <1>1, <3>1, PopLocalTable
    <3> QED
      BY <3>2 DEF Table
  <2> QED
    BY <1>1, <2>1 DEF ChainsOK, HeadsExact
<1>5. BlocksOK' /\ OnePerScope'
  BY <1>1, <1>3 DEF BlocksOK, OnePerScope
<1>6. ControlOK'
  BY <1>1, <1>3 DEF ControlOK
<1> QED
  BY <1>2, <1>4, <1>5, <1>6

\* At the end of a clean unit no name is visible any more: the oldest
\* declaration of a name hides nothing.
LEMMA GlobalsUnhashed ==
    ASSUME TypeOK, Table, local_stack = <<>>, NEW n \in Names
    PROVE  HeadsAfterPop(sym_of, global_stack, 0)[n] = Nil
<1> DEFINE G == global_stack  g == Len(global_stack)
           I == {i \in (0 + 1) .. g : v[G[i]] = n}
<1>1. g \in Nat /\ Len(local_stack) = 0
  BY StackEntries
<1>2. NewestOrNil(v, G, g, n, sym_of[n])
  <2>1. Found(v, G, local_stack, 0, n, sym_of[n])
    BY <1>1 DEF Table, Heads, Visible
  <2> QED
    BY <2>1 DEF Found, Newest
<1>3. CASE I = {}
  <2>1. HeadsAfterPop(sym_of, G, 0)[n] = sym_of[n]
    BY <1>3 DEF HeadsAfterPop
  <2>2. \A i \in 1 .. g : v[G[i]] # n
    BY <1>3
  <2>3. ~ Newest(v, G, g, n, sym_of[n])
    BY <2>2 DEF Newest
  <2> QED
    BY <1>2, <2>1, <2>3 DEF NewestOrNil
<1>4. CASE I # {}
  <2> DEFINE m == Min(I)
  <2>1. HeadsAfterPop(sym_of, G, 0)[n] = prev_tok[G[m]]
    BY <1>4 DEF HeadsAfterPop
  <2>2. m \in I /\ \A i \in I : m <= i
    <3>1. I \subseteq Nat
      OBVIOUS
    <3> HIDE DEF I
    <3> QED
      BY <1>4, <3>1, MinOfPositions
  <2>3. m \in 1 .. g /\ v[G[m]] = n
    BY <2>2
  <2>4. ASSUME NEW j \in 1 .. m - 1
        PROVE  v[G[j]] # n
    <3>1. j \in 1 .. g /\ ~ (m <= j)
      <4> HIDE DEF m, g
      <4> QED
        BY <1>1, <2>3
    <3> QED
      BY <2>2, <3>1
  <2>5. NewestOrNil(v, G, m - 1, n, prev_tok[G[m]])
    BY <2>3 DEF Table, Chains
  <2>6. ~ Newest(v, G, m - 1, n, prev_tok[G[m]])
    <3> HIDE DEF m, G
    <3>1. ASSUME NEW i \in 1 .. m - 1, G[i] = prev_tok[G[m]], v[prev_tok[G[m]]] = n
          PROVE  FALSE
      BY <2>4, <3>1
    <3> QED
      BY <3>1 DEF Newest
  <2> QED
    BY <2>1, <2>5, <2>6 DEF NewestOrNil
<1> QED
  BY <1>3, <1>4

LEMMA FinishUnitInd ==
    ASSUME IndInv, FinishUnit
    PROVE  StacksOK' /\ ControlOK' /\ BlocksOK' /\ ChainsOK' /\ HeadsExact' /\ OnePerScope'
<1>1. /\ global_stack' = <<>> /\ local_stack' = <<>>
      /\ Len(global_stack') = 0 /\ Len(local_stack') = 0
      /\ blocks = <<>> /\ blocks' = <<>> /\ Len(blocks') = 0
      /\ fn' = "no" /\ phase' = "idle" /\ dirty' = dirty
  BY DEF FinishUnit, IndInv, ControlOK
<1>2. StacksOK' /\ BlocksOK' /\ ChainsOK' /\ OnePerScope' /\ ControlOK'
  BY <1>1 DEF StacksOK, BlocksOK, ChainsOK, Chains, OnePerScope, ControlOK
<1>3. HeadsExact'
  <2>1. SUFFICES ASSUME ~ dirty, NEW n \in Names
                 PROVE  sym_of'[n] = Nil
    BY <1>1 DEF HeadsExact, Heads, Visible, Found, NewestOrNil, Absent
  <2>2. local_stack = <<>> /\ Len(local_stack) = 0
    BY <1>1, <2>1 DEF FinishUnit, IndInv, ControlOK
  <2>3. HeadsAfterPop(sym_of, global_stack, 0)[n] = Nil
    BY <2>1, <2>2, CleanIsTable, GlobalsUnhashed DEF IndInv
  <2>4. \A heads : HeadsAfterPop(heads, local_stack, 0)[n] = heads[n]
    BY <2>2 DEF HeadsAfterPop
  <2> QED
    BY <2>3, <2>4 DEF FinishUnit
<1> QED
  BY <1>2, <1>3

LEMMA RecreateInd ==
    ASSUME IndInv, Recreate
    PROVE  StacksOK' /\ ControlOK' /\ BlocksOK' /\ ChainsOK' /\ HeadsExact' /\ OnePerScope'
<1>1. /\ global_stack' = <<>> /\ local_stack' = <<>>
      /\ Len(global_stack') = 0 /\ Len(local_stack') = 0
      /\ blocks = <<>> /\ blocks' = <<>> /\ Len(blocks') = 0
      /\ fn' = "no" /\ phase' = "idle"
      /\ sym_of' = [n \in Names |-> Nil]
  BY DEF Recreate, IndInv, ControlOK
<1>2. StacksOK' /\ BlocksOK' /\ ChainsOK' /\ OnePerScope' /\ ControlOK'
  BY <1>1 DEF StacksOK, BlocksOK, ChainsOK, Chains, OnePerScope, ControlOK
<1>3. HeadsExact'
  BY <1>1 DEF HeadsExact, Heads, Visible, Found, NewestOrNil, Absent
<1> QED
  BY <1>2, <1>3

LEMMA RaiseErrorInd ==
    ASSUME IndInv, RaiseError
    PROVE  StacksOK' /\ ControlOK' /\ BlocksOK' /\ ChainsOK' /\ HeadsExact' /\ OnePerScope'
<1>1. /\ UNCHANGED <<v, prev_tok, next, sym_of, global_stack, local_stack, scope_stack_bottom>>
      /\ blocks' = <<>> /\ Len(blocks') = 0 /\ fn' = "no"
      /\ phase' \in {"tail", "exit"}
      /\ dirty' = (dirty \/ local_stack # <<>>)
  BY DEF RaiseError
<1>2. StacksOK' /\ BlocksOK'
  BY <1>1 DEF IndInv, StacksOK, BlocksOK
<1>3. ChainsOK' /\ HeadsExact'
  BY <1>1 DEF IndInv, ChainsOK, HeadsExact, Chains, Heads, Visible
<1>4. OnePerScope'
  <2>1. OuterBottom' = scope_stack_bottom
    BY <1>1 DEF OuterBottom
  <2>2. CASE blocks = <<>>
    BY <1>1, <2>1, <2>2 DEF IndInv, OnePerScope, OuterBottom
  <2>3. CASE blocks # <<>>
    <3>1. scope_stack_bottom # Nil
      BY <2>3, InnermostMarker, SymTableAssumption DEF IndInv
    <3> QED
      BY <2>1, <3>1 DEF OnePerScope
  <2> QED
    BY <2>2, <2>3
<1>5. ControlOK'
  BY <1>1 DEF ControlOK
<1> QED
  BY <1>2, <1>3, <1>4, <1>5

LEMMA IndNext ==
    ASSUME IndInv, [Next]_vars
    PROVE  IndInv'
<1> DEFINE Rest == StacksOK /\ ControlOK /\ BlocksOK /\ ChainsOK /\ HeadsExact /\ OnePerScope
<1>1. TypeOK'
  BY TypeNext DEF IndInv
<1>20. SUFFICES Rest'
  BY <1>1 DEF IndInv
<1>2. CASE StartUnit
  <2>1. ControlOK'
    BY <1>2 DEF StartUnit, IndInv, ControlOK
  <2> QED
    BY <1>2, <2>1, QuietStep DEF StartUnit
<1>3. CASE EndOfFile
  <2>1. ControlOK'
    BY <1>3 DEF EndOfFile, AtFileScope, IndInv, ControlOK
  <2> QED
    BY <1>3, <2>1, QuietStep DEF EndOfFile
<1>4. CASE RaiseError
  BY <1>4, RaiseErrorInd
<1>5. CASE FinishUnit
  BY <1>5, FinishUnitInd
<1>6. CASE Recreate
  BY <1>6, RecreateInd
<1>7. CASE Exited \/ UNCHANGED vars
  <2>1. ControlOK'
    BY <1>7 DEF Exited, vars, IndInv, ControlOK
  <2> QED
    BY <1>7, <2>1, QuietStep DEF Exited, vars
<1>8. ASSUME NEW n \in Names, Declare(n)
      PROVE  Rest'
  <2>1. PICK s \in Slots \ Used : IF local_stack # <<>>
                                  THEN ~ Redeclared(n) /\ PushLocal(s, n)
                                  ELSE PushGlobal(s, n)
    BY <1>8 DEF Declare
  <2>2. Declaring /\ UNCHANGED <<scope_stack_bottom, blocks, phase, fn, inline_fns, dirty>>
    BY <1>8 DEF Declare
  <2>3. CASE local_stack # <<>>
    BY <2>1, <2>2, <2>3, DeclareLocalInd
  <2>4. CASE local_stack = <<>>
    <3>1. phase = "file" \/ InFunction
      BY <2>2 DEF Declaring, AtFileScope, InFunction, IndInv, ControlOK
    <3>2. ControlOK'
      BY <2>1, <2>2, <2>4, <3>1 DEF PushGlobal, InFunction, IndInv, ControlOK
    <3> QED
      BY <2>1, <2>2, <2>4, <3>1, <3>2, DeclareGlobalInd
  <2> QED
    BY <2>3, <2>4
<1>9. ASSUME NEW n \in Names, DeclareImplicitly(n)
      PROVE  Rest'
  <2>1. PICK s \in Slots \ Used : PushUnderLocals(s, n)
    BY <1>9 DEF DeclareImplicitly
  <2>2. Declaring /\ UNCHANGED <<scope_stack_bottom, blocks, phase, fn, inline_fns, dirty>>
    BY <1>9 DEF DeclareImplicitly
  <2>3. phase = "file" \/ InFunction
    BY <2>2 DEF Declaring, AtFileScope, InFunction, IndInv, ControlOK
  <2>4. ControlOK'
    BY <2>1, <2>2, <2>3 DEF PushUnderLocals, InFunction, IndInv, ControlOK
  <2> QED
    BY <2>1, <2>2, <2>3, <2>4, DeclareGlobalInd
<1>10. ASSUME NEW n \in Names, DefineFunction(n)
       PROVE  Rest'
  <2>1. /\ AtFileScope
        /\ fn' \in {"no", "entered"}
        /\ UNCHANGED <<scope_stack_bottom, blocks, phase, dirty>>
    BY <1>10 DEF DefineFunction, AtFileScope
  <2>2. CASE UNCHANGED <<v, prev_tok, next, sym_of, global_stack, local_stack>>
    <3>1. ControlOK'
      BY <2>1, <2>2 DEF AtFileScope, IndInv, ControlOK
    <3> QED
      BY <2>1, <2>2, <3>1, QuietStep
  <2>3. CASE \E s \in Slots \ Used : PushUnderLocals(s, n)
    <3>1. PICK s \in Slots \ Used : PushUnderLocals(s, n)
      BY <2>3
    <3>2. ControlOK'
      BY <2>1, <3>1 DEF PushUnderLocals, AtFileScope, IndInv, ControlOK
    <3> QED
      BY <2>1, <3>1, <3>2, DeclareGlobalInd DEF AtFileScope
  <2> QED
    BY <1>10, <2>2, <2>3 DEF DefineFunction
<1>11. CASE GenInline
  <2>1. ControlOK'
    BY <1>11 DEF GenInline, IndInv, ControlOK
  <2> QED
    BY <1>11, <2>1, QuietStep DEF GenInline
<1>12. CASE BeginFunction
  BY <1>12, BeginFunctionInd
<1>13. CASE EnterBlock
  BY <1>13, EnterBlockInd
<1>14. CASE LeaveBlock
  BY <1>14, LeaveBlockInd
<1>15. CASE EndFunction
  BY <1>15, EndFunctionInd
<1>16. Rest'
  BY <1>2, <1>3, <1>4, <1>5, <1>6, <1>7, <1>8, <1>9, <1>10, <1>11, <1>12,
     <1>13, <1>14, <1>15 DEF Next
<1> QED
  BY <1>16

(***************************************************************************)
(* The theorems.                                                           *)
(***************************************************************************)

\* The invariant is inductive: it holds in every reachable state.
THEOREM Invariant == Spec => []IndInv
<1>1. Init => IndInv
  BY IndInit
<1>2. IndInv /\ [Next]_vars => IndInv'
  BY IndNext
<1> QED
  BY <1>1, <1>2, PTL DEF Spec

\* Every variable keeps its type (the pointers of tccgen.c stay pointers to
\* Syms or null, the stacks stay lists of Syms).
THEOREM TypeCorrect == Spec => []TypeOK
<1>1. IndInv => TypeOK
  BY DEF IndInv
<1> QED
  BY <1>1, Invariant, PTL

\* sym_find returns what tcc-doc.texi says, the innermost declaration, for any
\* number of names, symbols and blocks, until an error strikes inside a scope.
THEOREM LookupCorrect == Spec => []HeadsExact
<1>1. IndInv => HeadsExact
  BY DEF IndInv
<1> QED
  BY <1>1, Invariant, PTL

\* A local scope never holds two declarations of a name, even in the units
\* after an error, once scope_stack_bottom is null again.
THEOREM ScopesHaveNoDuplicate == Spec => []OnePerScope
<1>1. IndInv => OnePerScope
  BY DEF IndInv
<1> QED
  BY <1>1, Invariant, PTL

\* Between units the table is empty: every name is undeclared for the next
\* file that is compiled in the same TCCState, unless an error left symbols.
THEOREM UnitsAreSeparate == Spec => []NothingLeft
<1>1. ASSUME IndInv
      PROVE  NothingLeft
  <2>1. SUFFICES ASSUME phase = "idle", ~ dirty
                 PROVE  /\ \A n \in Names : sym_of[n] = Nil
                        /\ blocks = <<>> /\ fn = "no"
    BY DEF NothingLeft
  <2>2. /\ Len(global_stack) = 0 /\ Len(local_stack) = 0
        /\ blocks = <<>> /\ fn = "no"
    BY <1>1, <2>1 DEF IndInv, ControlOK
  <2>3. ASSUME NEW n \in Names
        PROVE  sym_of[n] = Nil
    <3>1. Found(v, global_stack, local_stack, 0, n, sym_of[n])
      BY <1>1, <2>1, <2>2 DEF IndInv, HeadsExact, Heads, Visible
    <3> QED
      BY <2>2, <3>1 DEF Found, NewestOrNil, Newest
  <2> QED
    BY <2>2, <2>3
<1> QED
  BY <1>1, Invariant, PTL

\* The walk of sym_push2 sees the innermost scope and no other: it refuses a
\* declaration exactly when that scope has one of the name, for any nesting.
THEOREM RedeclarationsRefused == Spec => []RedeclaredExact
<1>1. ASSUME IndInv
      PROVE  RedeclaredExact
  <2> DEFINE L == local_stack  b == Bases[Len(Bases)]
  <2>1. SUFFICES ASSUME OuterBottom = Nil, Bases # <<>>, NEW n \in Names
                 PROVE  Redeclared(n) <=> \E i \in b + 1 .. Len(L) : v[L[i]] = n
    BY DEF RedeclaredExact
  <2>2. TypeOK /\ StacksOK /\ BlocksOK /\ Len(L) \in Nat
    BY <1>1, StackEntries DEF IndInv
  <2>3. CASE blocks = <<>>
    <3>1. b = 0 /\ scope_stack_bottom = Nil
      BY <2>1, <2>3 DEF Bases, OuterBottom
    <3>2. \A j \in 1 .. Len(L) : L[j] # scope_stack_bottom
      BY <2>2, <3>1, StackEntries, SymTableAssumption
    <3> QED
      BY <2>2, <3>1, <3>2 DEF Redeclared
  <2>4. CASE blocks # <<>>
    <3> DEFINE c == blocks[Len(blocks)]
    <3>1. /\ c \in Nat /\ c < Len(L) /\ scope_stack_bottom = L[c + 1]
          /\ v[L[c + 1]] = Anon
      BY <2>2, <2>4, InnermostMarker
    <3>2. b = c
      <4>1. blocks \in Seq(Nat) /\ Len(blocks) \in 1 .. Len(blocks)
        BY <2>2, <2>4, InnermostMarker DEF TypeOK
      <4> QED
        BY <4>1 DEF Bases
    <3>3. \A j \in 1 .. Len(L) : L[j] = scope_stack_bottom <=> j = c + 1
      BY <2>2, <3>1 DEF StacksOK
    <3>4. Anon # n
      BY SymTableAssumption
    <3> HIDE DEF b, c, L
    <3>5. ASSUME NEW i \in 1 .. Len(L), v[L[i]] = n, \A j \in i .. Len(L) : j # c + 1
          PROVE  i \in b + 1 .. Len(L)
      BY <2>2, <3>1, <3>2, <3>5
    <3>6. ASSUME NEW i \in b + 1 .. Len(L), v[L[i]] = n
          PROVE  i \in 1 .. Len(L) /\ \A j \in i .. Len(L) : j \in 1 .. Len(L) /\ j # c + 1
      <4>1. i # c + 1
        BY <3>1, <3>4, <3>6
      <4> QED
        BY <2>2, <3>1, <3>2, <4>1
    <3>7. Redeclared(n) <=> \E i \in 1 .. Len(L) :
              v[L[i]] = n /\ \A j \in i .. Len(L) : L[j] # scope_stack_bottom
      BY DEF Redeclared, L
    <3>8. \A i \in 1 .. Len(L), j \in Nat : j \in i .. Len(L) => j \in 1 .. Len(L)
      BY <2>2
    <3> QED
      BY <2>2, <3>3, <3>5, <3>6, <3>7, <3>8
  <2> QED
    BY <2>3, <2>4
<1> QED
  BY <1>1, Invariant, PTL

-----------------------------------------------------------------------------
(***************************************************************************)
(* SymTable implements Scopes: as long as no error strikes inside a scope, *)
(* every step of the compiler on its stacks and chains is a step of a      *)
(* table that only knows which declaration is visible and what to go back  *)
(* to when each open scope ends.                                           *)
(***************************************************************************)

\* What a search finds in the first b local symbols, for any stacks.
BelowIn(w, G, L, b) ==
    [n \in Names |-> CHOOSE s \in Pointer : Found(w, G, L, b, n, s)]

\* The value that the refinement mapping gives to saved.
SavedHeads == [k \in 1 .. Len(Bases) |-> Below(Bases[k])]

(***************************************************************************)
(* A search has one result.                                                *)
(***************************************************************************)

\* The newest symbol of a name is the only one, and excludes that there is none.
LEMMA NewestUnique ==
    ASSUME NEW w, NEW S, NEW k \in Nat, NEW n, NEW s, Newest(w, S, k, n, s)
    PROVE  /\ ~ Absent(w, S, k, n)
           /\ \A t : Newest(w, S, k, n, t) => t = s
<1>1. PICK i \in 1 .. k : /\ S[i] = s /\ w[s] = n
                          /\ \A j \in (i + 1) .. k : w[S[j]] # n
  BY DEF Newest
<1>2. ~ Absent(w, S, k, n)
  BY <1>1 DEF Absent
<1>3. ASSUME NEW t, Newest(w, S, k, n, t)
      PROVE  t = s
  <2>1. PICK j \in 1 .. k : /\ S[j] = t /\ w[t] = n
                            /\ \A m \in (j + 1) .. k : w[S[m]] # n
    BY <1>3 DEF Newest
  <2>2. ~ (i < j)
    BY <1>1, <2>1
  <2>3. ~ (j < i)
    BY <1>1, <2>1
  <2>4. i = j
    BY <2>2, <2>3
  <2> QED
    BY <1>1, <2>1, <2>4
<1> QED
  BY <1>2, <1>3

LEMMA FoundUnique ==
    ASSUME NEW w, NEW G, NEW L, NEW b \in Nat, Len(G) \in Nat, NEW n, NEW s, NEW t,
           Found(w, G, L, b, n, s), Found(w, G, L, b, n, t)
    PROVE  t = s
<1>1. CASE Newest(w, L, b, n, s)
  <2>1. ~ Absent(w, L, b, n) /\ (Newest(w, L, b, n, t) => t = s)
    BY <1>1, NewestUnique
  <2> QED
    BY <2>1 DEF Found
<1>2. CASE Absent(w, L, b, n) /\ NewestOrNil(w, G, Len(G), n, s)
  <2>1. ~ Newest(w, L, b, n, t)
    BY <1>2, NewestUnique
  <2>2. NewestOrNil(w, G, Len(G), n, t)
    BY <2>1 DEF Found
  <2>3. /\ Newest(w, G, Len(G), n, s) => ~ Absent(w, G, Len(G), n)
        /\ Newest(w, G, Len(G), n, t) => ~ Absent(w, G, Len(G), n)
        /\ Newest(w, G, Len(G), n, s) /\ Newest(w, G, Len(G), n, t) => t = s
    BY NewestUnique
  <2> QED
    BY <1>2, <2>2, <2>3 DEF NewestOrNil
<1> QED
  BY <1>1, <1>2 DEF Found

\* So the CHOOSE of the refinement mapping is what the search finds.
LEMMA BelowIs ==
    ASSUME NEW w, NEW G, NEW L, NEW b \in Nat, Len(G) \in Nat,
           NEW n \in Names, NEW s \in Pointer, Found(w, G, L, b, n, s)
    PROVE  BelowIn(w, G, L, b)[n] = s
<1> DEFINE t == CHOOSE x \in Pointer : Found(w, G, L, b, n, x)
<1>1. Found(w, G, L, b, n, t)
  OBVIOUS
<1>2. BelowIn(w, G, L, b)[n] = t
  BY DEF BelowIn
<1> HIDE DEF t
<1> QED
  BY <1>1, <1>2, FoundUnique

\* A step that keeps the symbols below b keeps what is visible there.
LEMMA BelowSame ==
    ASSUME NEW w, NEW w2, NEW G, NEW G2, NEW L, NEW L2, NEW b \in Nat,
           Len(G) \in Nat, Len(G2) = Len(G),
           \A i \in 1 .. Len(G) : G2[i] = G[i] /\ w2[G[i]] = w[G[i]],
           \A i \in 1 .. b : L2[i] = L[i] /\ w2[L[i]] = w[L[i]],
           \A n \in Names : \E s \in Pointer : Found(w, G, L, b, n, s)
    PROVE  BelowIn(w2, G2, L2, b) = BelowIn(w, G, L, b)
<1>1. ASSUME NEW n \in Names
      PROVE  BelowIn(w2, G2, L2, b)[n] = BelowIn(w, G, L, b)[n]
  <2>1. PICK s \in Pointer : Found(w, G, L, b, n, s)
    OBVIOUS
  <2>2. Found(w2, G2, L2, b, n, s)
    BY <2>1, FoundSame
  <2> QED
    BY <2>1, <2>2, BelowIs
<1> QED
  BY <1>1 DEF BelowIn

\* Something is found at every depth: the head a pop to that depth leaves.
LEMMA FoundExists ==
    ASSUME TypeOK, Table, NEW b \in 0 .. Len(local_stack), NEW n \in Names
    PROVE  \E s \in Pointer : Found(v, global_stack, local_stack, b, n, s)
<1>1. b \in Nat /\ b <= Len(local_stack)
  BY StackEntries
<1>2. HeadsAfterPop(sym_of, local_stack, b)[n] \in Pointer
  BY <1>1, HeadsAfterPopType DEF TypeOK
<1> QED
  BY <1>1, <1>2, HeadAfterPop

\* The whole local stack: what the heads say.
LEMMA BelowTop ==
    ASSUME TypeOK, Heads
    PROVE  Below(Len(local_stack)) = sym_of
<1>1. Len(local_stack) \in Nat /\ Len(global_stack) \in Nat
  BY StackEntries
<1>2. ASSUME NEW n \in Names
      PROVE  BelowIn(v, global_stack, local_stack, Len(local_stack))[n] = sym_of[n]
  <2>1. /\ Found(v, global_stack, local_stack, Len(local_stack), n, sym_of[n])
        /\ sym_of[n] \in Pointer
    BY DEF Heads, Visible, TypeOK
  <2> QED
    BY <1>1, <2>1, BelowIs
<1> QED
  BY <1>2 DEF BelowIn, Below, TypeOK

(***************************************************************************)
(* The open scopes.                                                        *)
(***************************************************************************)

\* The dummy symbol of gen_function stays below the blocks of the function, so
\* that what they declare is local.
DummyStays ==
    fn \in {"params", "body"} =>
        local_stack # <<>> /\ \A k \in 1 .. Len(blocks) : blocks[k] >= 1

LEMMA DummyNext ==
    ASSUME IndInv, DummyStays, [Next]_vars
    PROVE  DummyStays'
<1> USE DEF IndInv, TypeOK, DummyStays
<1>1. CASE StartUnit \/ EndOfFile \/ RaiseError \/ Recreate \/ GenInline \/ Exited
           \/ UNCHANGED vars
  BY <1>1 DEF StartUnit, EndOfFile, RaiseError, Recreate, GenInline, Exited, vars,
              ControlOK
<1>2. CASE FinishUnit \/ EndFunction
  BY <1>2 DEF FinishUnit, EndFunction
<1>3. ASSUME NEW n \in Names, Declare(n)
      PROVE  DummyStays'
  <2>1. PICK s \in Slots : local_stack' = Append(local_stack, s)
                           \/ local_stack' = local_stack
    BY <1>3 DEF Declare, PushLocal, PushGlobal
  <2>2. local_stack # <<>> => local_stack' # <<>>
    BY <2>1
  <2>3. UNCHANGED <<blocks, fn>>
    BY <1>3 DEF Declare
  <2> QED
    BY <2>2, <2>3
<1>4. ASSUME NEW n \in Names, DeclareImplicitly(n)
      PROVE  DummyStays'
  BY <1>4 DEF DeclareImplicitly, PushUnderLocals
<1>5. ASSUME NEW n \in Names, DefineFunction(n)
      PROVE  DummyStays'
  BY <1>5 DEF DefineFunction, AtFileScope
<1>6. CASE BeginFunction
  <2>1. PICK s \in Slots : local_stack' = Append(local_stack, s)
    BY <1>6 DEF BeginFunction, PushMarker
  <2>2. local_stack' # <<>>
    BY <2>1
  <2>3. blocks' = <<>>
    BY <1>6 DEF BeginFunction, ControlOK
  <2> QED
    BY <2>2, <2>3
<1>7. CASE EnterBlock
  <2>1. PICK s \in Slots : local_stack' = Append(local_stack, s)
    BY <1>7 DEF EnterBlock, PushMarker
  <2>2. local_stack' # <<>> /\ (local_stack # <<>> => Len(local_stack) >= 1)
    BY <2>1
  <2>3. blocks' = Append(blocks, Len(local_stack)) /\ (fn' = "body" => fn \in {"params", "body"})
        /\ fn' # "params"
    BY <1>7 DEF EnterBlock
  <2> QED
    BY <2>2, <2>3
<1>8. CASE LeaveBlock
  <2> DEFINE b == blocks[Len(blocks)]
  <2>1. b \in Nat /\ b < Len(local_stack) /\ Len(blocks) \in 1 .. Len(blocks)
    BY <1>8, InnermostMarker DEF LeaveBlock
  <2>2. local_stack' = SubSeq(local_stack, 1, b) /\ fn' = fn
        /\ blocks' = SubSeq(blocks, 1, Len(blocks) - 1)
    BY <1>8 DEF LeaveBlock, PopLocal
  <2>3. Len(local_stack') = b
    BY <2>1, <2>2, PrefixOf
  <2>4. /\ Len(blocks') = Len(blocks) - 1
        /\ \A k \in 1 .. Len(blocks) - 1 : blocks'[k] = blocks[k]
    <3> DEFINE c == Len(blocks) - 1
    <3>1. blocks \in Seq(Nat) /\ c \in Nat /\ c <= Len(blocks)
      BY <2>1
    <3>2. blocks' = SubSeq(blocks, 1, c)
      BY <2>2
    <3> HIDE DEF c, b, IndInv, TypeOK, DummyStays
    <3>3. Len(blocks') = c /\ \A k \in 1 .. c : blocks'[k] = blocks[k]
      BY <3>1, <3>2, PrefixOf
    <3> QED
      BY <3>3 DEF c
  <2>5. fn \in {"params", "body"} =>
          b >= 1 /\ \A k \in 1 .. Len(blocks') : blocks'[k] >= 1
    BY <2>1, <2>4
  <2>6. Len(local_stack') >= 1 => local_stack' # <<>>
    OBVIOUS
  <2> HIDE DEF b, IndInv, TypeOK
  <2> QED
    BY <2>2, <2>3, <2>5, <2>6
<1> QED
  BY <1>1, <1>2, <1>3, <1>4, <1>5, <1>6, <1>7, <1>8 DEF Next

\* Every open scope began at a length that the local stack has reached.
LEMMA BasesReached ==
    ASSUME IndInv
    PROVE  /\ Bases \in Seq(Nat) /\ Len(Bases) \in Nat
           /\ \A k \in 1 .. Len(Bases) : Bases[k] \in 0 .. Len(local_stack)
<1> USE DEF IndInv, TypeOK
<1>1. \A k \in 1 .. Len(blocks) : blocks[k] \in 0 .. Len(local_stack)
  BY DEF BlocksOK
<1>2. CASE fn \in {"params", "body"}
  <2>1. Bases = <<0>> \o blocks
    BY <1>2 DEF Bases
  <2>2. /\ Len(Bases) = Len(blocks) + 1 /\ Bases[1] = 0
        /\ \A k \in 2 .. Len(Bases) : Bases[k] = blocks[k - 1]
    BY <2>1
  <2>3. Bases \in Seq(Nat)
    BY <2>1
  <2>4. Len(blocks) \in Nat /\ Len(local_stack) \in Nat
    OBVIOUS
  <2>5. ASSUME NEW k \in 1 .. Len(Bases)
        PROVE  Bases[k] \in 0 .. Len(local_stack)
    <3>1. k = 1 \/ (k \in 2 .. Len(Bases) /\ k - 1 \in 1 .. Len(blocks))
      BY <2>2, <2>4
    <3> HIDE DEF IndInv, TypeOK
    <3> QED
      BY <1>1, <2>2, <2>4, <3>1
  <2> QED
    BY <2>2, <2>3, <2>4, <2>5
<1>3. CASE fn \notin {"params", "body"}
  <2>1. Bases = blocks
    BY <1>3 DEF Bases
  <2> QED
    BY <1>1, <2>1
<1> QED
  BY <1>2, <1>3

\* The bases grow with the nesting.
LEMMA BasesGrow ==
    ASSUME IndInv
    PROVE  \A j, k \in 1 .. Len(Bases) : j < k => Bases[j] <= Bases[k]
<1> USE DEF IndInv, TypeOK
<1>1. \A j, k \in 1 .. Len(blocks) : j < k => blocks[j] < blocks[k]
  BY DEF BlocksOK
<1>2. CASE fn \in {"params", "body"}
  <2>1. Bases = <<0>> \o blocks
    BY <1>2 DEF Bases
  <2>2. /\ Len(Bases) = Len(blocks) + 1 /\ Bases[1] = 0
        /\ \A k \in 2 .. Len(Bases) : Bases[k] = blocks[k - 1]
    BY <2>1
  <2>3. SUFFICES ASSUME NEW j \in 1 .. Len(Bases), NEW k \in 1 .. Len(Bases), j < k
                 PROVE  Bases[j] <= Bases[k]
    OBVIOUS
  <2>4. Len(blocks) \in Nat /\ \A i \in 1 .. Len(blocks) : blocks[i] \in Nat
    OBVIOUS
  <2>5. CASE j = 1
    <3>1. k \in 2 .. Len(Bases) /\ k - 1 \in 1 .. Len(blocks)
      BY <2>2, <2>3, <2>4, <2>5
    <3> HIDE DEF IndInv, TypeOK
    <3> QED
      BY <2>2, <2>4, <2>5, <3>1
  <2>6. CASE j # 1
    <3>1. /\ j \in 2 .. Len(Bases) /\ j - 1 \in 1 .. Len(blocks)
          /\ k \in 2 .. Len(Bases) /\ k - 1 \in 1 .. Len(blocks)
          /\ j - 1 < k - 1
      BY <2>2, <2>3, <2>4, <2>6
    <3> HIDE DEF IndInv, TypeOK
    <3> QED
      BY <1>1, <2>2, <2>4, <3>1
  <2> QED
    BY <2>5, <2>6
<1>3. CASE fn \notin {"params", "body"}
  <2>1. Bases = blocks
    BY <1>3 DEF Bases
  <2> QED
    BY <1>1, <2>1
<1> QED
  BY <1>2, <1>3

\* saved is a list of environments.
LEMMA SavedIsSeq ==
    ASSUME IndInv
    PROVE  /\ SavedHeads \in Seq([Names -> Pointer]) \/ dirty
           /\ Len(SavedHeads) = Len(Bases)
<1>1. Len(Bases) \in Nat
  BY BasesReached
<1>2. Len(SavedHeads) = Len(Bases)
  BY <1>1 DEF SavedHeads
<1>3. ASSUME ~ dirty, NEW k \in 1 .. Len(Bases)
      PROVE  Below(Bases[k]) \in [Names -> Pointer]
  <2>1. TypeOK /\ Table /\ Bases[k] \in 0 .. Len(local_stack)
    BY <1>3, CleanIsTable, BasesReached DEF IndInv
  <2>2. \A n \in Names : \E s \in Pointer :
            Found(v, global_stack, local_stack, Bases[k], n, s)
    BY <2>1, FoundExists
  <2> QED
    BY <2>2 DEF Below
<1>4. ASSUME ~ dirty
      PROVE  SavedHeads \in Seq([Names -> Pointer])
  BY <1>1, <1>3, <1>4 DEF SavedHeads
<1> QED
  BY <1>2, <1>4

\* The same facts of the state after a step.
SavedIsList ==
    /\ SavedHeads \in Seq([Names -> Pointer]) \/ dirty
    /\ Len(SavedHeads) = Len(Bases)

LEMMA SavedIsListNext == IndInv' => SavedIsList'
<1>1. IndInv => SavedIsList
  BY SavedIsSeq DEF SavedIsList
<1> QED
  BY <1>1, PTL

TopIsSeen ==
    BelowIn(v, global_stack, local_stack, Len(local_stack)) = sym_of

LEMMA TopIsSeenNext == TypeOK' /\ Heads' => TopIsSeen'
<1>1. TypeOK /\ Heads => TopIsSeen
  BY BelowTop DEF Below, BelowIn, TopIsSeen
<1> QED
  BY <1>1, PTL

(***************************************************************************)
(* What the steps do to the mapped state.                                  *)
(***************************************************************************)

\* Two lists that agree up to a last element are Append and SubSeq of each
\* other.
LEMMA OneMore ==
    ASSUME NEW E, NEW S \in Seq(E), NEW T \in Seq(E), Len(T) = Len(S) + 1,
           \A k \in 1 .. Len(S) : T[k] = S[k]
    PROVE  /\ T = Append(S, T[Len(S) + 1])
           /\ S = SubSeq(T, 1, Len(T) - 1)
           /\ T # <<>>
<1>1. T[Len(S) + 1] \in E
  OBVIOUS
<1>2. /\ Append(S, T[Len(S) + 1]) \in Seq(E)
      /\ Len(Append(S, T[Len(S) + 1])) = Len(T)
      /\ \A k \in 1 .. Len(T) : Append(S, T[Len(S) + 1])[k] = T[k]
  BY <1>1, AppendProperties
<1>3. T = Append(S, T[Len(S) + 1])
  BY <1>2, SeqEqual
<1>4. Len(S) \in Nat /\ Len(S) <= Len(T) /\ Len(T) - 1 = Len(S)
  OBVIOUS
<1>5. /\ SubSeq(T, 1, Len(S)) \in Seq(E)
      /\ Len(SubSeq(T, 1, Len(S))) = Len(S)
      /\ \A k \in 1 .. Len(S) : SubSeq(T, 1, Len(S))[k] = S[k]
  BY <1>4, PrefixOf
<1>6. S = SubSeq(T, 1, Len(S))
  BY <1>5, SeqEqual
<1> QED
  BY <1>3, <1>4, <1>6

\* The last element goes, whatever comes first.
LEMMA AllButLast ==
    ASSUME NEW E, NEW S \in Seq(E), S # <<>>, NEW x \in E
    PROVE  /\ <<x>> \o S # <<>>
           /\ (<<x>> \o S)[Len(<<x>> \o S)] = S[Len(S)]
           /\ <<x>> \o SubSeq(S, 1, Len(S) - 1)
                = SubSeq(<<x>> \o S, 1, Len(<<x>> \o S) - 1)
<1> DEFINE T == <<x>> \o S  c == Len(S) - 1  P == SubSeq(S, 1, c)  Q == <<x>> \o P
<1>1. c \in Nat /\ c <= Len(S) /\ Len(S) \in Nat /\ Len(S) >= 1
  BY EmptySeq
<1>2. /\ T \in Seq(E) /\ Len(T) = Len(S) + 1 /\ T[1] = x
      /\ \A i \in 1 .. Len(S) : T[i + 1] = S[i]
      /\ \A i \in 2 .. Len(T) : T[i] = S[i - 1]
  OBVIOUS
<1>3. P \in Seq(E) /\ Len(P) = c /\ \A i \in 1 .. c : P[i] = S[i]
  BY <1>1, PrefixOf
<1> HIDE DEF P
<1>4. /\ Q \in Seq(E) /\ Len(Q) = c + 1 /\ Q[1] = x
      /\ \A i \in 2 .. Len(Q) : Q[i] = P[i - 1]
  BY <1>3
<1> HIDE DEF T, Q, c
<1>5. c + 1 \in Nat /\ c + 1 <= Len(T) /\ c + 1 = Len(S) /\ Len(T) - 1 = c + 1
  BY <1>1, <1>2 DEF c
<1>6. \A i \in 1 .. c + 1 : Q[i] = T[i]
  <2>1. SUFFICES ASSUME NEW i \in 1 .. c + 1
                 PROVE  Q[i] = T[i]
    OBVIOUS
  <2>2. CASE i = 1
    BY <1>2, <1>4, <2>2
  <2>3. CASE i # 1
    <3>1. i - 1 \in 1 .. c /\ i \in 2 .. Len(Q) /\ i \in 2 .. Len(T)
      BY <1>1, <1>4, <1>5, <2>3
    <3> QED
      BY <1>2, <1>3, <1>4, <3>1
  <2> QED
    BY <2>2, <2>3
<1>7. /\ SubSeq(T, 1, c + 1) \in Seq(E) /\ Len(SubSeq(T, 1, c + 1)) = c + 1
      /\ \A i \in 1 .. c + 1 : SubSeq(T, 1, c + 1)[i] = T[i]
  BY <1>2, <1>5, PrefixOf
<1>8. Q = SubSeq(T, 1, c + 1)
  BY <1>4, <1>6, <1>7, SeqEqual
<1>9. T # <<>> /\ T[Len(T)] = S[Len(S)]
  <2>1. Len(S) \in 1 .. Len(S) /\ Len(T) # 0
    BY <1>1, <1>2
  <2> QED
    BY <1>2, <2>1
<1> QED
  BY <1>5, <1>8, <1>9 DEF T, Q, P, c

\* The symbols below b, and the global ones, are the same after the step.
Keeps(b) ==
    /\ Len(global_stack') = Len(global_stack)
    /\ \A i \in 1 .. Len(global_stack) :
          /\ global_stack'[i] = global_stack[i]
          /\ v'[global_stack[i]] = v[global_stack[i]]
    /\ \A i \in 1 .. b :
          /\ local_stack'[i] = local_stack[i]
          /\ v'[local_stack[i]] = v[local_stack[i]]

LEMMA BelowKept ==
    ASSUME IndInv, ~ dirty, NEW b \in 0 .. Len(local_stack), Keeps(b)
    PROVE  BelowIn(v', global_stack', local_stack', b) = Below(b)
<1>1. TypeOK /\ Table /\ b \in Nat /\ Len(global_stack) \in Nat
  BY CleanIsTable, StackEntries DEF IndInv
<1>2. \A n \in Names : \E s \in Pointer :
          Found(v, global_stack, local_stack, b, n, s)
  BY <1>1, FoundExists
<1>3. BelowIn(v', global_stack', local_stack', b)
        = BelowIn(v, global_stack, local_stack, b)
  BY <1>1, <1>2, BelowSame DEF Keeps
<1> QED
  BY <1>3 DEF Below, BelowIn

\* A scope that is open before and after such a step keeps its environment.
LEMMA SavedKept ==
    ASSUME IndInv, IndInv', ~ dirty, NEW k \in 1 .. Len(Bases), k <= Len(Bases'),
           Bases'[k] = Bases[k], Keeps(Bases[k])
    PROVE  SavedHeads'[k] = SavedHeads[k]
<1>1. Bases[k] \in 0 .. Len(local_stack) /\ Len(Bases) \in Nat
  BY BasesReached
<1>2. SavedHeads[k] = Below(Bases[k])
  BY DEF SavedHeads
<1>3. SavedHeads'[k] = BelowIn(v', global_stack', local_stack', Bases[k])
  <2>1. k \in 1 .. Len(Bases')
    BY <1>1
  <2> QED
    BY <2>1 DEF SavedHeads, Below, BelowIn
<1> QED
  BY <1>1, <1>2, <1>3, BelowKept

\* If no scope is opened or closed and every one is kept, saved is the same.
LEMMA SavedUnchanged ==
    ASSUME IndInv, IndInv', ~ dirty, ~ dirty', Bases' = Bases,
           Keeps(Len(local_stack))
    PROVE  SavedHeads' = SavedHeads
<1>1. ASSUME NEW k \in 1 .. Len(Bases)
      PROVE  SavedHeads'[k] = SavedHeads[k]
  <2>1. Bases[k] \in 0 .. Len(local_stack) /\ Len(Bases) \in Nat
    BY BasesReached
  <2>2. Keeps(Bases[k])
    BY <2>1, StackEntries DEF Keeps, IndInv
  <2> QED
    BY <2>1, <2>2, SavedKept
<1> QED
  BY <1>1 DEF SavedHeads

(***************************************************************************)
(* The steps of Scopes, in terms of the heads and of the mapped saved.     *)
(***************************************************************************)

LEMMA AbsStutter ==
    ASSUME sym_of' = sym_of, SavedHeads' = SavedHeads
    PROVE  UNCHANGED Abs!vars
  BY DEF Abs!vars, SavedHeads

LEMMA AbsDeclare ==
    ASSUME NEW n \in Names, NEW s \in Slots,
           sym_of' = [sym_of EXCEPT ![n] = s], SavedHeads' = SavedHeads
    PROVE  Abs!Next
<1>1. Abs!Declare(n, s)
  BY DEF Abs!Declare, SavedHeads
<1> QED
  BY <1>1 DEF Abs!Next

LEMMA AbsDeclareGlobally ==
    ASSUME NEW n \in Names, NEW s \in Slots,
           sym_of[n] = Nil, sym_of' = [sym_of EXCEPT ![n] = s],
           SavedHeads' = [k \in DOMAIN SavedHeads |-> [SavedHeads[k] EXCEPT ![n] = s]]
    PROVE  Abs!Next
<1>1. Abs!DeclareGlobally(n, s)
  BY DEF Abs!DeclareGlobally, SavedHeads
<1> QED
  BY <1>1 DEF Abs!Next

LEMMA AbsOpen ==
    ASSUME sym_of' = sym_of, SavedHeads' = Append(SavedHeads, sym_of)
    PROVE  Abs!Next
<1>1. Abs!Open
  BY DEF Abs!Open, SavedHeads
<1> QED
  BY <1>1 DEF Abs!Next

LEMMA AbsClose ==
    ASSUME SavedHeads # <<>>, sym_of' = SavedHeads[Len(SavedHeads)],
           SavedHeads' = SubSeq(SavedHeads, 1, Len(SavedHeads) - 1)
    PROVE  Abs!Next
<1>1. Abs!Close
  BY DEF Abs!Close, SavedHeads
<1> QED
  BY <1>1 DEF Abs!Next

LEMMA AbsReset ==
    ASSUME sym_of' = [n \in Names |-> Nil], Bases' = <<>>
    PROVE  Abs!Next
<1>1. SavedHeads' = <<>>
  BY DEF SavedHeads
<1>2. Abs!Reset
  BY <1>1 DEF Abs!Reset, Abs!Empty, SavedHeads
<1> QED
  BY <1>2 DEF Abs!Next

(***************************************************************************)
(* Opening and closing.                                                    *)
(***************************************************************************)

\* A step that adds a base at the top of the local stack opens a scope.
LEMMA OpenStep ==
    ASSUME IndInv, IndInv', ~ dirty, ~ dirty', sym_of' = sym_of,
           Bases' = Append(Bases, Len(local_stack)), Keeps(Len(local_stack))
    PROVE  Abs!Next
<1>1. /\ Len(Bases) \in Nat /\ Len(Bases') = Len(Bases) + 1
      /\ \A k \in 1 .. Len(Bases) : Bases'[k] = Bases[k]
      /\ Bases'[Len(Bases) + 1] = Len(local_stack)
  BY BasesReached, AppendProperties
<1>2. /\ SavedHeads \in Seq([Names -> Pointer]) /\ Len(SavedHeads) = Len(Bases)
      /\ Len(SavedHeads') = Len(Bases')
      /\ SavedHeads' \in Seq([Names -> Pointer])
  <2>1. SavedHeads' \in Seq([Names -> Pointer]) /\ Len(SavedHeads') = Len(Bases')
    BY SavedIsListNext DEF SavedIsList
  <2> QED
    BY <2>1, SavedIsSeq
<1>3. ASSUME NEW k \in 1 .. Len(Bases)
      PROVE  SavedHeads'[k] = SavedHeads[k]
  <2>1. Bases[k] \in 0 .. Len(local_stack)
    BY BasesReached
  <2>2. Keeps(Bases[k])
    BY <2>1, StackEntries DEF Keeps, IndInv
  <2> QED
    BY <1>1, <2>2, SavedKept
<1>4. SavedHeads'[Len(Bases) + 1] = sym_of
  <2>1. TypeOK /\ Heads /\ Len(local_stack) \in 0 .. Len(local_stack)
    BY CleanIsTable, StackEntries DEF Table, IndInv
  <2>2. BelowIn(v', global_stack', local_stack', Len(local_stack)) = sym_of
    BY <2>1, BelowKept, BelowTop
  <2>3. Len(Bases) + 1 \in 1 .. Len(Bases')
    BY <1>1
  <2> QED
    BY <1>1, <2>2, <2>3 DEF SavedHeads, Below, BelowIn
<1>5. SavedHeads' = Append(SavedHeads, sym_of)
  BY <1>1, <1>2, <1>3, <1>4, OneMore
<1> QED
  BY <1>5, AbsOpen

\* A step that pops the local stack to the last base closes its scope.
LEMMA CloseStep ==
    ASSUME IndInv, IndInv', ~ dirty, ~ dirty', Bases # <<>>,
           Bases' = SubSeq(Bases, 1, Len(Bases) - 1),
           Keeps(Bases[Len(Bases)]), Len(local_stack') = Bases[Len(Bases)]
    PROVE  Abs!Next
<1> DEFINE m == Len(Bases)  b == Bases[m]
<1>1. /\ m \in Nat /\ m >= 1 /\ Bases \in Seq(Nat)
      /\ b \in 0 .. Len(local_stack)
      /\ \A k \in 1 .. m - 1 : Bases[k] <= b /\ Bases[k] \in Nat
  <2>1. m \in Nat /\ m >= 1 /\ Bases \in Seq(Nat)
    BY BasesReached
  <2>2. \A k \in 1 .. m : Bases[k] \in 0 .. Len(local_stack)
    BY BasesReached
  <2>3. \A k \in 1 .. m - 1 : Bases[k] <= b
    BY BasesGrow
  <2> QED
    BY <2>1, <2>2, <2>3
<1>2. /\ Len(Bases') = m - 1
      /\ \A k \in 1 .. m - 1 : Bases'[k] = Bases[k]
  <2> DEFINE c == m - 1
  <2>1. c \in Nat /\ c <= Len(Bases) /\ Bases' = SubSeq(Bases, 1, c)
    BY <1>1
  <2> HIDE DEF c, m, b
  <2>2. Len(Bases') = c /\ \A k \in 1 .. c : Bases'[k] = Bases[k]
    BY <1>1, <2>1, PrefixOf
  <2> QED
    BY <2>2 DEF c
<1>3. /\ SavedHeads \in Seq([Names -> Pointer]) /\ Len(SavedHeads) = m
      /\ SavedHeads' \in Seq([Names -> Pointer]) /\ Len(SavedHeads') = m - 1
  BY <1>2, SavedIsSeq, SavedIsListNext DEF SavedIsList
<1>4. ASSUME NEW k \in 1 .. m - 1
      PROVE  SavedHeads'[k] = SavedHeads[k]
  <2>1. k \in 1 .. m /\ k <= Len(Bases') /\ Bases'[k] = Bases[k]
    BY <1>1, <1>2
  <2>2. Keeps(Bases[k])
    BY <1>1 DEF Keeps
  <2> QED
    BY <2>1, <2>2, SavedKept
<1>5. sym_of' = SavedHeads[m]
  <2>1. TypeOK' /\ Heads'
    BY DEF IndInv, HeadsExact
  <2>2. BelowIn(v', global_stack', local_stack', b) = sym_of'
    BY <2>1, TopIsSeenNext DEF TopIsSeen
  <2>3. BelowIn(v', global_stack', local_stack', b) = Below(b)
    BY <1>1, BelowKept
  <2>4. SavedHeads[m] = Below(b)
    BY <1>1 DEF SavedHeads
  <2> QED
    BY <2>2, <2>3, <2>4
<1> HIDE DEF m, b
<1>6. SavedHeads' = SubSeq(SavedHeads, 1, Len(SavedHeads) - 1) /\ SavedHeads # <<>>
  BY <1>1, <1>3, <1>4, OneMore
<1> QED
  BY <1>3, <1>5, <1>6, AbsClose

(***************************************************************************)
(* Declarations.                                                           *)
(***************************************************************************)

\* A push on the local stack keeps all that was there.
LEMMA LocalPushKeeps ==
    ASSUME TypeOK, NEW s \in Slots \ Used, global_stack' = global_stack,
           local_stack' = Append(local_stack, s),
           \A t \in Slots : t # s => v'[t] = v[t]
    PROVE  Keeps(Len(local_stack))
<1>1. \A i \in 1 .. Len(local_stack) : local_stack'[i] = local_stack[i]
  BY AppendSlot DEF TypeOK
<1>2. /\ \A i \in 1 .. Len(local_stack) : v'[local_stack[i]] = v[local_stack[i]]
      /\ \A i \in 1 .. Len(global_stack) : v'[global_stack[i]] = v[global_stack[i]]
  BY FreeIsNotStacked, StackEntries
<1> QED
  BY <1>1, <1>2 DEF Keeps

\* The new global symbol is what every open scope sees under its name, because
\* the name was visible nowhere, and nothing else changes.
LEMMA GloballySeen ==
    ASSUME TypeOK, Table, NEW n \in Names, NEW s \in Slots \ Used,
           PushUnderLocals(s, n), NEW b \in 0 .. Len(local_stack)
    PROVE  BelowIn(v', global_stack', local_stack', b) = [Below(b) EXCEPT ![n] = s]
<1> DEFINE L == local_stack  G == global_stack  g == Len(global_stack)
<1>1. /\ g \in Nat /\ g' = g + 1 /\ L' = L /\ Len(L) \in Nat /\ b \in Nat
      /\ \A i \in 1 .. g : G'[i] = G[i]
      /\ G'[g + 1] = s
  BY AppendSlot DEF TypeOK, PushUnderLocals
<1>2. v'[s] = n /\ \A t \in Slots : t # s => v'[t] = v[t]
  BY DEF TypeOK, PushUnderLocals
<1>3. /\ \A i \in 1 .. g : v'[G[i]] = v[G[i]]
      /\ \A i \in 1 .. Len(L) : v'[L[i]] = v[L[i]]
  BY <1>2, FreeIsNotStacked, StackEntries
<1>4. \A i \in 1 .. b : i \in 1 .. Len(L) /\ L'[i] = L[i] /\ v'[L[i]] = v[L[i]]
  BY <1>1, <1>3
<1>5. \A i \in 1 .. Len(L) : v[L[i]] # n
  <2>1. Visible(n, Nil)
    BY DEF PushUnderLocals, Table, Heads
  <2> QED
    BY <2>1, FoundNil DEF Absent
<1>6. s \in Slots /\ s \in Pointer /\ Len(G') = g + 1 /\ Len(G) = g /\ Len(G') \in Nat
  BY <1>1 DEF Pointer
<1>7. BelowIn(v', G', L', b)[n] = s
  <2>1. Absent(v', L', b, n)
    BY <1>4, <1>5 DEF Absent
  <2> HIDE DEF L, G, g
  <2>2. Newest(v', G', g + 1, n, s)
    BY <1>1, <1>2, NewestIsLast
  <2>3. Found(v', G', L', b, n, s)
    BY <1>6, <2>1, <2>2 DEF Found, NewestOrNil
  <2> QED
    BY <1>1, <1>6, <2>3, BelowIs
<1>8. ASSUME NEW m \in Names, m # n
      PROVE  BelowIn(v', G', L', b)[m] = BelowIn(v, G, L, b)[m]
  <2>1. PICK x \in Pointer : Found(v, G, L, b, m, x)
    BY FoundExists
  <2> HIDE DEF L, G, g
  <2>2. /\ Newest(v, L, b, m, x) => Newest(v', L', b, m, x)
        /\ Absent(v, L, b, m) => Absent(v', L', b, m)
    BY <1>1, <1>4, NewestSame
  <2>3. /\ Newest(v, G, g, m, x) => Newest(v', G', g, m, x)
        /\ Absent(v, G, g, m) => Absent(v', G', g, m)
    BY <1>1, <1>3, NewestSame
  <2>4. v'[G'[g + 1]] # m
    BY <1>1, <1>2, <1>8
  <2>5. /\ Newest(v', G', g, m, x) => Newest(v', G', g + 1, m, x)
        /\ Absent(v', G', g, m) => Absent(v', G', g + 1, m)
    BY <1>1, <2>4, NewestSkip
  <2>6. Found(v', G', L', b, m, x)
    BY <1>6, <2>1, <2>2, <2>3, <2>5 DEF Found, NewestOrNil
  <2> QED
    BY <1>1, <1>6, <2>1, <2>6, BelowIs
<1>9. Below(b) = BelowIn(v, G, L, b)
  BY DEF Below, BelowIn
<1> DEFINE B == BelowIn(v, G, L, b)  C == BelowIn(v', G', L', b)
<1>10. B = [m \in Names |-> B[m]] /\ C = [m \in Names |-> C[m]]
  BY DEF BelowIn
<1>11. C[n] = s /\ \A m \in Names : m # n => C[m] = B[m]
  BY <1>7, <1>8
<1>12. Below(b) = B
  BY <1>9
<1> HIDE DEF B, C
<1>13. C = [Below(b) EXCEPT ![n] = s]
  BY <1>10, <1>11, <1>12
<1> QED
  BY <1>13 DEF C

LEMMA GlobalStep ==
    ASSUME IndInv, ~ dirty, Bases' = Bases,
           NEW n \in Names, NEW s \in Slots \ Used, PushUnderLocals(s, n)
    PROVE  Abs!Next
<1>1. TypeOK /\ Table
  BY CleanIsTable DEF IndInv
<1>2. ASSUME NEW k \in 1 .. Len(Bases)
      PROVE  SavedHeads'[k] = [SavedHeads[k] EXCEPT ![n] = s]
  <2>1. Bases[k] \in 0 .. Len(local_stack)
    BY BasesReached
  <2>2. BelowIn(v', global_stack', local_stack', Bases[k])
          = [Below(Bases[k]) EXCEPT ![n] = s]
    BY <1>1, <2>1, GloballySeen
  <2>3. /\ SavedHeads'[k] = BelowIn(v', global_stack', local_stack', Bases[k])
        /\ SavedHeads[k] = Below(Bases[k])
    BY DEF SavedHeads, Below, BelowIn
  <2> QED
    BY <2>2, <2>3
<1>3. SavedHeads' = [k \in DOMAIN SavedHeads |-> [SavedHeads[k] EXCEPT ![n] = s]]
  BY <1>2 DEF SavedHeads
<1>4. sym_of[n] = Nil /\ sym_of' = [sym_of EXCEPT ![n] = s] /\ s \in Slots
  BY DEF PushUnderLocals
<1> QED
  BY <1>3, <1>4, AbsDeclareGlobally

LEMMA DeclareStep ==
    ASSUME IndInv, IndInv', DummyStays, ~ dirty, ~ dirty', NEW n \in Names, Declare(n)
    PROVE  Abs!Next
<1>1. PICK s \in Slots \ Used : IF local_stack # <<>>
                                THEN ~ Redeclared(n) /\ PushLocal(s, n)
                                ELSE PushGlobal(s, n)
  BY DEF Declare
<1>2. Bases' = Bases
  BY DEF Declare, Bases
<1>3. CASE local_stack # <<>>
  <2>1. PushLocal(s, n) /\ TypeOK /\ s \in Slots
    BY <1>1, <1>3 DEF IndInv
  <2>2. Keeps(Len(local_stack))
    BY <2>1, LocalPushKeeps DEF PushLocal, TypeOK
  <2>3. SavedHeads' = SavedHeads
    BY <1>2, <2>2, SavedUnchanged
  <2> QED
    BY <2>1, <2>3, AbsDeclare DEF PushLocal
<1>4. CASE local_stack = <<>>
  <2>1. PushGlobal(s, n) /\ s \in Slots /\ Len(local_stack) = 0
    BY <1>1, <1>4
  <2>2. blocks = <<>>
    <3>1. ASSUME blocks # <<>>
          PROVE  FALSE
      <4>1. blocks[Len(blocks)] \in Nat /\ blocks[Len(blocks)] < Len(local_stack)
        BY <3>1, InnermostMarker DEF IndInv
      <4> QED
        BY <2>1, <4>1
    <3> QED
      BY <3>1
  <2>3. Bases = <<>>
    BY <1>4, <2>2 DEF DummyStays, Bases
  <2>4. SavedHeads' = SavedHeads
    BY <1>2, <2>3 DEF SavedHeads
  <2> QED
    BY <2>1, <2>4, AbsDeclare DEF PushGlobal
<1> QED
  BY <1>3, <1>4

(***************************************************************************)
(* Scopes.                                                                 *)
(***************************************************************************)

LEMMA BeginFunctionStep ==
    ASSUME IndInv, IndInv', ~ dirty, ~ dirty', BeginFunction
    PROVE  Abs!Next
<1>1. PICK s \in Slots \ Used : PushMarker(s, Nil)
  BY DEF BeginFunction
<1>2. fn = "entered" /\ blocks = <<>> /\ local_stack = <<>>
  BY DEF BeginFunction, IndInv, ControlOK
<1>3. Bases = <<>> /\ Bases' = <<0>> /\ Len(local_stack) = 0
  BY <1>2 DEF BeginFunction, Bases
<1>4. Bases' = Append(Bases, Len(local_stack))
  BY <1>3
<1>5. Keeps(Len(local_stack))
  BY <1>1, LocalPushKeeps DEF PushMarker, IndInv, TypeOK
<1> QED
  BY <1>1, <1>4, <1>5, OpenStep DEF PushMarker

LEMMA EnterBlockStep ==
    ASSUME IndInv, IndInv', ~ dirty, ~ dirty', EnterBlock
    PROVE  Abs!Next
<1>1. PICK s \in Slots \ Used : PushMarker(s, scope_stack_bottom)
  BY DEF EnterBlock
<1>2. Bases' = Append(Bases, Len(local_stack))
  <2>1. blocks' = Append(blocks, Len(local_stack)) /\ blocks \in Seq(Nat)
        /\ Len(local_stack) \in Nat
    BY StackEntries DEF EnterBlock, IndInv, TypeOK
  <2>2. (fn' \in {"params", "body"}) <=> (fn \in {"params", "body"})
    BY DEF EnterBlock
  <2>3. CASE fn \in {"params", "body"}
    <3>1. Bases = <<0>> \o blocks /\ Bases' = <<0>> \o Append(blocks, Len(local_stack))
      BY <2>1, <2>2, <2>3 DEF Bases
    <3> QED
      BY <2>1, <3>1
  <2>4. CASE fn \notin {"params", "body"}
    <3>1. Bases = blocks /\ Bases' = Append(blocks, Len(local_stack))
      BY <2>1, <2>2, <2>4 DEF Bases
    <3> QED
      BY <3>1
  <2> QED
    BY <2>3, <2>4
<1>3. Keeps(Len(local_stack))
  BY <1>1, LocalPushKeeps DEF PushMarker, IndInv, TypeOK
<1> QED
  BY <1>1, <1>2, <1>3, OpenStep DEF PushMarker

\* A pop keeps what is below it.
LEMMA PopKeeps ==
    ASSUME IndInv, NEW b \in 0 .. Len(local_stack), PopLocal(b)
    PROVE  Keeps(b) /\ Len(local_stack') = b
<1>1. TypeOK /\ StacksOK /\ b \in Nat /\ b <= Len(local_stack)
  BY StackEntries DEF IndInv
<1> QED
  BY <1>1, PopLocalKeeps DEF Keeps

LEMMA LeaveBlockStep ==
    ASSUME IndInv, IndInv', ~ dirty, ~ dirty', LeaveBlock
    PROVE  Abs!Next
<1> DEFINE b == blocks[Len(blocks)]
<1>1. /\ blocks # <<>> /\ blocks \in Seq(Nat) /\ Len(blocks) \in 1 .. Len(blocks)
      /\ b \in 0 .. Len(local_stack)
  <2>1. TypeOK /\ BlocksOK /\ blocks # <<>> /\ Len(local_stack) \in Nat
    BY StackEntries DEF LeaveBlock, IndInv
  <2>2. b \in Nat /\ b < Len(local_stack) /\ Len(blocks) \in 1 .. Len(blocks)
    BY <2>1, InnermostMarker
  <2> QED
    BY <2>1, <2>2 DEF TypeOK
<1>2. Keeps(b) /\ Len(local_stack') = b
  BY <1>1, PopKeeps DEF LeaveBlock
<1>3. /\ Bases # <<>> /\ Bases[Len(Bases)] = b
      /\ Bases' = SubSeq(Bases, 1, Len(Bases) - 1)
  <2>1. blocks' = SubSeq(blocks, 1, Len(blocks) - 1) /\ fn' = fn
    BY DEF LeaveBlock
  <2>2. CASE fn \in {"params", "body"}
    <3>1. Bases = <<0>> \o blocks /\ Bases' = <<0>> \o SubSeq(blocks, 1, Len(blocks) - 1)
      BY <2>1, <2>2 DEF Bases
    <3> HIDE DEF b
    <3> QED
      BY <1>1, <3>1, AllButLast DEF b
  <2>3. CASE fn \notin {"params", "body"}
    <3>1. Bases = blocks /\ Bases' = SubSeq(blocks, 1, Len(blocks) - 1)
      BY <2>1, <2>3 DEF Bases
    <3> QED
      BY <1>1, <3>1
  <2> QED
    BY <2>2, <2>3
<1> HIDE DEF b
<1> QED
  BY <1>2, <1>3, CloseStep

LEMMA EndFunctionStep ==
    ASSUME IndInv, IndInv', ~ dirty, ~ dirty', EndFunction
    PROVE  Abs!Next
<1>1. Bases = <<0>> /\ Bases' = <<>>
  BY DEF EndFunction, Bases
<1>2. Bases # <<>> /\ Bases[Len(Bases)] = 0 /\ Bases' = SubSeq(Bases, 1, Len(Bases) - 1)
  BY <1>1
<1>3. 0 \in 0 .. Len(local_stack)
  BY StackEntries DEF IndInv
<1>4. Keeps(0) /\ Len(local_stack') = 0
  BY <1>3, PopKeeps DEF EndFunction
<1> QED
  BY <1>2, <1>4, CloseStep

(***************************************************************************)
(* The units, and the errors between them.                                 *)
(***************************************************************************)

LEMMA RaiseErrorStep ==
    ASSUME IndInv, ~ dirty, ~ dirty', RaiseError
    PROVE  Abs!Next \/ UNCHANGED Abs!vars
<1>1. /\ local_stack = <<>> /\ Len(local_stack) = 0
      /\ sym_of' = sym_of /\ blocks' = <<>> /\ fn' = "no"
  BY DEF RaiseError
<1>2. blocks = <<>>
  <2>1. ASSUME blocks # <<>>
        PROVE  FALSE
    <3>1. blocks[Len(blocks)] \in Nat /\ blocks[Len(blocks)] < Len(local_stack)
      BY <2>1, InnermostMarker DEF IndInv
    <3> QED
      BY <1>1, <3>1
  <2> QED
    BY <2>1
<1>3. Bases' = <<>> /\ SavedHeads' = <<>>
  BY <1>1 DEF Bases, SavedHeads
<1>4. CASE Bases = <<>>
  <2>1. SavedHeads' = SavedHeads
    BY <1>3, <1>4 DEF SavedHeads
  <2> QED
    BY <1>1, <2>1, AbsStutter
<1>5. CASE Bases # <<>>
  <2>1. Bases = <<0>>
    BY <1>2, <1>5 DEF Bases
  <2>2. SavedHeads = [k \in 1 .. 1 |-> Below(0)]
    BY <2>1 DEF SavedHeads
  <2>3. Below(0) = sym_of
    <3>1. TypeOK /\ Heads
      BY DEF IndInv, HeadsExact
    <3>2. Below(Len(local_stack)) = sym_of
      BY <3>1, BelowTop
    <3> QED
      BY <1>1, <3>2
  <2>4. SavedHeads = <<sym_of>>
    BY <2>2, <2>3
  <2> QED
    BY <1>1, <1>3, <2>4, AbsClose
<1> QED
  BY <1>4, <1>5

\* No declaration is visible once both stacks are empty.
LEMMA NothingFound ==
    ASSUME TypeOK', Heads', global_stack' = <<>>, local_stack' = <<>>
    PROVE  sym_of' = [n \in Names |-> Nil]
<1>1. Len(global_stack') = 0 /\ Len(local_stack') = 0
  OBVIOUS
<1>2. ASSUME NEW n \in Names
      PROVE  sym_of'[n] = Nil
  <2>1. Found(v', global_stack', local_stack', 0, n, sym_of'[n])
    BY <1>1 DEF Heads, Visible
  <2> QED
    BY <1>1, <2>1 DEF Found, NewestOrNil, Newest
<1> QED
  BY <1>2 DEF TypeOK

LEMMA FinishUnitStep ==
    ASSUME IndInv, IndInv', ~ dirty, ~ dirty', FinishUnit
    PROVE  Abs!Next
<1>1. blocks = <<>> /\ fn = "no"
  BY DEF FinishUnit, IndInv, ControlOK
<1>2. Bases' = <<>>
  BY <1>1 DEF FinishUnit, Bases
<1>3. sym_of' = [n \in Names |-> Nil]
  BY NothingFound DEF FinishUnit, IndInv, HeadsExact
<1> QED
  BY <1>2, <1>3, AbsReset

LEMMA RecreateStep ==
    ASSUME IndInv, Recreate
    PROVE  Abs!Next
<1>1. blocks = <<>> /\ fn = "no"
  BY DEF Recreate, IndInv, ControlOK
<1>2. Bases' = <<>>
  BY <1>1 DEF Recreate, Bases
<1> QED
  BY <1>2, AbsReset DEF Recreate

(***************************************************************************)
(* The refinement.                                                         *)
(***************************************************************************)

\* The steps that touch neither symbols nor scopes.
LEMMA QuietMapped ==
    ASSUME IndInv, IndInv', ~ dirty, ~ dirty',
           UNCHANGED <<v, sym_of, global_stack, local_stack>>, Bases' = Bases
    PROVE  UNCHANGED Abs!vars
<1>1. SavedHeads' = SavedHeads
  BY DEF SavedHeads, Below
<1> QED
  BY <1>1, AbsStutter

LEMMA StepMaps ==
    ASSUME IndInv, IndInv', DummyStays, [Next]_vars, ~ dirty'
    PROVE  Abs!Next \/ UNCHANGED Abs!vars
<1>1. CASE Recreate
  BY <1>1, RecreateStep
<1>2. CASE RaiseError
  <2>1. ~ dirty
    BY <1>2 DEF RaiseError, IndInv, TypeOK
  <2> QED
    BY <1>2, <2>1, RaiseErrorStep
<1>3. CASE FinishUnit
  BY <1>3, FinishUnitStep DEF FinishUnit
<1>4. CASE StartUnit \/ EndOfFile \/ Exited \/ UNCHANGED vars
  <2>1. /\ UNCHANGED <<v, sym_of, global_stack, local_stack>> /\ Bases' = Bases
        /\ ~ dirty
    BY <1>4 DEF StartUnit, EndOfFile, Exited, vars, Bases
  <2> QED
    BY <2>1, QuietMapped
<1>5. CASE GenInline
  <2>1. /\ UNCHANGED <<v, sym_of, global_stack, local_stack>> /\ Bases' = Bases
        /\ ~ dirty
    BY <1>5 DEF GenInline, Bases
  <2> QED
    BY <2>1, QuietMapped
<1>6. ASSUME NEW n \in Names, Declare(n)
      PROVE  Abs!Next
  <2>1. ~ dirty
    BY <1>6 DEF Declare
  <2> QED
    BY <1>6, <2>1, DeclareStep
<1>7. ASSUME NEW n \in Names, DeclareImplicitly(n)
      PROVE  Abs!Next
  <2>1. PICK s \in Slots \ Used : PushUnderLocals(s, n)
    BY <1>7 DEF DeclareImplicitly
  <2>2. Bases' = Bases /\ ~ dirty
    BY <1>7 DEF DeclareImplicitly, Bases
  <2> QED
    BY <2>1, <2>2, GlobalStep
<1>8. ASSUME NEW n \in Names, DefineFunction(n)
      PROVE  Abs!Next \/ UNCHANGED Abs!vars
  <2>1. Bases' = Bases /\ ~ dirty
    BY <1>8 DEF DefineFunction, AtFileScope, Bases
  <2>2. CASE UNCHANGED <<v, prev_tok, next, sym_of, global_stack, local_stack>>
    BY <2>1, <2>2, QuietMapped
  <2>3. CASE \E s \in Slots \ Used : PushUnderLocals(s, n)
    BY <2>1, <2>3, GlobalStep
  <2> QED
    BY <1>8, <2>2, <2>3 DEF DefineFunction
<1>9. CASE BeginFunction
  <2>1. ~ dirty
    BY <1>9 DEF BeginFunction
  <2> QED
    BY <1>9, <2>1, BeginFunctionStep
<1>10. CASE EnterBlock
  <2>1. ~ dirty
    BY <1>10 DEF EnterBlock
  <2> QED
    BY <1>10, <2>1, EnterBlockStep
<1>11. CASE LeaveBlock
  <2>1. ~ dirty
    BY <1>11 DEF LeaveBlock
  <2> QED
    BY <1>11, <2>1, LeaveBlockStep
<1>12. CASE EndFunction
  <2>1. ~ dirty
    BY <1>12 DEF EndFunction
  <2> QED
    BY <1>12, <2>1, EndFunctionStep
<1> QED
  BY <1>1, <1>2, <1>3, <1>4, <1>5, <1>6, <1>7, <1>8, <1>9, <1>10, <1>11, <1>12
     DEF Next

\* Nothing is visible and no scope is open after tcc_new.
LEMMA InitMaps == Init => Abs!Init
<1> SUFFICES ASSUME Init
             PROVE  Abs!Init
  OBVIOUS
<1>1. Bases = <<>>
  BY DEF Init, Bases
<1>2. sym_of = [n \in Names |-> Nil]
  BY DEF Init
<1> QED
  BY <1>1, <1>2 DEF Abs!Init, Abs!Empty

\* Stacks, chains and heads implement the abstract table, for any number of
\* names, symbols and nested blocks: '}' and the end of a function give back
\* what was visible at '{', implicit global declarations included, and the end
\* of a unit forgets all, as long as no error strikes inside a scope.
THEOREM Refinement == Spec => Abs!Init /\ ImplementsScopes
<1>1. Init => DummyStays
  BY DEF Init, DummyStays
<1>2. IndInv /\ DummyStays /\ [Next]_vars => DummyStays'
  BY DummyNext
<1>3. IndInv /\ IndInv' /\ DummyStays /\ [Next]_vars
        => [~ dirty' => Abs!Next \/ UNCHANGED Abs!vars]_vars
  BY StepMaps
<1> QED
  BY <1>1, <1>2, <1>3, InitMaps, Invariant, PTL DEF Spec, ImplementsScopes
=============================================================================
