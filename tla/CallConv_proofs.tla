-------------------------- MODULE CallConv_proofs --------------------------
(***************************************************************************)
(* Proofs about CallConv: every parameter and every va_arg has the words   *)
(* of its argument.                                                        *)
(*                                                                         *)
(* The two sides of a call never meet but in the registers and on the      *)
(* stack.  The proof has a third count, the Plan of a call: for each       *)
(* argument, what it and those before it need.  The invariant says of the  *)
(* caller, which goes from the last argument to the first, and of the      *)
(* callee, which goes from the first to the last, that each is at some     *)
(* argument and has counted what the plan says there.                      *)
(***************************************************************************)
EXTENDS CallConv, SequenceTheorems, WellFoundedInduction, TLAPS

-----------------------------------------------------------------------------
(* Functions that are defined by recursion                                 *)

LEMMA NoLeast ==
    ASSUME NEW A \in SUBSET Nat, \A n \in A : \E m \in A : m < n
    PROVE  A = {}
<1> SUFFICES ASSUME A # {} PROVE FALSE
  OBVIOUS
<1>1. PICK n \in A : \A m \in A : ~ (<<m, n>> \in OpToRel(<, Nat))
  BY NatLessThanWellFounded, WFMin
<1>2. PICK m \in A : m < n
  OBVIOUS
<1>3. <<m, n>> \in OpToRel(<, Nat)
  BY <1>2 DEF OpToRel
<1> QED
  BY <1>1, <1>3

\* A property that every step keeps.
LEMMA FoldKeeps ==
    ASSUME NEW S, NEW n \in Nat, NEW F,
           F[0] \in S, \A k \in 1 .. n : F[k - 1] \in S => F[k] \in S
    PROVE  \A k \in 0 .. n : F[k] \in S
<1> DEFINE A == {k \in 0 .. n : F[k] \notin S}
<1>1. A \in SUBSET Nat /\ \A k : k \in A <=> k \in 0 .. n /\ F[k] \notin S
  OBVIOUS
<1> HIDE DEF A
<1>2. ASSUME NEW k \in A PROVE \E j \in A : j < k
  <2>1. k \in 1 .. n /\ F[k] \notin S
    BY <1>1
  <2>2. k - 1 \in 0 .. n /\ k - 1 < k
    BY <2>1
  <2> QED
    BY <1>1, <2>1, <2>2
<1>3. A = {}
  BY <1>1, <1>2, NoLeast
<1> QED
  BY <1>1, <1>3

\* F is made by g, value by value.
MadeBy(F, S, b, n, g) == F \in [0 .. n -> S] /\ F[0] = b /\ \A k \in 1 .. n : F[k] = g[k][F[k - 1]]

\* A function that is defined by recursion exists when each of its values is
\* made from the one before it, inside of a set.
LEMMA FoldExists ==
    ASSUME NEW S, NEW b \in S, NEW n \in Nat, NEW g \in [1 .. n -> [S -> S]]
    PROVE  \E F : MadeBy(F, S, b, n, g)
<1> DEFINE Is(F, m) == F \in [0 .. m -> S] /\ F[0] = b /\ \A k \in 1 .. m : F[k] = g[k][F[k - 1]]
           A == {m \in 0 .. n : ~ \E F : Is(F, m)}
<1>1. A \in SUBSET Nat /\ \A m : m \in A <=> m \in 0 .. n /\ ~ \E F : Is(F, m)
  OBVIOUS
<1>2. \E F : Is(F, 0)
  <2>1. PICK F : F = [k \in 0 .. 0 |-> b]
    OBVIOUS
  <2> QED
    BY <2>1
<1>3. ASSUME NEW m \in 0 .. n, m + 1 <= n, NEW F, Is(F, m)
      PROVE  \E G : Is(G, m + 1)
  <2>1. PICK G : G = [k \in 0 .. m + 1 |-> IF k = m + 1 THEN g[m + 1][F[m]] ELSE F[k]]
    OBVIOUS
  <2>2. m + 1 \in 1 .. n /\ F[m] \in S
    BY <1>3
  <2>3. g[m + 1][F[m]] \in S
    BY <2>2
  <2>4. \A k \in 0 .. m : G[k] = F[k] /\ G[k] \in S
    BY <1>3, <2>1
  <2>5. G[m + 1] = g[m + 1][F[m]]
    BY <2>1
  <2>6. G \in [0 .. m + 1 -> S]
    BY <2>1, <2>3, <1>3
  <2>7. ASSUME NEW k \in 1 .. m + 1 PROVE G[k] = g[k][G[k - 1]]
    <3>1. CASE k = m + 1
      BY <2>4, <2>5, <3>1
    <3>2. CASE k \in 1 .. m
      <4>1. k - 1 \in 0 .. m /\ k \in 0 .. m
        BY <3>2
      <4> QED
        BY <1>3, <2>4, <3>2, <4>1
    <3> QED
      BY <3>1, <3>2
  <2>8. G[0] = b
    BY <1>3, <2>4
  <2> QED
    BY <2>6, <2>7, <2>8
<1> HIDE DEF A, Is
<1>4. ASSUME NEW m \in A PROVE \E l \in A : l < m
  <2>1. m \in 1 .. n /\ ~ \E F : Is(F, m)
    BY <1>1, <1>2
  <2>2. PICK l \in 0 .. n : l + 1 = m /\ l + 1 <= n
    BY <2>1
  <2>3. ~ \E F : Is(F, l)
    BY <1>3, <2>1, <2>2
  <2> QED
    BY <1>1, <2>2, <2>3
<1>5. A = {}
  BY <1>1, <1>4, NoLeast
<1>6. n \in 0 .. n
  OBVIOUS
<1>7. \E F : Is(F, n)
  BY <1>1, <1>5, <1>6
<1> QED
  BY <1>7 DEF Is, MadeBy

LEMMA TotalIs ==
    ASSUME NEW w, NEW n \in Nat, n = Len(w), NEW f, f[0] = 0,
           \A k \in 1 .. n : f[k] = f[k - 1] + w[k]
    PROVE  Total(w) = f[n]
<1> DEFINE Is(T) == T = [k \in 0 .. n |-> IF k = 0 THEN 0 ELSE T[k - 1] + w[k]]
<1>1. PICK h : h = [k \in 0 .. n |-> f[k]]
  OBVIOUS
<1>2. ASSUME NEW k \in 0 .. n PROVE h[k] = IF k = 0 THEN 0 ELSE h[k - 1] + w[k]
  <2>1. CASE k = 0
    BY <1>1, <2>1
  <2>2. CASE k # 0
    <3>1. k \in 1 .. n /\ k - 1 \in 0 .. n
      BY <2>2
    <3> QED
      BY <1>1, <2>2, <3>1
  <2> QED
    BY <2>1, <2>2
<1>3. Is(h)
  <2>1. h = [k \in 0 .. n |-> h[k]]
    BY <1>1
  <2> QED
    BY <1>2, <2>1
<1>4. PICK T : T = CHOOSE U : Is(U)
  OBVIOUS
<1>5. Is(T)
  BY <1>3, <1>4
<1>6. Total(w) = T[n]
  BY <1>4 DEF Total
<1>7. \A k \in 0 .. n : T[k] = f[k]
  <2>1. PICK S : S = {1}
    OBVIOUS
  <2>2. PICK F : F = [k \in 0 .. n |-> IF T[k] = f[k] THEN 1 ELSE 0]
    OBVIOUS
  <2>3. \A k \in 0 .. n : F[k] \in S <=> T[k] = f[k]
    BY <2>1, <2>2
  <2>4. F[0] \in S
    BY <1>5, <2>3
  <2>5. ASSUME NEW k \in 1 .. n, F[k - 1] \in S PROVE F[k] \in S
    <3>1. k - 1 \in 0 .. n /\ k \in 0 .. n
      OBVIOUS
    <3>2. T[k - 1] = f[k - 1]
      BY <2>3, <2>5, <3>1
    <3>3. T[k] = T[k - 1] + w[k]
      BY <1>5, <3>1
    <3> QED
      BY <2>3, <3>1, <3>2, <3>3
  <2>6. \A k \in 0 .. n : F[k] \in S
    BY <2>4, <2>5, FoldKeeps
  <2> QED
    BY <2>3, <2>6
<1> QED
  BY <1>6, <1>7

-----------------------------------------------------------------------------
(* Types                                                                   *)

LEMMA UpToIs ==
    ASSUME NEW n \in Nat
    PROVE  /\ UpTo(n, 1) = n
           /\ UpTo(n, 2) = (IF n % 2 = 1 THEN n + 1 ELSE n) /\ UpTo(n, 2) % 2 = 0
           /\ \A a \in {1, 2} : UpTo(n, a) \in Nat /\ UpTo(n, a) >= n
<1>1. UpTo(n, 1) = n
  BY DEF UpTo
<1>2. PICK q \in Nat : n = 2 * q \/ n = 2 * q + 1
  <2>1. n = 2 * (n \div 2) \/ n = 2 * (n \div 2) + 1
    OBVIOUS
  <2>2. n \div 2 \in Nat
    OBVIOUS
  <2> QED
    BY <2>1, <2>2
<1>3. CASE n = 2 * q
  <2>1. (n + 1) \div 2 = q
    BY <1>2, <1>3
  <2>2. n % 2 = 0
    BY <1>2, <1>3
  <2>3. UpTo(n, 2) = n
    BY <2>1, <1>3 DEF UpTo
  <2>4. n % 2 = 0 /\ UpTo(n, 2) % 2 = 0
    BY <2>2, <2>3
  <2>5. UpTo(n, 2) = IF n % 2 = 1 THEN n + 1 ELSE n
    BY <2>3, <2>4
  <2>6. \A a \in {1, 2} : UpTo(n, a) \in Nat /\ UpTo(n, a) >= n
    BY <1>1, <2>3
  <2> QED
    BY <1>1, <2>4, <2>5, <2>6
<1>4. CASE n = 2 * q + 1
  <2>1. (n + 1) \div 2 = q + 1
    BY <1>2, <1>4
  <2>2. n % 2 = 1 /\ (n + 1) % 2 = 0
    BY <1>2, <1>4
  <2>3. UpTo(n, 2) = n + 1
    BY <2>1, <1>4 DEF UpTo
  <2>4. UpTo(n, 2) % 2 = 0
    BY <2>2, <2>3
  <2>5. UpTo(n, 2) = IF n % 2 = 1 THEN n + 1 ELSE n
    BY <2>2, <2>3
  <2>6. \A a \in {1, 2} : UpTo(n, a) \in Nat /\ UpTo(n, a) >= n
    BY <1>1, <2>3
  <2> QED
    BY <1>1, <2>4, <2>5, <2>6
<1> QED
  BY <1>2, <1>3, <1>4

Ends(ms) ==
    LET End[k \in 0 .. Len(ms)] ==
            IF k = 0 THEN 0 ELSE UpTo(End[k - 1], ScalarSize(ms[k])) + ScalarSize(ms[k])
    IN  End

LEMMA EndsAre ==
    ASSUME NEW ms \in Seq(Modes)
    PROVE  /\ Ends(ms) \in [0 .. Len(ms) -> Nat] /\ Ends(ms)[0] = 0
           /\ \A k \in 1 .. Len(ms) :
                 Ends(ms)[k] = UpTo(Ends(ms)[k - 1], ScalarSize(ms[k])) + ScalarSize(ms[k])
<1> DEFINE Is(U) == U = [k \in 0 .. Len(ms) |->
                            IF k = 0 THEN 0 ELSE UpTo(U[k - 1], ScalarSize(ms[k])) + ScalarSize(ms[k])]
<1>1. PICK n \in Nat : n = Len(ms)
  OBVIOUS
<1>2. \A k \in 1 .. n : ScalarSize(ms[k]) \in {1, 2}
  BY <1>1 DEF ScalarSize
<1>3. PICK g : g = [k \in 1 .. n |-> [x \in Nat |-> UpTo(x, ScalarSize(ms[k])) + ScalarSize(ms[k])]]
  OBVIOUS
<1>4. ASSUME NEW k \in 1 .. n, NEW x \in Nat
      PROVE  UpTo(x, ScalarSize(ms[k])) + ScalarSize(ms[k]) \in Nat
  <2>1. PICK a \in {1, 2} : a = ScalarSize(ms[k])
    BY <1>2
  <2>2. UpTo(x, a) \in Nat
    BY UpToIs
  <2> QED
    BY <2>1, <2>2
<1>5. g \in [1 .. n -> [Nat -> Nat]]
  BY <1>3, <1>4
<1>6. PICK F : MadeBy(F, Nat, 0, n, g)
  BY <1>5, FoldExists
<1>7. F \in [0 .. n -> Nat] /\ F[0] = 0 /\ \A k \in 1 .. n : F[k] = g[k][F[k - 1]]
  BY <1>6 DEF MadeBy
<1>8. ASSUME NEW k \in 0 .. n, k # 0
      PROVE  F[k] = UpTo(F[k - 1], ScalarSize(ms[k])) + ScalarSize(ms[k])
  <2>1. k \in 1 .. n /\ k - 1 \in 0 .. n
    BY <1>8
  <2>2. F[k - 1] \in Nat
    BY <1>7, <2>1
  <2> QED
    BY <1>3, <1>7, <2>1, <2>2
<1>9. Is(F)
  <2>1. F = [k \in 0 .. n |-> F[k]]
    BY <1>7
  <2>2. \A k \in 0 .. n : F[k] = IF k = 0 THEN 0 ELSE UpTo(F[k - 1], ScalarSize(ms[k])) + ScalarSize(ms[k])
    BY <1>7, <1>8
  <2> QED
    BY <2>1, <2>2, <1>1
<1>10. PICK T : T = CHOOSE U : Is(U)
  OBVIOUS
<1>11. Is(T)
  BY <1>9, <1>10
<1>12. Ends(ms) = T
  BY <1>10 DEF Ends
<1>13. T[0] = 0
  BY <1>11, <1>1
<1>14. \A k \in 1 .. n : T[k] = UpTo(T[k - 1], ScalarSize(ms[k])) + ScalarSize(ms[k])
  BY <1>11, <1>1
<1>15. ASSUME NEW k \in 1 .. n, T[k - 1] \in Nat PROVE T[k] \in Nat
  BY <1>14, <1>4, <1>15
<1>16. \A k \in 0 .. n : T[k] \in Nat
  <2> HIDE DEF Is
  <2>1. \A k \in 1 .. n : T[k - 1] \in Nat => T[k] \in Nat
    BY <1>15
  <2>2. T[0] \in Nat
    BY <1>13
  <2> QED
    BY <2>1, <2>2, FoldKeeps
<1>17. T \in [0 .. n -> Nat]
  <2>1. T = [k \in 0 .. n |-> T[k]]
    <3> HIDE DEF Is
    <3>1. T = [k \in 0 .. n |-> IF k = 0 THEN 0 ELSE UpTo(T[k - 1], ScalarSize(ms[k])) + ScalarSize(ms[k])]
      BY <1>11, <1>1 DEF Is
    <3> QED
      BY <3>1
  <2> QED
    BY <1>16, <2>1
<1> QED
  BY <1>1, <1>12, <1>13, <1>14, <1>17

ModeSet == {"integer", "sse", "x87", "memory"}

Classes(ms) ==
    LET C[k \in 0 .. Len(ms)] ==
            IF k = 0 THEN "sse" ELSE classify_x86_64_merge(C[k - 1], ms[k])
    IN  C

LEMMA MergedIs ==
    ASSUME NEW a \in ModeSet, NEW b \in Modes
    PROVE  /\ classify_x86_64_merge(a, b) \in ModeSet
           /\ classify_x86_64_merge(a, b) = "sse" => a = "sse" /\ b = "sse"
BY DEF ModeSet, Modes, classify_x86_64_merge

LEMMA ClassesAre ==
    ASSUME NEW ms \in Seq(Modes)
    PROVE  /\ Classes(ms)[0] = "sse"
           /\ \A k \in 0 .. Len(ms) : Classes(ms)[k] \in ModeSet
           /\ \A k \in 1 .. Len(ms) :
                 Classes(ms)[k] = classify_x86_64_merge(Classes(ms)[k - 1], ms[k])
<1> DEFINE Is(U) == U = [k \in 0 .. Len(ms) |->
                            IF k = 0 THEN "sse" ELSE classify_x86_64_merge(U[k - 1], ms[k])]
<1>1. PICK n \in Nat : n = Len(ms)
  OBVIOUS
<1>2. \A k \in 1 .. n : ms[k] \in Modes
  BY <1>1
<1>3. PICK g : g = [k \in 1 .. n |-> [x \in ModeSet |-> classify_x86_64_merge(x, ms[k])]]
  OBVIOUS
<1>4. ASSUME NEW k \in 1 .. n, NEW x \in ModeSet
      PROVE  classify_x86_64_merge(x, ms[k]) \in ModeSet
  BY <1>2, MergedIs
<1>5. g \in [1 .. n -> [ModeSet -> ModeSet]]
  BY <1>3, <1>4
<1>a. "sse" \in ModeSet
  BY DEF ModeSet
<1>6. PICK F : MadeBy(F, ModeSet, "sse", n, g)
  BY <1>5, <1>a, FoldExists
<1>7. F \in [0 .. n -> ModeSet] /\ F[0] = "sse" /\ \A k \in 1 .. n : F[k] = g[k][F[k - 1]]
  BY <1>6 DEF MadeBy
<1>8. ASSUME NEW k \in 0 .. n, k # 0
      PROVE  F[k] = classify_x86_64_merge(F[k - 1], ms[k])
  <2>1. k \in 1 .. n /\ k - 1 \in 0 .. n
    BY <1>8
  <2>2. F[k - 1] \in ModeSet
    BY <1>7, <2>1
  <2> QED
    BY <1>3, <1>7, <2>1, <2>2
<1>9. Is(F)
  <2>1. F = [k \in 0 .. n |-> F[k]]
    BY <1>7
  <2>2. \A k \in 0 .. n : F[k] = IF k = 0 THEN "sse" ELSE classify_x86_64_merge(F[k - 1], ms[k])
    BY <1>7, <1>8
  <2> QED
    BY <2>1, <2>2, <1>1
<1>10. PICK T : T = CHOOSE U : Is(U)
  OBVIOUS
<1>11. Is(T)
  BY <1>9, <1>10
<1>12. Classes(ms) = T
  BY <1>10 DEF Classes
<1>13. T[0] = "sse"
  BY <1>11, <1>1
<1>14. \A k \in 1 .. n : T[k] = classify_x86_64_merge(T[k - 1], ms[k])
  BY <1>11, <1>1
<1>15. ASSUME NEW k \in 1 .. n, T[k - 1] \in ModeSet PROVE T[k] \in ModeSet
  BY <1>14, <1>4, <1>15
<1>16. \A k \in 0 .. n : T[k] \in ModeSet
  BY <1>13, <1>15, <1>a, FoldKeeps
<1> QED
  BY <1>1, <1>12, <1>13, <1>14, <1>16

\* A struct of floats has nothing else.
LEMMA AllFloats ==
    ASSUME NEW ms \in Seq(Modes), Classes(ms)[Len(ms)] = "sse"
    PROVE  \A i \in 1 .. Len(ms) : ms[i] = "sse"
<1>1. PICK n \in Nat : n = Len(ms)
  OBVIOUS
<1>2. PICK C : C = Classes(ms)
  OBVIOUS
<1>3. /\ C[0] = "sse" /\ \A k \in 0 .. n : C[k] \in ModeSet
      /\ \A k \in 1 .. n : C[k] = classify_x86_64_merge(C[k - 1], ms[k])
  BY <1>1, <1>2, ClassesAre
<1>4. PICK F : F = [k \in 0 .. n |-> IF C[k] = "sse" => \A i \in 1 .. k : ms[i] = "sse" THEN 1 ELSE 0]
  OBVIOUS
<1>5. \A k \in 0 .. n : F[k] \in {1} <=> (C[k] = "sse" => \A i \in 1 .. k : ms[i] = "sse")
  BY <1>4
<1>6. F[0] \in {1}
  BY <1>5
<1>7. ASSUME NEW k \in 1 .. n, F[k - 1] \in {1} PROVE F[k] \in {1}
  <2>1. k - 1 \in 0 .. n /\ k \in 0 .. n
    OBVIOUS
  <2>2. SUFFICES ASSUME C[k] = "sse" PROVE \A i \in 1 .. k : ms[i] = "sse"
    BY <1>5, <2>1
  <2>3. ms[k] \in Modes
    BY <1>1
  <2>4. C[k - 1] = "sse" /\ ms[k] = "sse"
    BY <1>3, <2>1, <2>2, <2>3, MergedIs
  <2>5. \A i \in 1 .. k - 1 : ms[i] = "sse"
    BY <1>5, <1>7, <2>1, <2>4
  <2> QED
    BY <2>4, <2>5
<1>8. \A k \in 0 .. n : F[k] \in {1}
  <2>1. PICK S : S = {1}
    OBVIOUS
  <2>2. \A k \in 1 .. n : F[k - 1] \in S => F[k] \in S
    BY <1>7, <2>1
  <2>3. F[0] \in S
    BY <1>6, <2>1
  <2>4. \A k \in 0 .. n : F[k] \in S
    BY <2>2, <2>3, FoldKeeps
  <2> QED
    BY <2>1, <2>4
<1> QED
  BY <1>1, <1>2, <1>5, <1>8

LEMMA HasLongDouble ==
    ASSUME NEW t \in CTypes
    PROVE  /\ t.members \in Seq(Modes)
           /\ TypeAlign(t) \in {1, 2}
           /\ TypeAlign(t) = 2 => \E i \in 1 .. Len(t.members) : t.members[i] = "x87"
<1>1. t.members \in Seq(Modes)
  BY DEF CTypes
<1>2. Contains(t.members, "x87") <=> \E i \in 1 .. Len(t.members) : t.members[i] = "x87"
  BY DEF Contains
<1> QED
  BY <1>1, <1>2 DEF TypeAlign

LEMMA SizeIs ==
    ASSUME NEW t \in CTypes
    PROVE  /\ TypeSize(t) \in Nat
           /\ TypeAlign(t) = 2 => TypeSize(t) % 2 = 0
           /\ t.members # <<>> => TypeSize(t) > 0
<1>1. PICK ms \in Seq(Modes) : ms = t.members
  BY HasLongDouble
<1>2. TypeAlign(t) \in {1, 2}
  BY HasLongDouble
<1>3. CASE ms = <<>>
  <2>1. TypeSize(t) = 0
    BY <1>1, <1>3 DEF TypeSize
  <2> QED
    BY <1>1, <1>3, <2>1
<1>4. CASE ms # <<>> /\ t.tag = "union"
  <2>1. TypeSize(t) = TypeAlign(t)
    BY <1>1, <1>4 DEF TypeSize
  <2> QED
    BY <1>2, <2>1
<1>5. CASE ms # <<>> /\ t.tag # "union"
  <2>1. TypeSize(t) = UpTo(Ends(ms)[Len(ms)], TypeAlign(t))
    BY <1>1, <1>5 DEF TypeSize, Ends
  <2>2. PICK n \in Nat : n = Len(ms) /\ n > 0
    BY <1>5
  <2>3. PICK e : e = Ends(ms)[n - 1]
    OBVIOUS
  <2>4. e \in Nat
    BY <2>2, <2>3, EndsAre
  <2>5. Ends(ms)[n] = UpTo(e, ScalarSize(ms[n])) + ScalarSize(ms[n])
    BY <2>2, <2>3, EndsAre
  <2>6. ScalarSize(ms[n]) \in {1, 2}
    BY DEF ScalarSize
  <2>7. UpTo(e, ScalarSize(ms[n])) \in Nat
    BY <2>4, <2>6, UpToIs
  <2>8. PICK m \in Nat : m = Ends(ms)[n] /\ m > 0
    BY <2>5, <2>6, <2>7
  <2>9. TypeSize(t) = UpTo(m, TypeAlign(t))
    BY <2>1, <2>2, <2>8
  <2> QED
    BY <1>2, <2>8, <2>9, UpToIs
<1> QED
  BY <1>3, <1>4, <1>5

\* What the model needs of a type.
TypeGood(t) ==
    /\ Mode(t) \in ModeSet /\ TypeAlign(t) \in {1, 2} /\ TypeSize(t) \in Nat /\ RegCount(t) \in {1, 2}
    /\ TypeAlign(t) = 2 => TypeSize(t) % 2 = 0
    /\ Mode(t) = "integer" => TypeSize(t) = RegCount(t)
    /\ Mode(t) = "sse" => TypeAlign(t) = 1 /\ TypeSize(t) <= RegCount(t)
    /\ RegCount(t) = 2 <=> TypeSize(t) > 1

LEMMA TypesAreGood ==
    ASSUME NEW t \in CTypes
    PROVE  TypeGood(t)
<1>1. PICK ms \in Seq(Modes) : ms = t.members
  BY HasLongDouble
<1>2. PICK m : m = classify_x86_64_inner(t)
  OBVIOUS
<1>3. t.tag \in {"scalar", "struct", "union"} /\ (t.tag = "scalar" => Len(ms) = 1)
  BY <1>1 DEF CTypes
<1>4. m \in ModeSet /\ (m = "sse" => \A i \in 1 .. Len(ms) : ms[i] = "sse")
         /\ (m = "integer" => ms # <<>>)
  <2>1. CASE t.tag = "scalar"
    <3>1. m = ms[1] /\ Len(ms) = 1 /\ ms[1] \in Modes
      BY <1>1, <1>2, <1>3, <2>1 DEF classify_x86_64_inner
    <3>2. m \in ModeSet
      BY <3>1 DEF Modes, ModeSet
    <3> QED
      BY <3>1, <3>2
  <2>2. CASE t.tag # "scalar"
    <3>1. m = Classes(ms)[Len(ms)]
      BY <1>1, <1>2, <2>2 DEF classify_x86_64_inner, Classes
    <3>2. m \in ModeSet
      BY <3>1, ClassesAre
    <3>3. m = "sse" => \A i \in 1 .. Len(ms) : ms[i] = "sse"
      BY <3>1, AllFloats
    <3>4. ms = <<>> => m = "sse"
      BY <3>1, ClassesAre
    <3> QED
      BY <3>2, <3>3, <3>4
  <2> QED
    BY <2>1, <2>2
<1>5. PICK z \in Nat : z = TypeSize(t)
  BY SizeIs
<1>6. (TypeAlign(t) = 2 => z % 2 = 0) /\ (ms # <<>> => z > 0)
  BY <1>1, <1>5, SizeIs
<1>7. TypeAlign(t) \in {1, 2}
  BY HasLongDouble
<1>8. Mode(t) = IF z > 2 THEN "memory" ELSE m
  BY <1>2, <1>5 DEF Mode
<1>9. RegCount(t) = IF z > 1 THEN 2 ELSE 1
  BY <1>5 DEF RegCount
<1>10. m = "sse" => TypeAlign(t) = 1
  BY <1>1, <1>4, <1>7, HasLongDouble
<1>11. Mode(t) \in ModeSet
  BY <1>4, <1>8 DEF ModeSet
<1>12. Mode(t) = "integer" => z = RegCount(t)
  BY <1>4, <1>6, <1>8, <1>9
<1>13. Mode(t) = "sse" => TypeAlign(t) = 1 /\ z <= RegCount(t)
  BY <1>8, <1>9, <1>10
<1> QED
  BY <1>5, <1>6, <1>7, <1>9, <1>11, <1>12, <1>13 DEF TypeGood

\* The place for a returned struct
LEMMA PointerIs ==
    /\ Pointer \in CTypes
    /\ Mode(Pointer) = "integer" /\ TypeSize(Pointer) = 1 /\ TypeAlign(Pointer) = 1
    /\ RegCount(Pointer) = 1
<1>1. PICK t : t = Pointer
  OBVIOUS
<1>2. t.tag = "scalar" /\ t.members = <<"integer">> /\ t \in CTypes
  BY <1>1 DEF Pointer, Scalar, CTypes, Modes
<1>3. PICK ms \in Seq(Modes) : ms = t.members /\ Len(ms) = 1 /\ ms[1] = "integer" /\ ms # <<>>
  <2>1. t.members \in Seq(Modes)
    BY <1>2, HasLongDouble
  <2>2. Len(<<"integer">>) = 1 /\ <<"integer">>[1] = "integer" /\ <<"integer">> # <<>>
    OBVIOUS
  <2> QED
    BY <1>2, <2>1, <2>2
<1>4. TypeAlign(t) = 1
  BY <1>2, <1>3, HasLongDouble
<1>5. TypeSize(t) = UpTo(Ends(ms)[Len(ms)], TypeAlign(t))
  BY <1>2, <1>3 DEF TypeSize, Ends
<1>6. Ends(ms)[1] = UpTo(0, 1) + 1
  <2>1. ScalarSize(ms[1]) = 1
    BY <1>3 DEF ScalarSize
  <2>2. Ends(ms)[1] = UpTo(Ends(ms)[1 - 1], ScalarSize(ms[1])) + ScalarSize(ms[1])
    BY <1>3, EndsAre
  <2>3. Ends(ms)[1 - 1] = 0
    BY EndsAre
  <2> QED
    BY <2>1, <2>2, <2>3
<1>7. Ends(ms)[1] = 1
  BY <1>6, UpToIs
<1>8. TypeSize(t) = 1
  BY <1>3, <1>4, <1>5, <1>7, UpToIs
<1>9. Mode(t) = "integer"
  BY <1>2, <1>8 DEF Mode, classify_x86_64_inner
<1>10. RegCount(t) = 1
  BY <1>8 DEF RegCount
<1> QED
  BY <1>1, <1>2, <1>4, <1>8, <1>9, <1>10

-----------------------------------------------------------------------------
(* What the arguments up to one need                                       *)

\* Registers if every argument had some (int, sse), those that are used (rint,
\* rsse), and words on the stack.
Marks  == [int : Nat, sse : Nat, rint : Nat, rsse : Nat, end : Nat]
NoMark == [int |-> 0, sse |-> 0, rint |-> 0, rsse |-> 0, end |-> 0]

Part(mode, t) == IF Mode(t) = mode THEN RegCount(t) ELSE 0

\* An argument of type t, up to which x is needed, is in registers.
Fits(t, x) == (Mode(t) = "integer" /\ x.int <= REGN) \/ (Mode(t) = "sse" /\ x.sse <= SSEN)

Mark(x, t) ==
    LET i == x.int + Part("integer", t)
        s == x.sse + Part("sse", t)
        y == [x EXCEPT !.int = i, !.sse = s]
    IN  [y EXCEPT !.rint = IF i <= REGN THEN i ELSE x.rint,
                  !.rsse = IF s <= SSEN THEN s ELSE x.rsse,
                  !.end  = IF Fits(t, y) THEN x.end ELSE UpTo(x.end, TypeAlign(t)) + TypeSize(t)]

Plan(ts) ==
    LET F[i \in 0 .. Len(ts)] == IF i = 0 THEN NoMark ELSE Mark(F[i - 1], ts[i]) IN F

Planned(ts, P) == /\ P[0] = NoMark /\ \A k \in 0 .. Len(ts) : P[k] \in Marks
                  /\ \A k \in 1 .. Len(ts) : P[k] = Mark(P[k - 1], ts[k])

LEMMA MarkIs ==
    ASSUME NEW x \in Marks, NEW t, TypeGood(t), NEW y, y = Mark(x, t)
    PROVE  /\ y \in Marks
           /\ y.int = x.int + Part("integer", t) /\ y.sse = x.sse + Part("sse", t)
           /\ y.rint = (IF y.int <= REGN THEN y.int ELSE x.rint)
           /\ y.rsse = (IF y.sse <= SSEN THEN y.sse ELSE x.rsse)
           /\ y.end = IF Fits(t, y) THEN x.end ELSE UpTo(x.end, TypeAlign(t)) + TypeSize(t)
<1>1. PICK i \in Nat : i = x.int + Part("integer", t)
  BY DEF Part, TypeGood, Marks
<1>2. PICK s \in Nat : s = x.sse + Part("sse", t)
  BY DEF Part, TypeGood, Marks
<1>3. PICK z \in Marks : z = [x EXCEPT !.int = i, !.sse = s]
  BY DEF Marks
<1>4. z.int = i /\ z.sse = s
  BY <1>3 DEF Marks
<1>5. PICK r \in Nat : r = IF i <= REGN THEN i ELSE x.rint
  BY DEF Marks
<1>6. PICK q \in Nat : q = IF s <= SSEN THEN s ELSE x.rsse
  BY DEF Marks
<1>7. PICK e \in Nat : e = IF Fits(t, z) THEN x.end ELSE UpTo(x.end, TypeAlign(t)) + TypeSize(t)
  <2>1. x.end \in Nat
    BY DEF Marks
  <2>2. UpTo(x.end, TypeAlign(t)) \in Nat
    BY <2>1, UpToIs DEF TypeGood
  <2> QED
    BY <2>1, <2>2 DEF TypeGood
<1>8. y = [z EXCEPT !.rint = r, !.rsse = q, !.end = e]
  BY <1>1, <1>2, <1>3, <1>5, <1>6, <1>7 DEF Mark
<1>9. y \in Marks /\ y.int = i /\ y.sse = s /\ y.rint = r /\ y.rsse = q /\ y.end = e
  BY <1>3, <1>4, <1>8 DEF Marks
<1>10. Fits(t, y) <=> Fits(t, z)
  BY <1>4, <1>9 DEF Fits
<1> QED
  BY <1>1, <1>2, <1>5, <1>6, <1>7, <1>9, <1>10

LEMMA PlanIs ==
    ASSUME NEW ts \in Seq(CTypes)
    PROVE  Planned(ts, Plan(ts))
<1> DEFINE Is(U) == U = [k \in 0 .. Len(ts) |-> IF k = 0 THEN NoMark ELSE Mark(U[k - 1], ts[k])]
<1>1. PICK n \in Nat : n = Len(ts)
  OBVIOUS
<1>2. \A k \in 1 .. n : TypeGood(ts[k])
  BY <1>1, TypesAreGood
<1>3. PICK g : g = [k \in 1 .. n |-> [x \in Marks |-> Mark(x, ts[k])]]
  OBVIOUS
<1>4. ASSUME NEW k \in 1 .. n, NEW x \in Marks
      PROVE  Mark(x, ts[k]) \in Marks
  BY <1>2, MarkIs
<1>5. g \in [1 .. n -> [Marks -> Marks]]
  BY <1>3, <1>4
<1>a. NoMark \in Marks
  BY DEF NoMark, Marks
<1>6. PICK F : MadeBy(F, Marks, NoMark, n, g)
  BY <1>5, <1>a, FoldExists
<1>7. F \in [0 .. n -> Marks] /\ F[0] = NoMark /\ \A k \in 1 .. n : F[k] = g[k][F[k - 1]]
  BY <1>6 DEF MadeBy
<1>8. ASSUME NEW k \in 0 .. n, k # 0
      PROVE  F[k] = Mark(F[k - 1], ts[k])
  <2>1. k \in 1 .. n /\ k - 1 \in 0 .. n
    BY <1>8
  <2>2. F[k - 1] \in Marks
    BY <1>7, <2>1
  <2> QED
    BY <1>3, <1>7, <2>1, <2>2
<1>9. Is(F)
  <2>1. F = [k \in 0 .. n |-> F[k]]
    BY <1>7
  <2>2. \A k \in 0 .. n : F[k] = IF k = 0 THEN NoMark ELSE Mark(F[k - 1], ts[k])
    BY <1>7, <1>8
  <2> QED
    BY <2>1, <2>2, <1>1
<1>10. PICK T : T = CHOOSE U : Is(U)
  OBVIOUS
<1>11. Is(T)
  BY <1>9, <1>10
<1>12. Plan(ts) = T
  BY <1>10 DEF Plan
<1>13. T[0] = NoMark
  BY <1>11, <1>1
<1>14. \A k \in 1 .. n : T[k] = Mark(T[k - 1], ts[k])
  BY <1>11, <1>1
<1>15. ASSUME NEW k \in 1 .. n, T[k - 1] \in Marks PROVE T[k] \in Marks
  BY <1>14, <1>4, <1>15
<1>16. \A k \in 0 .. n : T[k] \in Marks
  BY <1>13, <1>15, <1>a, FoldKeeps
<1> QED
  BY <1>1, <1>12, <1>13, <1>14, <1>16 DEF Planned

\* f counts what each argument needs.
Counts(mode, ts, n, f) == f[0] = 0 /\ \A k \in 1 .. n : f[k] = f[k - 1] + Part(mode, ts[k])

LEMMA NeededIs ==
    ASSUME NEW mode, NEW n \in Nat, NEW ts \in [1 .. n -> CTypes], NEW f, Counts(mode, ts, n, f)
    PROVE  Needed(mode, ts) = f[n]
<1>1. PICK w : w = [k \in 1 .. n |-> Part(mode, ts[k])]
  OBVIOUS
<1>2. \A k \in 1 .. n : Part(mode, ts[k]) \in Nat
  BY TypesAreGood DEF Part, TypeGood
<1>3. w \in Seq(Nat) /\ Len(w) = n
  BY <1>1, <1>2
<1>4. DOMAIN ts = 1 .. n
  OBVIOUS
<1>5. Needed(mode, ts) = Total(w)
  BY <1>1, <1>4 DEF Needed, Part
<1>6. f[0] = 0 /\ \A k \in 1 .. n : f[k] = f[k - 1] + w[k]
  BY <1>1 DEF Counts
<1> QED
  BY <1>3, <1>5, <1>6, TotalIs, SMTT(30)

\* Induction from one number to another
LEMMA Upwards ==
    ASSUME NEW j \in Nat, NEW n \in Nat, NEW A, j \in A,
           \A k \in j + 1 .. n : k - 1 \in A => k \in A
    PROVE  \A k \in j .. n : k \in A
<1> DEFINE B == {k \in j .. n : k \notin A}
<1>1. B \in SUBSET Nat /\ \A k : k \in B <=> k \in j .. n /\ k \notin A
  OBVIOUS
<1> HIDE DEF B
<1>2. ASSUME NEW k \in B PROVE \E m \in B : m < k
  <2>1. k \in j + 1 .. n /\ k \notin A
    BY <1>1
  <2>2. k - 1 \in j .. n /\ k - 1 < k
    BY <2>1
  <2> QED
    BY <1>1, <2>1, <2>2
<1>3. B = {}
  BY <1>1, <1>2, NoLeast
<1> QED
  BY <1>1, <1>3

LEMMA Ascending ==
    ASSUME NEW n \in Nat, NEW f, \A k \in 0 .. n : f[k] \in Nat,
           \A k \in 1 .. n : f[k - 1] <= f[k],
           NEW i \in 0 .. n, NEW k \in i .. n
    PROVE  f[i] <= f[k]
<1>1. PICK A : A = {m \in i .. n : f[i] <= f[m]}
  OBVIOUS
<1>2. i \in A
  BY <1>1
<1>3. ASSUME NEW m \in i + 1 .. n, m - 1 \in A PROVE m \in A
  <2>1. m \in 1 .. n /\ m - 1 \in 0 .. n /\ m \in i .. n /\ m \in 0 .. n
    OBVIOUS
  <2>2. f[i] <= f[m - 1] /\ f[m - 1] <= f[m]
    BY <1>1, <1>3, <2>1
  <2>3. f[i] <= f[m]
    BY <2>1, <2>2
  <2> QED
    BY <1>1, <2>1, <2>3
<1>4. \A m \in i .. n : m \in A
  <2>1. i \in Nat
    OBVIOUS
  <2> QED
    BY <1>2, <1>3, <2>1, Upwards
<1> QED
  BY <1>1, <1>4

LEMMA EvenSum ==
    ASSUME NEW d \in Nat, NEW z \in Nat, d % 2 = 0, z % 2 = 0
    PROVE  (d + z) % 2 = 0
<1>1. d = 2 * (d \div 2) /\ z = 2 * (z \div 2)
  OBVIOUS
<1>2. PICK a \in Nat : d = 2 * a
  BY <1>1
<1>3. PICK b \in Nat : z = 2 * b
  BY <1>1
<1>4. d + z = 2 * (a + b)
  BY <1>2, <1>3
<1> QED
  BY <1>4

\* A call that the code gets right: its types and its plan.
Situation(ts, P) ==
    /\ ts \in Seq(CTypes) /\ Planned(ts, P)
    /\ \A k \in 1 .. Len(ts) : TypeGood(ts[k])
    /\ \A k \in 1 .. Len(ts) : Mode(ts[k]) = "integer" => TypeAlign(ts[k]) = 1
    /\ \A k \in 1 .. Len(ts) : Mode(ts[k]) = "sse" /\ RegCount(ts[k]) = 2 => P[k - 1].sse # 1

\* Argument a is in registers, or on the stack from Start on.
In(ts, P, a)    == Fits(ts[a], P[a])
Start(ts, P, a) == P[a].end - TypeSize(ts[a])

LEMMA MarksAre ==
    ASSUME NEW ts, NEW P, Situation(ts, P), NEW k \in 0 .. Len(ts)
    PROVE  P[k].int \in Nat /\ P[k].sse \in Nat /\ P[k].rint \in Nat /\ P[k].rsse \in Nat /\ P[k].end \in Nat
BY DEF Situation, Planned, Marks

LEMMA NoMarkIs ==
    ASSUME NEW ts, NEW P, Situation(ts, P)
    PROVE  P[0].int = 0 /\ P[0].sse = 0 /\ P[0].rint = 0 /\ P[0].rsse = 0 /\ P[0].end = 0
BY DEF Situation, Planned, NoMark

LEMMA Marked ==
    ASSUME NEW ts, NEW P, Situation(ts, P), NEW k \in 1 .. Len(ts)
    PROVE  /\ P[k].int = P[k - 1].int + Part("integer", ts[k])
           /\ P[k].sse = P[k - 1].sse + Part("sse", ts[k])
           /\ P[k].rint = (IF P[k].int <= REGN THEN P[k].int ELSE P[k - 1].rint)
           /\ P[k].rsse = (IF P[k].sse <= SSEN THEN P[k].sse ELSE P[k - 1].rsse)
<1>1. P[k - 1] \in Marks
  BY DEF Situation, Planned
<1>2. TypeGood(ts[k]) /\ P[k] = Mark(P[k - 1], ts[k])
  BY DEF Situation, Planned
<1> QED
  BY <1>1, <1>2, MarkIs

LEMMA MarkedEnd ==
    ASSUME NEW ts, NEW P, Situation(ts, P), NEW k \in 1 .. Len(ts)
    PROVE  P[k].end = IF In(ts, P, k) THEN P[k - 1].end
                      ELSE UpTo(P[k - 1].end, TypeAlign(ts[k])) + TypeSize(ts[k])
<1>1. P[k - 1] \in Marks
  BY DEF Situation, Planned
<1>2. TypeGood(ts[k]) /\ P[k] = Mark(P[k - 1], ts[k])
  BY DEF Situation, Planned
<1> QED
  BY <1>1, <1>2, MarkIs DEF In

LEMMA PartIs ==
    ASSUME NEW ts, NEW P, Situation(ts, P), NEW k \in 1 .. Len(ts), NEW mode
    PROVE  /\ Part(mode, ts[k]) \in Nat
           /\ Part(mode, ts[k]) = IF Mode(ts[k]) = mode THEN RegCount(ts[k]) ELSE 0
BY DEF Situation, TypeGood, Part

\* The types of a call
LEMMA TypeFacts ==
    ASSUME NEW ts, NEW P, Situation(ts, P), NEW k \in 1 .. Len(ts)
    PROVE  /\ Mode(ts[k]) \in ModeSet /\ TypeAlign(ts[k]) \in {1, 2} /\ TypeSize(ts[k]) \in Nat
           /\ RegCount(ts[k]) \in {1, 2}
           /\ TypeAlign(ts[k]) = 2 => TypeSize(ts[k]) % 2 = 0 /\ Mode(ts[k]) \in {"memory", "x87"}
           /\ Mode(ts[k]) = "integer" => TypeSize(ts[k]) = RegCount(ts[k])
           /\ Mode(ts[k]) = "sse" => TypeSize(ts[k]) <= RegCount(ts[k])
           /\ RegCount(ts[k]) = 2 <=> TypeSize(ts[k]) > 1
BY DEF Situation, TypeGood, ModeSet

LEMMA Growing ==
    ASSUME NEW ts, NEW P, Situation(ts, P), NEW i \in 0 .. Len(ts), NEW k \in i .. Len(ts)
    PROVE  /\ P[i].int <= P[k].int /\ P[i].sse <= P[k].sse
           /\ P[i].end <= P[k].end
<1>1. PICK n \in Nat : n = Len(ts)
  BY DEF Situation
<1>2. P[i].int <= P[k].int
  <2>1. PICK f : f = [m \in 0 .. n |-> P[m].int]
    OBVIOUS
  <2>2. \A m \in 0 .. n : f[m] \in Nat
    BY <1>1, <2>1, MarksAre
  <2>3. ASSUME NEW m \in 1 .. n PROVE f[m - 1] <= f[m]
    <3>1. f[m] = f[m - 1] + Part("integer", ts[m])
      BY <1>1, <2>1, Marked
    <3>2. f[m - 1] \in Nat /\ f[m] \in Nat
      BY <2>2
    <3>3. Part("integer", ts[m]) \in Nat
      BY <1>1, PartIs
    <3> QED
      BY <3>1, <3>2, <3>3
  <2>4. f[i] <= f[k]
    BY <1>1, <2>2, <2>3, Ascending
  <2> QED
    BY <1>1, <2>1, <2>4
<1>3. P[i].sse <= P[k].sse
  <2>1. PICK f : f = [m \in 0 .. n |-> P[m].sse]
    OBVIOUS
  <2>2. \A m \in 0 .. n : f[m] \in Nat
    BY <1>1, <2>1, MarksAre
  <2>3. ASSUME NEW m \in 1 .. n PROVE f[m - 1] <= f[m]
    <3>1. f[m] = f[m - 1] + Part("sse", ts[m])
      BY <1>1, <2>1, Marked
    <3>2. f[m - 1] \in Nat /\ f[m] \in Nat
      BY <2>2
    <3>3. Part("sse", ts[m]) \in Nat
      BY <1>1, PartIs
    <3> QED
      BY <3>1, <3>2, <3>3
  <2>4. f[i] <= f[k]
    BY <1>1, <2>2, <2>3, Ascending
  <2> QED
    BY <1>1, <2>1, <2>4
<1>4. P[i].end <= P[k].end
  <2>1. PICK f : f = [m \in 0 .. n |-> P[m].end]
    OBVIOUS
  <2>2. \A m \in 0 .. n : f[m] \in Nat
    BY <1>1, <2>1, MarksAre
  <2>3. ASSUME NEW m \in 1 .. n PROVE f[m - 1] <= f[m]
    <3>1. f[m] = IF In(ts, P, m) THEN f[m - 1]
                 ELSE UpTo(f[m - 1], TypeAlign(ts[m])) + TypeSize(ts[m])
      BY <1>1, <2>1, MarkedEnd
    <3>2. f[m - 1] \in Nat /\ f[m] \in Nat /\ TypeSize(ts[m]) \in Nat /\ TypeAlign(ts[m]) \in {1, 2}
      BY <1>1, <2>2, TypeFacts
    <3>3. PICK u \in Nat : u = UpTo(f[m - 1], TypeAlign(ts[m])) /\ u >= f[m - 1]
      BY <3>2, UpToIs
    <3> QED
      BY <3>1, <3>2, <3>3
  <2>4. f[i] <= f[k]
    BY <1>1, <2>2, <2>3, Ascending
  <2> QED
    BY <1>1, <2>1, <2>4
<1> QED
  BY <1>2, <1>3, <1>4

\* The registers that are used are some of those that are needed, and are as many
\* as there are.
LEMMA RegsUsed ==
    ASSUME NEW ts, NEW P, Situation(ts, P), NEW k \in 0 .. Len(ts)
    PROVE  /\ P[k].rint <= REGN /\ P[k].rint <= P[k].int /\ (P[k].int <= REGN => P[k].rint = P[k].int)
           /\ P[k].rsse <= SSEN /\ P[k].rsse <= P[k].sse /\ (P[k].sse <= SSEN => P[k].rsse = P[k].sse)
<1>1. PICK n \in Nat : n = Len(ts)
  BY DEF Situation
<1>2. REGN \in Nat /\ SSEN \in Nat
  BY CallAssumption
<1> DEFINE R(m) ==
      /\ P[m].rint <= REGN /\ P[m].rint <= P[m].int /\ (P[m].int <= REGN => P[m].rint = P[m].int)
      /\ P[m].rsse <= SSEN /\ P[m].rsse <= P[m].sse /\ (P[m].sse <= SSEN => P[m].rsse = P[m].sse)
<1>3. PICK A : A = {m \in 0 .. n : R(m)}
  OBVIOUS
<1>4. 0 \in A
  BY <1>2, <1>3, NoMarkIs
<1>5. ASSUME NEW m \in 1 .. n, m - 1 \in A PROVE m \in A
  <2>1. m - 1 \in 0 .. n /\ m \in 0 .. n /\ R(m - 1)
    BY <1>3, <1>5
  <2>2. /\ P[m - 1].int \in Nat /\ P[m - 1].sse \in Nat /\ P[m - 1].rint \in Nat /\ P[m - 1].rsse \in Nat
        /\ P[m].int \in Nat /\ P[m].sse \in Nat /\ P[m].rint \in Nat /\ P[m].rsse \in Nat
    BY <1>1, <2>1, MarksAre
  <2>3. P[m - 1].int <= P[m].int /\ P[m - 1].sse <= P[m].sse
    BY <1>1, <2>1, Growing
  <2>4. /\ P[m].rint = (IF P[m].int <= REGN THEN P[m].int ELSE P[m - 1].rint)
        /\ P[m].rsse = (IF P[m].sse <= SSEN THEN P[m].sse ELSE P[m - 1].rsse)
    BY <1>1, Marked
  <2>5. R(m)
    BY <1>2, <2>1, <2>2, <2>3, <2>4, SMTT(30)
  <2> QED
    BY <1>3, <2>1, <2>5
<1>6. \A m \in 0 .. n : m \in A
  <2> HIDE DEF R
  <2>1. \A m \in 0 + 1 .. n : m - 1 \in A => m \in A
    BY <1>5
  <2> QED
    BY <1>4, <2>1, Upwards
<1> QED
  BY <1>1, <1>3, <1>6

LEMMA RegsGrow ==
    ASSUME NEW ts, NEW P, Situation(ts, P), NEW i \in 0 .. Len(ts), NEW k \in i .. Len(ts)
    PROVE  P[i].rint <= P[k].rint /\ P[i].rsse <= P[k].rsse
<1>1. PICK n \in Nat : n = Len(ts)
  BY DEF Situation
<1>2. REGN \in Nat /\ SSEN \in Nat
  BY CallAssumption
<1>3. ASSUME NEW m \in 1 .. n
      PROVE  P[m - 1].rint <= P[m].rint /\ P[m - 1].rsse <= P[m].rsse
  <2>1. m - 1 \in 0 .. n /\ m \in 0 .. n /\ m \in m - 1 .. n
    OBVIOUS
  <2>2. P[m - 1].int <= P[m].int /\ P[m - 1].sse <= P[m].sse
    BY <1>1, <2>1, Growing
  <2>3. P[m - 1].rint <= P[m - 1].int /\ P[m - 1].rsse <= P[m - 1].sse
    BY <1>1, <2>1, RegsUsed
  <2>4. /\ P[m].rint = (IF P[m].int <= REGN THEN P[m].int ELSE P[m - 1].rint)
        /\ P[m].rsse = (IF P[m].sse <= SSEN THEN P[m].sse ELSE P[m - 1].rsse)
    BY <1>1, Marked
  <2>5. /\ P[m - 1].int \in Nat /\ P[m - 1].sse \in Nat /\ P[m - 1].rint \in Nat /\ P[m - 1].rsse \in Nat
        /\ P[m].int \in Nat /\ P[m].sse \in Nat
    BY <1>1, <2>1, MarksAre
  <2>6. P[m - 1].rint <= P[m].int /\ P[m - 1].rsse <= P[m].sse
    <3>1. PICK a \in Nat, b \in Nat : a = P[m - 1].int /\ b = P[m - 1].sse
      BY <2>5
    <3>2. PICK c \in Nat, d \in Nat : c = P[m - 1].rint /\ d = P[m - 1].rsse
      BY <2>5
    <3>3. c <= a /\ d <= b
      BY <2>3, <3>1, <3>2
    <3>4. PICK e \in Nat, f \in Nat : e = P[m].int /\ f = P[m].sse
      BY <2>5
    <3>5. a <= e /\ b <= f
      BY <2>2, <3>1, <3>4
    <3>6. c <= e /\ d <= f
      BY <3>3, <3>5
    <3> QED
      BY <3>2, <3>4, <3>6
  <2>7. P[m - 1].rint <= P[m].rint
    <3>1. CASE P[m].int <= REGN
      BY <2>4, <2>6, <3>1
    <3>2. CASE ~ (P[m].int <= REGN)
      BY <2>4, <2>5, <3>2
    <3> QED
      BY <3>1, <3>2
  <2>8. P[m - 1].rsse <= P[m].rsse
    <3>1. CASE P[m].sse <= SSEN
      BY <2>4, <2>6, <3>1
    <3>2. CASE ~ (P[m].sse <= SSEN)
      BY <2>4, <2>5, <3>2
    <3> QED
      BY <3>1, <3>2
  <2> QED
    BY <2>7, <2>8
<1>4. P[i].rint <= P[k].rint
  <2>1. PICK f : f = [m \in 0 .. n |-> P[m].rint]
    OBVIOUS
  <2>2. \A m \in 0 .. n : f[m] \in Nat
    BY <1>1, <2>1, MarksAre
  <2>3. \A m \in 1 .. n : f[m - 1] <= f[m]
    BY <1>3, <2>1
  <2>4. f[i] <= f[k]
    BY <1>1, <2>2, <2>3, Ascending
  <2> QED
    BY <1>1, <2>1, <2>4
<1>5. P[i].rsse <= P[k].rsse
  <2>1. PICK f : f = [m \in 0 .. n |-> P[m].rsse]
    OBVIOUS
  <2>2. \A m \in 0 .. n : f[m] \in Nat
    BY <1>1, <2>1, MarksAre
  <2>3. \A m \in 1 .. n : f[m - 1] <= f[m]
    BY <1>3, <2>1
  <2>4. f[i] <= f[k]
    BY <1>1, <2>2, <2>3, Ascending
  <2> QED
    BY <1>1, <2>1, <2>4
<1> QED
  BY <1>4, <1>5

\* When the registers are exceeded, no more are used.
LEMMA RegsFrozen ==
    ASSUME NEW ts, NEW P, Situation(ts, P), NEW j \in 1 .. Len(ts)
    PROVE  /\ P[j].int > REGN => P[Len(ts)].rint = P[j - 1].rint
           /\ P[j].sse > SSEN => P[Len(ts)].rsse = P[j - 1].rsse
<1>1. PICK n \in Nat : n = Len(ts)
  BY DEF Situation
<1>2. REGN \in Nat /\ SSEN \in Nat
  BY CallAssumption
<1> DEFINE R(m) == /\ P[j].int > REGN => P[m].rint = P[j - 1].rint
                   /\ P[j].sse > SSEN => P[m].rsse = P[j - 1].rsse
<1>3. PICK A : A = {m \in j - 1 .. n : R(m)}
  OBVIOUS
<1>4. j - 1 \in A /\ j - 1 \in Nat
  BY <1>1, <1>3
<1>5. ASSUME NEW m \in (j - 1) + 1 .. n, m - 1 \in A PROVE m \in A
  <2>1. m - 1 \in 0 .. n /\ m \in 1 .. n /\ m \in j .. n /\ R(m - 1)
    BY <1>3, <1>5
  <2>2. /\ P[j].int \in Nat /\ P[j].sse \in Nat /\ P[m].int \in Nat /\ P[m].sse \in Nat
    BY <1>1, <2>1, MarksAre
  <2>3. P[j].int <= P[m].int /\ P[j].sse <= P[m].sse
    BY <1>1, <2>1, Growing
  <2>4. /\ P[m].rint = (IF P[m].int <= REGN THEN P[m].int ELSE P[m - 1].rint)
        /\ P[m].rsse = (IF P[m].sse <= SSEN THEN P[m].sse ELSE P[m - 1].rsse)
    BY <1>1, <2>1, Marked
  <2>5. R(m)
    BY <1>2, <2>1, <2>2, <2>3, <2>4, SMTT(30)
  <2> QED
    BY <1>3, <2>1, <2>5
<1>6. \A m \in j - 1 .. n : m \in A
  BY <1>4, <1>5, Upwards
<1>7. n \in j - 1 .. n
  BY <1>1
<1> QED
  BY <1>1, <1>3, <1>6, <1>7

\* What changes with an argument in registers, and what with one on the stack
LEMMA MarkedIn ==
    ASSUME NEW ts, NEW P, Situation(ts, P), NEW k \in 1 .. Len(ts)
    PROVE  /\ ~ (Mode(ts[k]) = "integer" /\ In(ts, P, k)) => P[k].rint = P[k - 1].rint
           /\ ~ (Mode(ts[k]) = "sse" /\ In(ts, P, k)) => P[k].rsse = P[k - 1].rsse
           /\ Mode(ts[k]) = "integer" /\ In(ts, P, k) =>
                 /\ P[k].int <= REGN /\ P[k].rint = P[k].int /\ P[k - 1].rint = P[k - 1].int
                 /\ P[k].int = P[k - 1].int + RegCount(ts[k])
           /\ Mode(ts[k]) = "sse" /\ In(ts, P, k) =>
                 /\ P[k].sse <= SSEN /\ P[k].rsse = P[k].sse /\ P[k - 1].rsse = P[k - 1].sse
                 /\ P[k].sse = P[k - 1].sse + RegCount(ts[k])
           /\ Mode(ts[k]) # "integer" => P[k].int = P[k - 1].int
           /\ Mode(ts[k]) # "sse" => P[k].sse = P[k - 1].sse
<1>1. REGN \in Nat /\ SSEN \in Nat
  BY CallAssumption
<1>2. k - 1 \in 0 .. Len(ts) /\ k \in 0 .. Len(ts)
  BY DEF Situation
<1>3. /\ P[k - 1].int \in Nat /\ P[k - 1].sse \in Nat /\ P[k - 1].rint \in Nat /\ P[k - 1].rsse \in Nat
      /\ P[k].int \in Nat /\ P[k].sse \in Nat /\ P[k].rint \in Nat /\ P[k].rsse \in Nat
  BY <1>2, MarksAre
<1>4. /\ P[k].int = P[k - 1].int + Part("integer", ts[k])
      /\ P[k].sse = P[k - 1].sse + Part("sse", ts[k])
      /\ P[k].rint = (IF P[k].int <= REGN THEN P[k].int ELSE P[k - 1].rint)
      /\ P[k].rsse = (IF P[k].sse <= SSEN THEN P[k].sse ELSE P[k - 1].rsse)
  BY Marked
<1>5. /\ Part("integer", ts[k]) = IF Mode(ts[k]) = "integer" THEN RegCount(ts[k]) ELSE 0
      /\ Part("sse", ts[k]) = IF Mode(ts[k]) = "sse" THEN RegCount(ts[k]) ELSE 0
  BY PartIs
<1>6. RegCount(ts[k]) \in {1, 2}
  BY TypeFacts
<1>7. /\ P[k - 1].int <= REGN => P[k - 1].rint = P[k - 1].int
      /\ P[k - 1].sse <= SSEN => P[k - 1].rsse = P[k - 1].sse
  BY <1>2, RegsUsed
<1>8. In(ts, P, k) <=> \/ Mode(ts[k]) = "integer" /\ P[k].int <= REGN
                       \/ Mode(ts[k]) = "sse" /\ P[k].sse <= SSEN
  BY DEF In, Fits
<1>9. PICK m : m = Mode(ts[k])
  OBVIOUS
<1>10. CASE m = "integer"
  BY <1>1, <1>3, <1>4, <1>5, <1>6, <1>7, <1>8, <1>9, <1>10, SMTT(30)
<1>11. CASE m = "sse"
  BY <1>1, <1>3, <1>4, <1>5, <1>6, <1>7, <1>8, <1>9, <1>11, SMTT(30)
<1>12. CASE m # "integer" /\ m # "sse"
  BY <1>1, <1>3, <1>4, <1>5, <1>7, <1>8, <1>9, <1>12
<1> QED
  BY <1>10, <1>11, <1>12

LEMMA NoneBetween ==
    ASSUME NEW ts, NEW P, Situation(ts, P), NEW i \in 0 .. Len(ts), NEW j \in i .. Len(ts),
           \A k \in i + 1 .. j : ~ In(ts, P, k)
    PROVE  P[j].rint = P[i].rint /\ P[j].rsse = P[i].rsse
<1>1. PICK n \in Nat : n = Len(ts)
  BY DEF Situation
<1>3. PICK A : A = {m \in i .. j : P[m].rint = P[i].rint /\ P[m].rsse = P[i].rsse}
  OBVIOUS
<1>4. i \in A /\ i \in Nat
  BY <1>1, <1>3
<1>5. ASSUME NEW m \in i + 1 .. j, m - 1 \in A PROVE m \in A
  <2>1. m - 1 \in 0 .. n /\ m \in 1 .. n /\ m \in i .. j
    BY <1>1, <1>5
  <2>2. ~ In(ts, P, m)
    OBVIOUS
  <2>3. P[m].rint = P[m - 1].rint /\ P[m].rsse = P[m - 1].rsse
    BY <1>1, <2>1, <2>2, MarkedIn
  <2> QED
    BY <1>3, <1>5, <2>1, <2>3
<1>6. \A m \in i .. j : m \in A
  <2>1. j \in Nat
    BY <1>1
  <2> QED
    BY <1>4, <1>5, <2>1, Upwards
<1>7. j \in i .. j
  BY <1>1
<1> QED
  BY <1>3, <1>6, <1>7

LEMMA StackMarks ==
    ASSUME NEW ts, NEW P, Situation(ts, P), NEW k \in 1 .. Len(ts)
    PROVE  /\ In(ts, P, k) => P[k].end = P[k - 1].end
           /\ ~ In(ts, P, k) /\ TypeAlign(ts[k]) = 1 => P[k].end = P[k - 1].end + TypeSize(ts[k])
           /\ ~ In(ts, P, k) /\ TypeAlign(ts[k]) = 2 =>
                 P[k].end = UpTo(P[k - 1].end, 2) + TypeSize(ts[k]) /\ P[k].end % 2 = 0
           /\ ~ In(ts, P, k) => Start(ts, P, k) = UpTo(P[k - 1].end, TypeAlign(ts[k]))
           /\ ~ In(ts, P, k) => Start(ts, P, k) \in Nat /\ Start(ts, P, k) >= P[k - 1].end
<1>1. k - 1 \in 0 .. Len(ts) /\ k \in 0 .. Len(ts)
  BY DEF Situation
<1>2. P[k - 1].end \in Nat /\ P[k].end \in Nat
  BY <1>1, MarksAre
<1>3. TypeSize(ts[k]) \in Nat /\ TypeAlign(ts[k]) \in {1, 2} /\ (TypeAlign(ts[k]) = 2 => TypeSize(ts[k]) % 2 = 0)
  BY TypeFacts
<1>4. P[k].end = IF In(ts, P, k) THEN P[k - 1].end
                 ELSE UpTo(P[k - 1].end, TypeAlign(ts[k])) + TypeSize(ts[k])
  BY MarkedEnd
<1>5. PICK u \in Nat : u = UpTo(P[k - 1].end, TypeAlign(ts[k])) /\ u >= P[k - 1].end
  BY <1>2, <1>3, UpToIs
<1>6. PICK d \in Nat : d = UpTo(P[k - 1].end, 2) /\ d % 2 = 0
  BY <1>2, UpToIs
<1>7. UpTo(P[k - 1].end, 1) = P[k - 1].end
  BY <1>2, UpToIs
<1>8. ~ In(ts, P, k) => Start(ts, P, k) = u
  BY <1>2, <1>3, <1>4, <1>5 DEF Start
<1>9. ~ In(ts, P, k) /\ TypeAlign(ts[k]) = 2 => P[k].end % 2 = 0
  <2>1. SUFFICES ASSUME ~ In(ts, P, k), TypeAlign(ts[k]) = 2 PROVE P[k].end % 2 = 0
    OBVIOUS
  <2>2. PICK z \in Nat : z = TypeSize(ts[k]) /\ z % 2 = 0
    BY <1>3, <2>1
  <2>3. P[k].end = d + z
    BY <1>4, <1>6, <2>1, <2>2
  <2>4. (d + z) % 2 = 0
    BY <1>6, <2>2, EvenSum
  <2> QED
    BY <2>3, <2>4
<1>10. In(ts, P, k) => P[k].end = P[k - 1].end
  BY <1>4
<1>11. ~ In(ts, P, k) /\ TypeAlign(ts[k]) = 1 => P[k].end = P[k - 1].end + TypeSize(ts[k])
  BY <1>4, <1>7
<1>12. ~ In(ts, P, k) /\ TypeAlign(ts[k]) = 2 => P[k].end = UpTo(P[k - 1].end, 2) + TypeSize(ts[k])
  BY <1>4
<1> QED
  BY <1>5, <1>8, <1>9, <1>10, <1>11, <1>12

-----------------------------------------------------------------------------
(* The arguments that are left, and what lies on the stack                 *)

LEMMA RemovedIs ==
    ASSUME NEW S, NEW q \in Seq(S), NEW k \in 1 .. Len(q), NEW b, b = RemoveAt(q, k)
    PROVE  /\ b \in Seq(S) /\ Len(b) = Len(q) - 1
           /\ \A p \in 1 .. Len(q) - 1 : b[p] = q[IF p < k THEN p ELSE p + 1]
<1>1. PICK n \in Nat : n = Len(q)
  OBVIOUS
<1>2. PICK c : c = SubSeq(q, 1, k - 1)
  OBVIOUS
<1>3. PICK d : d = SubSeq(q, k + 1, n)
  OBVIOUS
<1>4. c \in Seq(S) /\ Len(c) = k - 1 /\ \A i \in 1 .. k - 1 : c[i] = q[i]
  <2>1. \A i \in 1 .. k - 1 : q[i] \in S
    BY <1>1
  <2> QED
    BY <1>2, <2>1, SubSeqProperties
<1>5. d \in Seq(S) /\ Len(d) = n - k /\ \A i \in 1 .. n - k : d[i] = q[i + k]
  <2>1. \A i \in k + 1 .. n : q[i] \in S
    BY <1>1
  <2> QED
    BY <1>1, <1>3, <2>1, SubSeqProperties
<1>6. b = c \o d
  BY <1>1, <1>2, <1>3 DEF RemoveAt
<1>7. b \in Seq(S) /\ Len(b) = n - 1
  BY <1>1, <1>4, <1>5, <1>6, ConcatProperties
<1>8. ASSUME NEW p \in 1 .. n - 1 PROVE b[p] = q[IF p < k THEN p ELSE p + 1]
  <2>1. b[p] = IF p <= k - 1 THEN c[p] ELSE d[p - (k - 1)]
    BY <1>1, <1>4, <1>5, <1>6, ConcatProperties
  <2>2. CASE p < k
    BY <1>4, <2>1, <2>2
  <2>3. CASE p >= k
    <3>1. p - (k - 1) \in 1 .. n - k /\ (p - (k - 1)) + k = p + 1
      BY <2>3
    <3> QED
      BY <1>5, <2>1, <2>3, <3>1
  <2> QED
    BY <2>2, <2>3
<1> QED
  BY <1>1, <1>7, <1>8

\* us has the arguments from the last to the first, but for those on the stack from
\* the (Len(us) - f + 1)-th on; f is the number of those that are kept.
Listed(ts, P, us, f) ==
    /\ us \in Seq(1 .. Len(ts))
    /\ f \in 0 .. Len(us)
    /\ \A p, q \in 1 .. Len(us) : p < q => us[p] > us[q]
    /\ \A p \in f + 1 .. Len(us) : us[p] = Len(us) + 1 - p
    /\ \A p \in 1 .. f : In(ts, P, us[p])
    /\ \A a \in Len(us) - f + 1 .. Len(ts) : In(ts, P, a) => \E p \in 1 .. f : us[p] = a

LEMMA ListIs ==
    ASSUME NEW ts, NEW P, Situation(ts, P), NEW us, NEW f, Listed(ts, P, us, f)
    PROVE  /\ us \in Seq(1 .. Len(ts)) /\ Len(ts) \in Nat
           /\ Len(us) \in Nat /\ f \in 0 .. Len(us) /\ Len(us) - f \in 0 .. Len(ts)
           /\ f < Len(us) => us[f + 1] = Len(us) - f /\ Len(us) - f \in 1 .. Len(ts)
<1>1. PICK N \in Nat : N = Len(ts)
  BY DEF Situation
<1>2. us \in Seq(1 .. N)
  BY <1>1 DEF Listed
<1>3. PICK n \in Nat : n = Len(us)
  BY <1>2
<1>4. f \in 0 .. n
  BY <1>3 DEF Listed
<1>5. ASSUME f < n PROVE us[f + 1] = n - f /\ n - f \in 1 .. N
  <2>1. f + 1 \in f + 1 .. n /\ f + 1 \in 1 .. n
    BY <1>4, <1>5
  <2>2. \A p \in f + 1 .. n : us[p] = n + 1 - p
    BY <1>3 DEF Listed
  <2>3. us[f + 1] = n + 1 - (f + 1)
    BY <2>1, <2>2
  <2>4. us[f + 1] \in 1 .. N
    BY <1>2, <1>3, <2>1
  <2> QED
    BY <1>4, <2>3, <2>4
<1>6. n - f \in 0 .. N
  BY <1>4, <1>5
<1> QED
  BY <1>1, <1>2, <1>3, <1>4, <1>5, <1>6

LEMMA ListStored ==
    ASSUME NEW ts, NEW P, Situation(ts, P), NEW us, NEW f, Listed(ts, P, us, f), f < Len(us),
           ~ In(ts, P, Len(us) - f), NEW b, b = RemoveAt(us, f + 1)
    PROVE  Listed(ts, P, b, f) /\ Len(b) = Len(us) - 1
           /\ \A p \in 1 .. Len(us) - 1 : b[p] = us[IF p <= f THEN p ELSE p + 1]
<1>1. PICK n \in Nat : n = Len(us) /\ n > 0
  BY ListIs
<1>2. f \in 0 .. n - 1
  BY <1>1, ListIs
<1>3. us \in Seq(1 .. Len(ts)) /\ Len(ts) \in Nat
  BY DEF Listed, Situation
<1>4. /\ b \in Seq(1 .. Len(ts)) /\ Len(b) = n - 1
      /\ \A p \in 1 .. n - 1 : b[p] = us[IF p < f + 1 THEN p ELSE p + 1]
  <2>1. f + 1 \in 1 .. Len(us)
    BY <1>1, <1>2
  <2>2. PICK V : V = 1 .. Len(ts)
    OBVIOUS
  <2>3. us \in Seq(V)
    BY <1>3, <2>2
  <2>4. /\ b \in Seq(V) /\ Len(b) = Len(us) - 1
        /\ \A p \in 1 .. Len(us) - 1 : b[p] = us[IF p < f + 1 THEN p ELSE p + 1]
    BY <2>1, <2>3, RemovedIs
  <2> QED
    BY <1>1, <2>2, <2>4
<1>5. \A p \in 1 .. n - 1 : b[p] = us[IF p <= f THEN p ELSE p + 1]
  BY <1>2, <1>4
<1>6. ASSUME NEW p \in 1 .. n - 1, NEW q \in 1 .. n - 1, p < q PROVE b[p] > b[q]
  <2>1. PICK i \in 1 .. n : i = (IF p <= f THEN p ELSE p + 1) /\ b[p] = us[i]
    BY <1>2, <1>5
  <2>2. PICK k \in 1 .. n : k = (IF q <= f THEN q ELSE q + 1) /\ b[q] = us[k]
    BY <1>2, <1>5, SMTT(30)
  <2>3. i < k
    BY <1>2, <1>6, <2>1, <2>2
  <2> QED
    BY <1>1, <2>1, <2>2, <2>3 DEF Listed
<1>7. ASSUME NEW p \in f + 1 .. n - 1 PROVE b[p] = (n - 1) + 1 - p
  <2>1. p \in 1 .. n - 1 /\ ~ (p <= f) /\ p + 1 \in f + 1 .. n
    BY <1>2
  <2>2. b[p] = us[p + 1]
    BY <1>5, <2>1
  <2>3. us[p + 1] = n + 1 - (p + 1)
    BY <1>1, <2>1 DEF Listed
  <2> QED
    BY <2>2, <2>3
<1>8. ASSUME NEW p \in 1 .. f PROVE In(ts, P, b[p])
  <2>1. p \in 1 .. n - 1 /\ p <= f
    BY <1>2
  <2>2. b[p] = us[p]
    BY <1>5, <2>1
  <2> QED
    BY <2>2 DEF Listed
<1>9. ASSUME NEW a \in (n - 1) - f + 1 .. Len(ts), In(ts, P, a) PROVE \E p \in 1 .. f : b[p] = a
  <2>1. a # n - f
    BY <1>1, <1>9
  <2>2. a \in n - f + 1 .. Len(ts)
    BY <1>2, <2>1
  <2>3. PICK p \in 1 .. f : us[p] = a
    BY <1>1, <1>9, <2>2 DEF Listed
  <2>4. p \in 1 .. n - 1 /\ p <= f
    BY <1>2
  <2> QED
    BY <1>5, <2>3, <2>4
<1>10. f \in 0 .. Len(b)
  BY <1>2, <1>4
<1>11. Listed(ts, P, b, f)
  BY <1>4, <1>6, <1>7, <1>8, <1>9, <1>10 DEF Listed
<1> QED
  BY <1>1, <1>4, <1>5, <1>11

LEMMA ListKept ==
    ASSUME NEW ts, NEW P, Situation(ts, P), NEW us, NEW f, Listed(ts, P, us, f), f < Len(us),
           In(ts, P, Len(us) - f)
    PROVE  Listed(ts, P, us, f + 1)
<1>1. PICK n \in Nat : n = Len(us) /\ n > 0
  BY ListIs
<1>2. f \in 0 .. n - 1 /\ us[f + 1] = n - f
  BY <1>1, ListIs
<1>3. us \in Seq(1 .. Len(ts)) /\ Len(ts) \in Nat /\ \A p, q \in 1 .. n : p < q => us[p] > us[q]
  BY <1>1 DEF Listed, Situation
<1>4. ASSUME NEW p \in (f + 1) + 1 .. n PROVE us[p] = n + 1 - p
  <2>1. p \in f + 1 .. n
    BY <1>2
  <2> QED
    BY <1>1, <2>1 DEF Listed
<1>5. ASSUME NEW p \in 1 .. f + 1 PROVE In(ts, P, us[p])
  <2>1. CASE p \in 1 .. f
    BY <2>1 DEF Listed
  <2>2. CASE p = f + 1
    BY <1>1, <1>2, <2>2
  <2> QED
    BY <1>2, <2>1, <2>2
<1>6. ASSUME NEW a \in n - (f + 1) + 1 .. Len(ts), In(ts, P, a) PROVE \E p \in 1 .. f + 1 : us[p] = a
  <2>1. CASE a = n - f
    <3>1. f + 1 \in 1 .. f + 1
      BY <1>2
    <3> QED
      BY <1>2, <2>1, <3>1
  <2>2. CASE a # n - f
    <3>1. a \in n - f + 1 .. Len(ts)
      BY <1>2, <2>2
    <3>2. PICK p \in 1 .. f : us[p] = a
      BY <1>1, <1>6, <3>1 DEF Listed
    <3>3. p \in 1 .. f + 1
      BY <1>2
    <3> QED
      BY <3>2, <3>3
  <2> QED
    BY <2>1, <2>2
<1>7. f + 1 \in 0 .. Len(us)
  BY <1>1, <1>2
<1> QED
  BY <1>1, <1>3, <1>4, <1>5, <1>6, <1>7 DEF Listed

WordSet == (Nat \X Nat) \cup {Garbage}

StackSize(ts, P) == UpTo(P[Len(ts)].end, 2)

\* The arguments on the stack after the j-th are there, the top of the stack being
\* at the address o; n0 is the number of the first argument.
Laid(ts, P, n0, ps, o, j) ==
    /\ o \in 0 .. StackSize(ts, P) /\ ps \in Seq(WordSet) /\ Len(ps) = StackSize(ts, P) - o
    /\ \A a \in j + 1 .. Len(ts) : ~ In(ts, P, a) =>
          /\ Start(ts, P, a) >= o
          /\ \A k \in 1 .. TypeSize(ts[a]) : ps[Start(ts, P, a) - o + k] = <<n0 + a - 1, k>>

LEMMA StackSizeIs ==
    ASSUME NEW ts, NEW P, Situation(ts, P)
    PROVE  /\ StackSize(ts, P) \in Nat /\ StackSize(ts, P) % 2 = 0
           /\ \A a \in 1 .. Len(ts) : P[a].end <= StackSize(ts, P)
<1>1. Len(ts) \in Nat
  BY DEF Situation
<1>2. PICK e \in Nat : e = P[Len(ts)].end
  BY <1>1, MarksAre
<1>3. UpTo(e, 2) \in Nat /\ UpTo(e, 2) >= e /\ UpTo(e, 2) % 2 = 0
  BY UpToIs
<1>4. ASSUME NEW a \in 1 .. Len(ts) PROVE P[a].end <= e
  <2>1. a \in 0 .. Len(ts) /\ Len(ts) \in a .. Len(ts)
    BY <1>1
  <2> QED
    BY <1>2, <2>1, Growing
<1>5. \A a \in 1 .. Len(ts) : P[a].end \in Nat
  BY <1>1, MarksAre
<1> QED
  BY <1>2, <1>3, <1>4, <1>5 DEF StackSize

LEMMA LaidPush ==
    ASSUME NEW ts, NEW P, Situation(ts, P), NEW n0 \in Nat, NEW ps, NEW o, NEW j \in 0 .. Len(ts),
           Laid(ts, P, n0, ps, o, j), NEW w \in Seq(WordSet), Len(w) <= o
    PROVE  Laid(ts, P, n0, w \o ps, o - Len(w), j)
<1>1. PICK S \in Nat : S = StackSize(ts, P)
  BY StackSizeIs
<1>2. PICK l \in Nat : l = Len(w)
  OBVIOUS
<1>3. o \in 0 .. S /\ ps \in Seq(WordSet) /\ Len(ps) = S - o
  BY <1>1 DEF Laid
<1>4. PICK qs : qs = w \o ps
  OBVIOUS
<1>5. /\ qs \in Seq(WordSet) /\ Len(qs) = l + (S - o)
      /\ \A i \in 1 .. l + (S - o) : qs[i] = IF i <= l THEN w[i] ELSE ps[i - l]
  <2>1. PICK V : V = WordSet
    OBVIOUS
  <2>2. w \in Seq(V) /\ ps \in Seq(V)
    BY <1>3, <2>1
  <2>3. /\ qs \in Seq(V) /\ Len(qs) = Len(w) + Len(ps)
        /\ \A i \in 1 .. Len(w) + Len(ps) : qs[i] = IF i <= Len(w) THEN w[i] ELSE ps[i - Len(w)]
    BY <1>4, <2>2, ConcatProperties
  <2> QED
    BY <1>2, <1>3, <2>1, <2>3
<1>6. ASSUME NEW a \in j + 1 .. Len(ts), ~ In(ts, P, a)
      PROVE  /\ Start(ts, P, a) >= o - l
             /\ \A k \in 1 .. TypeSize(ts[a]) : qs[Start(ts, P, a) - (o - l) + k] = <<n0 + a - 1, k>>
  <2>1. a \in 1 .. Len(ts)
    BY DEF Situation
  <2>2. PICK s \in Nat : s = Start(ts, P, a)
    BY <1>6, <2>1, StackMarks
  <2>3. PICK z \in Nat : z = TypeSize(ts[a])
    BY <2>1, TypeFacts
  <2>4. P[a].end \in Nat /\ P[a].end <= S
    BY <1>1, <2>1, StackSizeIs, MarksAre
  <2>5. s + z <= S
    BY <2>2, <2>3, <2>4 DEF Start
  <2>6. s >= o /\ \A k \in 1 .. z : ps[s - o + k] = <<n0 + a - 1, k>>
    BY <1>6, <2>2, <2>3 DEF Laid
  <2>7. ASSUME NEW k \in 1 .. z PROVE qs[s - (o - l) + k] = <<n0 + a - 1, k>>
    <3>1. s - (o - l) + k \in 1 .. l + (S - o) /\ ~ (s - (o - l) + k <= l)
          /\ (s - (o - l) + k) - l = s - o + k
      BY <1>3, <2>5, <2>6
    <3>2. qs[s - (o - l) + k] = ps[s - o + k]
      BY <1>5, <3>1
    <3> QED
      BY <2>6, <3>2
  <2>8. s >= o - l
    BY <1>3, <2>6
  <2> QED
    BY <2>2, <2>3, <2>7, <2>8
<1>7. o - l \in 0 .. S /\ l + (S - o) = S - (o - l)
  BY <1>2, <1>3
<1> QED
  BY <1>1, <1>2, <1>4, <1>5, <1>6, <1>7 DEF Laid

\* The next argument goes on top.
LEMMA LaidStored ==
    ASSUME NEW ts, NEW P, Situation(ts, P), NEW n0 \in Nat, NEW ps, NEW o, NEW j \in 1 .. Len(ts),
           Laid(ts, P, n0, ps, o, j), ~ In(ts, P, j), o = P[j].end,
           NEW w, w = Words(n0 + j - 1, ts[j])
    PROVE  Laid(ts, P, n0, w \o ps, Start(ts, P, j), j - 1)
<1>1. PICK z \in Nat : z = TypeSize(ts[j])
  BY TypeFacts
<1>2. w = [k \in 1 .. z |-> <<n0 + j - 1, k>>]
  BY <1>1 DEF Words
<1>3. w \in Seq(WordSet) /\ Len(w) = z /\ \A k \in 1 .. z : w[k] = <<n0 + j - 1, k>>
  <2>1. \A k \in 1 .. z : <<n0 + j - 1, k>> \in WordSet
    BY DEF WordSet
  <2> QED
    BY <1>2, <2>1
<1>4. PICK s \in Nat : s = Start(ts, P, j)
  BY StackMarks
<1>5. o \in Nat /\ s = o - z /\ z <= o
  BY <1>1, <1>4, MarksAre DEF Start
<1>6. PICK qs : qs = w \o ps
  OBVIOUS
<1>7. Laid(ts, P, n0, qs, s, j)
  <2>1. j \in 0 .. Len(ts)
    OBVIOUS
  <2> QED
    BY <1>3, <1>5, <1>6, <2>1, LaidPush
<1>8. \A k \in 1 .. z : qs[k] = <<n0 + j - 1, k>>
  <2>1. ps \in Seq(WordSet)
    BY DEF Laid
  <2> QED
    BY <1>3, <1>6, <2>1, ConcatProperties
<1>9. ASSUME NEW a \in (j - 1) + 1 .. Len(ts), ~ In(ts, P, a)
      PROVE  /\ Start(ts, P, a) >= s
             /\ \A k \in 1 .. TypeSize(ts[a]) : qs[Start(ts, P, a) - s + k] = <<n0 + a - 1, k>>
  <2>1. CASE a = j
    <3>1. \A k \in 1 .. z : s - s + k = k
      OBVIOUS
    <3> QED
      BY <1>1, <1>4, <1>8, <2>1, <3>1
  <2>2. CASE a # j
    <3>1. a \in j + 1 .. Len(ts)
      BY <2>2
    <3> QED
      BY <1>7, <1>9, <3>1 DEF Laid
  <2> QED
    BY <2>1, <2>2
<1> QED
  BY <1>4, <1>6, <1>7, <1>9 DEF Laid

LEMMA LaidKept ==
    ASSUME NEW ts, NEW P, Situation(ts, P), NEW n0 \in Nat, NEW ps, NEW o, NEW j \in 1 .. Len(ts),
           Laid(ts, P, n0, ps, o, j), In(ts, P, j)
    PROVE  Laid(ts, P, n0, ps, o, j - 1)
<1>1. ASSUME NEW a \in (j - 1) + 1 .. Len(ts), ~ In(ts, P, a)
      PROVE  a \in j + 1 .. Len(ts)
  BY <1>1
<1> QED
  BY <1>1 DEF Laid

Larger(x, y) == IF x > y THEN x ELSE y

\* The registers that are still counted after the j-th argument has been reached
Counted(ts, P, g, s, j) == /\ g = Larger(P[j].int, P[Len(ts)].rint)
                           /\ s = Larger(P[j].sse, P[Len(ts)].rsse)

LEMMA CountFacts ==
    ASSUME NEW ts, NEW P, Situation(ts, P), NEW j \in 1 .. Len(ts)
    PROVE  /\ P[j].int \in Nat /\ P[j - 1].int \in Nat /\ P[j].sse \in Nat /\ P[j - 1].sse \in Nat
           /\ P[Len(ts)].rint \in 0 .. REGN /\ P[Len(ts)].rsse \in 0 .. SSEN
           /\ P[j - 1].int <= P[j].int /\ P[j - 1].sse <= P[j].sse
           /\ P[j - 1].rint <= P[j - 1].int /\ P[j - 1].rsse <= P[j - 1].sse
<1>1. Len(ts) \in 0 .. Len(ts) /\ j \in 0 .. Len(ts) /\ j - 1 \in 0 .. Len(ts) /\ j \in j - 1 .. Len(ts)
  BY DEF Situation
<1>2. REGN \in Nat /\ SSEN \in Nat
  BY CallAssumption
<1>3. P[Len(ts)].rint \in 0 .. REGN /\ P[Len(ts)].rsse \in 0 .. SSEN
  <2>1. P[Len(ts)].rint \in Nat /\ P[Len(ts)].rsse \in Nat
    BY <1>1, MarksAre
  <2>2. P[Len(ts)].rint <= REGN /\ P[Len(ts)].rsse <= SSEN
    BY <1>1, RegsUsed
  <2> QED
    BY <1>2, <2>1, <2>2
<1>4. P[j - 1].int <= P[j].int /\ P[j - 1].sse <= P[j].sse
  BY <1>1, Growing
<1>5. P[j - 1].rint <= P[j - 1].int /\ P[j - 1].rsse <= P[j - 1].sse
  BY <1>1, RegsUsed
<1> QED
  BY <1>1, <1>3, <1>4, <1>5, MarksAre

LEMMA CountKept ==
    ASSUME NEW ts, NEW P, Situation(ts, P), NEW j \in 1 .. Len(ts), NEW g, NEW s,
           Counted(ts, P, g, s, j), In(ts, P, j)
    PROVE  Counted(ts, P, g, s, j - 1)
<1>1. PICK r \in 0 .. REGN : r = P[Len(ts)].rint
  BY CountFacts
<1>2. PICK q \in 0 .. SSEN : q = P[Len(ts)].rsse
  BY CountFacts
<1>3. REGN \in Nat /\ SSEN \in Nat
  BY CallAssumption
<1>4. \/ Mode(ts[j]) = "integer" /\ P[j].int <= REGN /\ P[j].sse = P[j - 1].sse
      \/ Mode(ts[j]) = "sse" /\ P[j].sse <= SSEN /\ P[j].int = P[j - 1].int
  BY MarkedIn DEF In, Fits
<1>5. /\ P[j].int <= REGN => P[j].int <= r
      /\ P[j].sse <= SSEN => P[j].sse <= q
  <2>1. j \in 0 .. Len(ts) /\ Len(ts) \in j .. Len(ts)
    BY DEF Situation
  <2>2. P[j].rint <= r /\ P[j].rsse <= q
    BY <1>1, <1>2, <2>1, RegsGrow
  <2> QED
    BY <2>1, <2>2, RegsUsed
<1>6. /\ P[j].int \in Nat /\ P[j - 1].int \in Nat /\ P[j].sse \in Nat /\ P[j - 1].sse \in Nat
      /\ P[j - 1].int <= P[j].int /\ P[j - 1].sse <= P[j].sse
  BY CountFacts
<1>7. g = Larger(P[j].int, r) /\ s = Larger(P[j].sse, q)
  BY <1>1, <1>2 DEF Counted
<1>8. CASE P[j].int <= REGN /\ P[j].sse = P[j - 1].sse
  <2>1. Larger(P[j - 1].int, r) = r /\ Larger(P[j].int, r) = r
    BY <1>5, <1>6, <1>8 DEF Larger
  <2> QED
    BY <1>1, <1>2, <1>7, <1>8, <2>1 DEF Counted
<1>9. CASE P[j].sse <= SSEN /\ P[j].int = P[j - 1].int
  <2>1. Larger(P[j - 1].sse, q) = q /\ Larger(P[j].sse, q) = q
    BY <1>5, <1>6, <1>9 DEF Larger
  <2> QED
    BY <1>1, <1>2, <1>7, <1>9, <2>1 DEF Counted
<1> QED
  BY <1>4, <1>8, <1>9

\* The tests of the code whether an argument is in registers
LEMMA CountTests ==
    ASSUME NEW ts, NEW P, Situation(ts, P), NEW j \in 1 .. Len(ts), NEW g, NEW s,
           Counted(ts, P, g, s, j), NEW i \in 1 .. j
    PROVE  /\ g - (P[j].int - P[i].int) > REGN <=> P[i].int > REGN
           /\ s - (P[j].sse - P[i].sse) > SSEN <=> P[i].sse > SSEN
           /\ g \in Nat /\ s \in Nat
<1>1. PICK r \in 0 .. REGN : r = P[Len(ts)].rint
  BY CountFacts
<1>2. PICK q \in 0 .. SSEN : q = P[Len(ts)].rsse
  BY CountFacts
<1>3. REGN \in Nat /\ SSEN \in Nat
  BY CallAssumption
<1>4. i \in 0 .. Len(ts) /\ j \in i .. Len(ts) /\ j \in 0 .. Len(ts)
  BY DEF Situation
<1>5. P[i].int <= P[j].int /\ P[i].sse <= P[j].sse
  BY <1>4, Growing
<1>6. P[i].int \in Nat /\ P[j].int \in Nat /\ P[i].sse \in Nat /\ P[j].sse \in Nat
  BY <1>4, MarksAre
<1>7. g = Larger(P[j].int, r) /\ s = Larger(P[j].sse, q)
  BY <1>1, <1>2 DEF Counted
<1>8. g - (P[j].int - P[i].int) > REGN <=> P[i].int > REGN
  BY <1>3, <1>5, <1>6, <1>7 DEF Larger
<1>9. s - (P[j].sse - P[i].sse) > SSEN <=> P[i].sse > SSEN
  BY <1>3, <1>5, <1>6, <1>7 DEF Larger
<1>10. g \in Nat /\ s \in Nat
  BY <1>6, <1>7 DEF Larger
<1> QED
  BY <1>8, <1>9, <1>10

LEMMA CountStored ==
    ASSUME NEW ts, NEW P, Situation(ts, P), NEW j \in 1 .. Len(ts), NEW g, NEW s,
           Counted(ts, P, g, s, j), ~ In(ts, P, j)
    PROVE  Counted(ts, P, IF Mode(ts[j]) = "integer" THEN g - RegCount(ts[j]) ELSE g,
                          IF Mode(ts[j]) = "sse" THEN s - RegCount(ts[j]) ELSE s, j - 1)
<1>1. PICK r \in 0 .. REGN : r = P[Len(ts)].rint
  BY CountFacts
<1>2. PICK q \in 0 .. SSEN : q = P[Len(ts)].rsse
  BY CountFacts
<1>3. REGN \in Nat /\ SSEN \in Nat
  BY CallAssumption
<1>4. /\ P[j].int \in Nat /\ P[j - 1].int \in Nat /\ P[j].sse \in Nat /\ P[j - 1].sse \in Nat
      /\ P[j - 1].rint <= P[j - 1].int /\ P[j - 1].rsse <= P[j - 1].sse
  BY CountFacts
<1>5. g = Larger(P[j].int, r) /\ s = Larger(P[j].sse, q)
  BY <1>1, <1>2 DEF Counted
<1>6. PICK c \in {1, 2} : c = RegCount(ts[j])
  BY TypeFacts
<1>7. /\ P[j].int = P[j - 1].int + (IF Mode(ts[j]) = "integer" THEN c ELSE 0)
      /\ P[j].sse = P[j - 1].sse + (IF Mode(ts[j]) = "sse" THEN c ELSE 0)
  <2>1. P[j].int = P[j - 1].int + Part("integer", ts[j]) /\ P[j].sse = P[j - 1].sse + Part("sse", ts[j])
    BY Marked
  <2> QED
    BY <1>6, <2>1 DEF Part
<1>8. /\ Mode(ts[j]) = "integer" => P[j].int > REGN
      /\ Mode(ts[j]) = "sse" => P[j].sse > SSEN
  BY <1>3, <1>4 DEF In, Fits
<1>9. /\ P[j].int > REGN => r = P[j - 1].rint
      /\ P[j].sse > SSEN => q = P[j - 1].rsse
  BY <1>1, <1>2, RegsFrozen
<1>10. (IF Mode(ts[j]) = "integer" THEN g - c ELSE g) = Larger(P[j - 1].int, r)
  <2>1. CASE Mode(ts[j]) = "integer"
    <3>1. P[j].int = P[j - 1].int + c /\ P[j].int > REGN /\ r <= P[j - 1].int
      BY <1>4, <1>7, <1>8, <1>9, <2>1
    <3>2. g = P[j].int /\ Larger(P[j - 1].int, r) = P[j - 1].int
      BY <1>3, <1>4, <1>5, <3>1 DEF Larger
    <3> QED
      BY <1>4, <2>1, <3>1, <3>2
  <2>2. CASE Mode(ts[j]) # "integer"
    BY <1>4, <1>5, <1>7, <2>2
  <2> QED
    BY <2>1, <2>2
<1>11. (IF Mode(ts[j]) = "sse" THEN s - c ELSE s) = Larger(P[j - 1].sse, q)
  <2>1. CASE Mode(ts[j]) = "sse"
    <3>1. P[j].sse = P[j - 1].sse + c /\ P[j].sse > SSEN /\ q <= P[j - 1].sse
      BY <1>4, <1>7, <1>8, <1>9, <2>1
    <3>2. s = P[j].sse /\ Larger(P[j - 1].sse, q) = P[j - 1].sse
      BY <1>3, <1>4, <1>5, <3>1 DEF Larger
    <3> QED
      BY <1>4, <2>1, <3>1, <3>2
  <2>2. CASE Mode(ts[j]) # "sse"
    BY <1>4, <1>5, <1>7, <2>2
  <2> QED
    BY <2>1, <2>2
<1> QED
  BY <1>1, <1>2, <1>6, <1>10, <1>11 DEF Counted

-----------------------------------------------------------------------------
(* The runs of gfunc_call                                                  *)

LEMMA NeededBack ==
    ASSUME NEW ts, NEW P, Situation(ts, P), NEW j \in 0 .. Len(ts), NEW m \in 0 .. j,
           NEW us \in [1 .. m -> CTypes], \A p \in 1 .. m : us[p] = ts[j + 1 - p]
    PROVE  /\ Needed("integer", us) = P[j].int - P[j - m].int
           /\ Needed("sse", us) = P[j].sse - P[j - m].sse
<1>1. PICK N \in Nat : N = Len(ts)
  BY DEF Situation
<1>2. m \in Nat /\ j \in Nat /\ j - m \in 0 .. N
  BY <1>1
<1>3. ASSUME NEW k \in 1 .. m
      PROVE  /\ j + 1 - k \in 1 .. N /\ j - k \in 0 .. N /\ j + 1 - k \in 0 .. N
             /\ (j + 1 - k) - 1 = j - k /\ j - (k - 1) = j + 1 - k
  BY <1>1, <1>2
<1>4. PICK f : f = [p \in 0 .. m |-> P[j].int - P[j - p].int]
  OBVIOUS
<1>5. PICK g : g = [p \in 0 .. m |-> P[j].sse - P[j - p].sse]
  OBVIOUS
<1>6. P[j].int \in Nat /\ P[j].sse \in Nat
  BY MarksAre
<1>7. f[0] = 0 /\ g[0] = 0
  BY <1>2, <1>4, <1>5, <1>6
<1>8. ASSUME NEW k \in 1 .. m
      PROVE  f[k] = f[k - 1] + Part("integer", us[k]) /\ g[k] = g[k - 1] + Part("sse", us[k])
  <2>1. PICK i \in 1 .. N : i = j + 1 - k /\ i - 1 = j - k /\ j - (k - 1) = i /\ i - 1 \in 0 .. N /\ i \in 0 .. N
    BY <1>3
  <2>2. us[k] = ts[i]
    BY <2>1
  <2>3. /\ P[i].int = P[i - 1].int + Part("integer", ts[i])
        /\ P[i].sse = P[i - 1].sse + Part("sse", ts[i])
    <3>1. i \in 1 .. Len(ts)
      BY <1>1
    <3> QED
      BY <3>1, Marked
  <2>4. P[i].int \in Nat /\ P[i - 1].int \in Nat /\ P[i].sse \in Nat /\ P[i - 1].sse \in Nat
    BY <1>1, <2>1, MarksAre
  <2>5. f[k] = P[j].int - P[i - 1].int /\ f[k - 1] = P[j].int - P[i].int
    BY <1>4, <2>1
  <2>6. g[k] = P[j].sse - P[i - 1].sse /\ g[k - 1] = P[j].sse - P[i].sse
    BY <1>5, <2>1
  <2>7. PICK a \in Nat : a = Part("integer", ts[i])
    BY <1>1, PartIs
  <2>8. PICK b \in Nat : b = Part("sse", ts[i])
    BY <1>1, PartIs
  <2>9. f[k] = f[k - 1] + a
    <3>1. PICK x \in Nat, y \in Nat, z \in Nat : x = P[i].int /\ y = P[i - 1].int /\ z = P[j].int
      BY <2>4, <1>6
    <3>2. x = y + a /\ f[k] = z - y /\ f[k - 1] = z - x
      BY <2>3, <2>5, <2>7, <3>1
    <3> QED
      BY <3>2
  <2>10. g[k] = g[k - 1] + b
    <3>1. PICK x \in Nat, y \in Nat, z \in Nat : x = P[i].sse /\ y = P[i - 1].sse /\ z = P[j].sse
      BY <2>4, <1>6
    <3>2. x = y + b /\ g[k] = z - y /\ g[k - 1] = z - x
      BY <2>3, <2>6, <2>8, <3>1
    <3> QED
      BY <3>2
  <2> QED
    BY <2>2, <2>7, <2>8, <2>9, <2>10
<1>9. Needed("integer", us) = f[m]
  <2>1. Counts("integer", us, m, f)
    BY <1>7, <1>8 DEF Counts
  <2> QED
    BY <1>2, <2>1, NeededIs
<1>10. Needed("sse", us) = g[m]
  <2>1. Counts("sse", us, m, g)
    BY <1>7, <1>8 DEF Counts
  <2> QED
    BY <1>2, <2>1, NeededIs
<1>11. f[m] = P[j].int - P[j - m].int /\ g[m] = P[j].sse - P[j - m].sse
  BY <1>2, <1>4, <1>5
<1> QED
  BY <1>9, <1>10, <1>11

LEMMA NeededFront ==
    ASSUME NEW ts, NEW P, Situation(ts, P), NEW m \in 0 .. Len(ts),
           NEW us \in [1 .. m -> CTypes], \A p \in 1 .. m : us[p] = ts[p]
    PROVE  Needed("integer", us) = P[m].int /\ Needed("sse", us) = P[m].sse
<1>1. PICK N \in Nat : N = Len(ts)
  BY DEF Situation
<1>2. PICK f : f = [p \in 0 .. m |-> P[p].int]
  OBVIOUS
<1>3. PICK g : g = [p \in 0 .. m |-> P[p].sse]
  OBVIOUS
<1>4. m \in Nat
  BY <1>1
<1>5. f[0] = 0 /\ g[0] = 0
  BY <1>2, <1>3, <1>4, NoMarkIs
<1>6. ASSUME NEW k \in 1 .. m
      PROVE  f[k] = f[k - 1] + Part("integer", us[k]) /\ g[k] = g[k - 1] + Part("sse", us[k])
  <2>1. k \in 1 .. Len(ts) /\ k - 1 \in 0 .. m /\ k \in 0 .. m
    BY <1>1
  <2>2. /\ P[k].int = P[k - 1].int + Part("integer", ts[k])
        /\ P[k].sse = P[k - 1].sse + Part("sse", ts[k])
    BY <2>1, Marked
  <2> QED
    BY <1>2, <1>3, <2>1, <2>2
<1>7. Needed("integer", us) = f[m] /\ Needed("sse", us) = g[m]
  <2>1. Counts("integer", us, m, f) /\ Counts("sse", us, m, g)
    BY <1>5, <1>6 DEF Counts
  <2> QED
    BY <1>4, <2>1, NeededIs
<1> QED
  BY <1>2, <1>3, <1>4, <1>7

LEMMA MinIs ==
    ASSUME NEW I \in SUBSET Nat, I # {}
    PROVE  Min(I) \in I /\ \A i \in I : Min(I) <= i
<1>1. PICK m \in I : \A i \in I : ~ (i < m)
  BY NoLeast
<1>2. \A i \in I : m <= i
  BY <1>1
<1> QED
  BY <1>2 DEF Min

\* A run ends before the first argument on the stack that is aligned.
RunEnd(ts, P, us, f) ==
    LET aligned == {p \in f + 1 .. Len(us) : ~ In(ts, P, us[p]) /\ TypeAlign(ts[us[p]]) = 2}
    IN  IF aligned = {} THEN Len(us) ELSE Min(aligned) - 1

Unaligned(ts, P, us, f, e) ==
    /\ \A p \in f + 1 .. e : In(ts, P, us[p]) \/ TypeAlign(ts[us[p]]) = 1
    /\ e = Len(us) \/ (~ In(ts, P, us[e + 1]) /\ TypeAlign(ts[us[e + 1]]) = 2)

LEMMA RunEnds ==
    ASSUME NEW ts, NEW P, Situation(ts, P), NEW us, NEW f, Listed(ts, P, us, f),
           NEW e, e = RunEnd(ts, P, us, f)
    PROVE  e \in f .. Len(us) /\ Unaligned(ts, P, us, f, e)
<1>1. PICK n \in Nat : n = Len(us) /\ f \in 0 .. n
  BY ListIs
<1>2. us \in Seq(1 .. Len(ts))
  BY ListIs
<1>3. PICK A : A = {p \in f + 1 .. n : ~ In(ts, P, us[p]) /\ TypeAlign(ts[us[p]]) = 2}
  OBVIOUS
<1>4. e = IF A = {} THEN n ELSE Min(A) - 1
  BY <1>1, <1>3 DEF RunEnd
<1>5. \A p \in f + 1 .. n : p \in A \/ In(ts, P, us[p]) \/ TypeAlign(ts[us[p]]) = 1
  <2>1. TAKE p \in f + 1 .. n
  <2>2. us[p] \in 1 .. Len(ts)
    BY <1>1, <1>2
  <2>3. TypeAlign(ts[us[p]]) \in {1, 2}
    BY <2>2, TypeFacts
  <2> QED
    BY <1>3, <2>3
<1>6. CASE A = {}
  BY <1>1, <1>4, <1>5, <1>6 DEF Unaligned
<1>7. CASE A # {}
  <2>1. A \in SUBSET Nat
    BY <1>1, <1>3
  <2>2. PICK m \in A : m = Min(A) /\ \A i \in A : m <= i
    BY <1>7, <2>1, MinIs
  <2>3. m \in f + 1 .. n /\ ~ In(ts, P, us[m]) /\ TypeAlign(ts[us[m]]) = 2
    BY <1>3
  <2>4. e = m - 1 /\ e \in f .. n /\ e + 1 = m
    BY <1>1, <1>4, <1>7, <2>2, <2>3
  <2>5. ASSUME NEW p \in f + 1 .. e PROVE In(ts, P, us[p]) \/ TypeAlign(ts[us[p]]) = 1
    <3>1. p \in f + 1 .. n /\ ~ (m <= p)
      BY <1>1, <2>3, <2>4
    <3> QED
      BY <1>5, <2>2, <3>1
  <2> QED
    BY <1>1, <2>3, <2>4, <2>5 DEF Unaligned
<1> QED
  BY <1>6, <1>7

\* The words of a run on the stack
LEMMA RunSize ==
    ASSUME NEW ts, NEW P, Situation(ts, P), NEW us, NEW f, Listed(ts, P, us, f),
           NEW e \in f .. Len(us), Unaligned(ts, P, us, f, e),
           NEW w, w = [p \in DOMAIN us |->
                          IF p \in f + 1 .. e /\ ~ In(ts, P, us[p]) THEN TypeSize(ts[us[p]]) ELSE 0]
    PROVE  Total(w) = P[Len(us) - f].end - P[Len(us) - e].end
<1>1. PICK n \in Nat : n = Len(us) /\ f \in 0 .. n /\ DOMAIN us = 1 .. n
  BY ListIs
<1>2. us \in Seq(1 .. Len(ts)) /\ Len(ts) \in Nat /\ n - f \in 0 .. Len(ts)
  BY <1>1, ListIs
<1>3. e \in 0 .. n /\ f <= e /\ \A p \in f .. e : n - p \in 0 .. Len(ts)
  BY <1>1, <1>2
<1>4. PICK h : h = [p \in 0 .. n |-> P[n - f].end
                       - P[n - (IF p < f THEN f ELSE IF p <= e THEN p ELSE e)].end]
  OBVIOUS
<1>5. \A p \in f .. e : P[n - p].end \in Nat
  BY <1>3, MarksAre
<1>6. PICK b \in Nat : b = P[n - f].end
  BY <1>1, <1>2, MarksAre
<1>7. h[0] = 0
  <2>1. h[0] = P[n - f].end - P[n - f].end
    BY <1>1, <1>3, <1>4
  <2> QED
    BY <1>6, <2>1
<1>8. ASSUME NEW k \in 1 .. n PROVE h[k] = h[k - 1] + w[k]
  <2>1. w[k] = IF k \in f + 1 .. e /\ ~ In(ts, P, us[k]) THEN TypeSize(ts[us[k]]) ELSE 0
    BY <1>1
  <2>2. CASE k < f + 1
    <3>1. h[k] = b - b /\ h[k - 1] = b - b
      <4>1. k \in 0 .. n /\ k - 1 \in 0 .. n /\ k - 1 < f /\ (k < f \/ k = f)
        BY <1>1, <2>2
      <4>2. h[k - 1] = P[n - f].end - P[n - f].end
        BY <1>4, <4>1
      <4>3. h[k] = P[n - f].end - P[n - f].end
        BY <1>3, <1>4, <4>1
      <4> QED
        BY <1>6, <4>2, <4>3
    <3>2. w[k] = 0
      BY <1>1, <2>1, <2>2
    <3>3. b - b = 0
      OBVIOUS
    <3> QED
      BY <3>1, <3>2, <3>3
  <2>3. CASE k > e
    <3>1. h[k] = P[n - f].end - P[n - e].end /\ h[k - 1] = P[n - f].end - P[n - e].end
      <4>1. k \in 0 .. n /\ k - 1 \in 0 .. n /\ ~ (k <= e) /\ ~ (k < f) /\ ~ (k - 1 < f)
            /\ (k - 1 = e \/ ~ (k - 1 <= e))
        BY <1>1, <1>3, <2>3
      <4>2. h[k] = P[n - f].end - P[n - e].end
        BY <1>4, <4>1
      <4>3. h[k - 1] = P[n - f].end - P[n - e].end
        <5>1. CASE k - 1 = e
          BY <1>3, <1>4, <4>1, <5>1
        <5>2. CASE ~ (k - 1 <= e)
          BY <1>4, <4>1, <5>2
        <5> QED
          BY <4>1, <5>1, <5>2
      <4> QED
        BY <4>2, <4>3
    <3>2. w[k] = 0
      BY <1>1, <1>3, <2>1, <2>3
    <3>3. P[n - e].end \in Nat
      BY <1>3, <1>1, <1>5
    <3> QED
      BY <1>6, <3>1, <3>2, <3>3
  <2>4. CASE k \in f + 1 .. e
    <3>1. k \in f .. e /\ k - 1 \in f .. e
      BY <1>1, <1>3, <2>4
    <3>2. h[k] = b - P[n - k].end /\ h[k - 1] = b - P[n - (k - 1)].end
      BY <1>1, <1>3, <1>4, <1>6, <2>4, <3>1
    <3>3. PICK i \in 1 .. Len(ts) : i = n - (k - 1) /\ i - 1 = n - k /\ i = n + 1 - k
      <4>1. n - (k - 1) \in 0 .. Len(ts) /\ n - k \in 0 .. Len(ts)
        BY <1>3, <3>1
      <4> QED
        BY <1>1, <4>1
    <3>4. us[k] = i
      <4>1. k \in f + 1 .. Len(us)
        BY <1>1, <1>3, <2>4
      <4>2. us[k] = Len(us) + 1 - k
        BY <4>1 DEF Listed
      <4> QED
        BY <1>1, <3>3, <4>2
    <3>5. PICK y \in Nat, x \in Nat : y = P[i].end /\ x = P[i - 1].end
      BY <1>5, <3>1, <3>3
    <3>6. h[k] = b - x /\ h[k - 1] = b - y
      BY <3>2, <3>3, <3>5
    <3>7. PICK z \in Nat : z = TypeSize(ts[i])
      BY TypeFacts
    <3>8. CASE In(ts, P, i)
      <4>1. y = x
        BY <3>5, <3>8, StackMarks
      <4>2. w[k] = 0
        BY <2>1, <3>4, <3>8
      <4> QED
        BY <3>6, <4>1, <4>2
    <3>9. CASE ~ In(ts, P, i)
      <4>1. TypeAlign(ts[i]) = 1
        BY <2>4, <3>4, <3>9 DEF Unaligned
      <4>2. y = x + z
        BY <3>5, <3>7, <3>9, <4>1, StackMarks
      <4>3. w[k] = z
        BY <2>1, <2>4, <3>4, <3>7, <3>9
      <4> QED
        BY <3>6, <4>2, <4>3, SMTT(30)
    <3> QED
      BY <3>8, <3>9
  <2> QED
    BY <1>1, <1>3, <2>2, <2>3, <2>4
<1>9. n = Len(w)
  BY <1>1
<1>10. Total(w) = h[n]
  <2>1. \A k \in 1 .. n : h[k] = h[k - 1] + w[k]
    BY <1>8
  <2>2. PICK v : v = w
    OBVIOUS
  <2>3. n = Len(v) /\ \A k \in 1 .. n : h[k] = h[k - 1] + v[k]
    BY <1>9, <2>1, <2>2
  <2>4. Total(v) = h[n]
    BY <1>7, <2>3, TotalIs
  <2> QED
    BY <2>2, <2>4
<1>11. h[n] = P[n - f].end - P[n - e].end
  BY <1>1, <1>3, <1>4
<1> QED
  BY <1>1, <1>10, <1>11

\* Behind a run, the stack is aligned.
LEMMA RunEven ==
    ASSUME NEW ts, NEW P, Situation(ts, P), NEW us, NEW f, Listed(ts, P, us, f),
           NEW e \in f .. Len(us), Unaligned(ts, P, us, f, e)
    PROVE  P[Len(us) - e].end \in Nat /\ P[Len(us) - e].end % 2 = 0
<1>1. PICK n \in Nat : n = Len(us) /\ f \in 0 .. n
  BY ListIs
<1>2. us \in Seq(1 .. Len(ts)) /\ Len(ts) \in Nat /\ n - f \in 0 .. Len(ts)
  BY <1>1, ListIs
<1>3. CASE e = n
  <2>1. n - e = 0 /\ 0 \in 0 .. Len(ts)
    BY <1>1, <1>2, <1>3
  <2> QED
    BY <1>1, <2>1, NoMarkIs
<1>4. CASE e # n
  <2>1. e + 1 \in f + 1 .. n /\ n + 1 - (e + 1) = n - e /\ n - e \in 1 .. n - f
    BY <1>1, <1>4
  <2>2. us[e + 1] = n - e
    BY <1>1, <2>1 DEF Listed
  <2>3. n - e \in 1 .. Len(ts) /\ n - e \in 0 .. Len(ts)
    BY <1>2, <2>1
  <2>4. ~ In(ts, P, n - e) /\ TypeAlign(ts[n - e]) = 2
    BY <1>1, <1>4, <2>2 DEF Unaligned
  <2>5. P[n - e].end % 2 = 0
    BY <2>3, <2>4, StackMarks
  <2> QED
    BY <1>1, <2>3, <2>5, MarksAre
<1> QED
  BY <1>3, <1>4

LEMMA OddRest ==
    ASSUME NEW a \in Nat, NEW b \in Nat, b % 2 = 0, b <= a
    PROVE  /\ a - b \in Nat
           /\ (a - b) % 2 = 1 => a % 2 = 1
           /\ a % 2 = 1 => (a - b) % 2 = 1
<1>1. b = 2 * (b \div 2)
  OBVIOUS
<1>2. PICK q \in Nat : b = 2 * q
  BY <1>1
<1>3. PICK d \in Nat : d = a - b
  OBVIOUS
<1>4. a = d + 2 * q
  BY <1>2, <1>3
<1>5. d % 2 = 1 => (d + 2 * q) % 2 = 1
  OBVIOUS
<1>6. (d + 2 * q) % 2 = 1 => d % 2 = 1
  OBVIOUS
<1> QED
  BY <1>3, <1>4, <1>5, <1>6

\* Between two runs
RunState(ts, P, n0, us, f, g, s, ps) ==
    LET j == Len(us) - f
    IN  Listed(ts, P, us, f) /\ Laid(ts, P, n0, ps, UpTo(P[j].end, 2), j) /\ Counted(ts, P, g, s, j)

\* In a run that ends at e
StoreState(ts, P, n0, us, f, e, g, s, ps) ==
    LET j == Len(us) - f
    IN  /\ Listed(ts, P, us, f) /\ Counted(ts, P, g, s, j) /\ e \in f .. Len(us)
        /\ f = e => Laid(ts, P, n0, ps, UpTo(P[j].end, 2), j)
        /\ f < e => Laid(ts, P, n0, ps, P[j].end, j) /\ Unaligned(ts, P, us, f, e)

LEMMA RunMeasured ==
    ASSUME NEW ts, NEW P, Situation(ts, P), NEW n0 \in Nat, NEW us, NEW f, NEW g, NEW s, NEW ps,
           RunState(ts, P, n0, us, f, g, s, ps), NEW e, e = RunEnd(ts, P, us, f),
           NEW size, size = P[Len(us) - f].end - P[Len(us) - e].end
    PROVE  StoreState(ts, P, n0, us, f, e, g, s, Adjust(size) \o ps)
<1>1. Listed(ts, P, us, f)
  BY DEF RunState
<1>2. PICK n \in Nat : n = Len(us) /\ f \in 0 .. n
  BY <1>1, ListIs
<1>3. PICK j \in 0 .. Len(ts) : j = n - f
  BY <1>1, <1>2, ListIs
<1>4. Laid(ts, P, n0, ps, UpTo(P[j].end, 2), j) /\ Counted(ts, P, g, s, j)
  BY <1>2, <1>3 DEF RunState
<1>5. e \in f .. n /\ Unaligned(ts, P, us, f, e)
  BY <1>1, <1>2, RunEnds
<1>6. PICK b \in Nat : b = P[n - e].end /\ b % 2 = 0
  BY <1>1, <1>2, <1>5, RunEven
<1>7. PICK a \in Nat : a = P[j].end
  BY MarksAre
<1>8. b <= a
  <2>1. n - e \in 0 .. Len(ts) /\ j \in n - e .. Len(ts)
    BY <1>2, <1>3, <1>5
  <2> QED
    BY <1>6, <1>7, <2>1, Growing
<1>9. size = a - b /\ size \in Nat
  BY <1>2, <1>3, <1>6, <1>7, <1>8
<1>10. PICK o \in Nat : o = UpTo(a, 2) /\ o = (IF a % 2 = 1 THEN a + 1 ELSE a)
  BY UpToIs
<1>11. Laid(ts, P, n0, ps, o, j)
  BY <1>4, <1>7, <1>10
<1>12. ps \in Seq(WordSet)
  BY <1>11 DEF Laid
<1>13. Laid(ts, P, n0, Adjust(size) \o ps, a, j)
  <2>1. CASE size % 2 = 1
    <3>1. a % 2 = 1 /\ o = a + 1
      BY <1>6, <1>8, <1>9, <1>10, <2>1, OddRest, SMTT(30)
    <3>2. Adjust(size) = <<Garbage>>
      BY <2>1 DEF Adjust
    <3>3. PICK w \in Seq(WordSet) : w = <<Garbage>> /\ Len(w) = 1
      <4>1. PICK x \in WordSet : x = Garbage
        BY DEF WordSet
      <4>2. <<x>> \in Seq(WordSet) /\ Len(<<x>>) = 1
        OBVIOUS
      <4> QED
        BY <4>1, <4>2
    <3>4. Laid(ts, P, n0, w \o ps, o - Len(w), j)
      <4>1. Len(w) <= o
        BY <3>1, <3>3
      <4> QED
        BY <1>11, <4>1, LaidPush
    <3>5. o - Len(w) = a
      BY <3>1, <3>3
    <3> QED
      BY <3>2, <3>3, <3>4, <3>5
  <2>2. CASE ~ (size % 2 = 1)
    <3>1. ~ (a % 2 = 1) /\ o = a
      BY <1>6, <1>8, <1>9, <1>10, <2>2, OddRest
    <3>2. Adjust(size) = <<>>
      BY <2>2 DEF Adjust
    <3>3. <<>> \o ps = ps
      BY <1>12, ConcatEmptySeq
    <3> QED
      BY <1>11, <3>1, <3>2, <3>3
  <2> QED
    BY <2>1, <2>2
<1>14. f = e => Laid(ts, P, n0, Adjust(size) \o ps, UpTo(P[j].end, 2), j)
  <2>1. SUFFICES ASSUME f = e PROVE Laid(ts, P, n0, Adjust(size) \o ps, UpTo(P[j].end, 2), j)
    OBVIOUS
  <2>2. a = b
    BY <1>3, <1>6, <1>7, <2>1
  <2>3. UpTo(a, 2) = a
    BY <1>6, <2>2, UpToIs
  <2> QED
    BY <1>7, <1>13, <2>3
<1> QED
  BY <1>1, <1>2, <1>3, <1>4, <1>5, <1>7, <1>13, <1>14 DEF StoreState

\* What lies on the stack when a run goes on, or ends.
LEMMA RunGoesOn ==
    ASSUME NEW ts, NEW P, Situation(ts, P), NEW n0 \in Nat, NEW us, NEW f, NEW e, NEW g, NEW s, NEW ps,
           NEW j, j = Len(us) - f, Listed(ts, P, us, f), Counted(ts, P, g, s, j), e \in f .. Len(us),
           Laid(ts, P, n0, ps, P[j].end, j), Unaligned(ts, P, us, f, e)
    PROVE  StoreState(ts, P, n0, us, f, e, g, s, ps)
<1>1. ASSUME f = e PROVE Laid(ts, P, n0, ps, UpTo(P[j].end, 2), j)
  <2>1. PICK b \in Nat : b = P[j].end /\ b % 2 = 0
    BY <1>1, RunEven
  <2>2. UpTo(b, 2) = b
    BY <2>1, UpToIs
  <2> QED
    BY <2>1, <2>2
<1> QED
  BY <1>1 DEF StoreState

LEMMA ArgStored ==
    ASSUME NEW ts, NEW P, Situation(ts, P), NEW n0 \in Nat, NEW us, NEW f, NEW e, NEW g, NEW s, NEW ps,
           StoreState(ts, P, n0, us, f, e, g, s, ps), f < e, NEW a, a = us[f + 1], ~ In(ts, P, a)
    PROVE  StoreState(ts, P, n0, RemoveAt(us, f + 1), f, e - 1,
                      IF Mode(ts[a]) = "integer" THEN g - RegCount(ts[a]) ELSE g,
                      IF Mode(ts[a]) = "sse" THEN s - RegCount(ts[a]) ELSE s,
                      Words(n0 + a - 1, ts[a]) \o ps)
<1>1. Listed(ts, P, us, f)
  BY DEF StoreState
<1>2. PICK n \in Nat : n = Len(us) /\ f \in 0 .. n /\ e \in f .. n
  BY <1>1, ListIs DEF StoreState
<1>3. a = n - f /\ a \in 1 .. Len(ts)
  <2>1. f < Len(us)
    BY <1>2
  <2>2. us[f + 1] = Len(us) - f /\ Len(us) - f \in 1 .. Len(ts)
    BY <1>1, <2>1, ListIs
  <2> QED
    BY <1>2, <2>2
<1>4. Counted(ts, P, g, s, a) /\ Laid(ts, P, n0, ps, P[a].end, a) /\ Unaligned(ts, P, us, f, e)
  BY <1>2, <1>3 DEF StoreState
<1>5. PICK b : b = RemoveAt(us, f + 1)
  OBVIOUS
<1>6. /\ Listed(ts, P, b, f) /\ Len(b) = n - 1
      /\ \A p \in 1 .. n - 1 : b[p] = us[IF p <= f THEN p ELSE p + 1]
  <2>1. f < Len(us) /\ ~ In(ts, P, Len(us) - f)
    BY <1>2, <1>3
  <2>2. /\ Listed(ts, P, b, f) /\ Len(b) = Len(us) - 1
        /\ \A p \in 1 .. Len(us) - 1 : b[p] = us[IF p <= f THEN p ELSE p + 1]
    BY <1>1, <1>5, <2>1, ListStored
  <2> QED
    BY <1>2, <2>2
<1>7. PICK ng : ng = IF Mode(ts[a]) = "integer" THEN g - RegCount(ts[a]) ELSE g
  OBVIOUS
<1>8. PICK nx : nx = IF Mode(ts[a]) = "sse" THEN s - RegCount(ts[a]) ELSE s
  OBVIOUS
<1>9. Counted(ts, P, ng, nx, a - 1)
  BY <1>3, <1>4, <1>7, <1>8, CountStored
<1>10. PICK qs : qs = Words(n0 + a - 1, ts[a]) \o ps
  OBVIOUS
<1>11. Laid(ts, P, n0, qs, Start(ts, P, a), a - 1)
  BY <1>3, <1>4, <1>10, LaidStored
<1>12. TypeAlign(ts[a]) = 1
  <2>1. f + 1 \in f + 1 .. e
    BY <1>2
  <2> QED
    BY <1>4, <2>1 DEF Unaligned
<1>13. Start(ts, P, a) = P[a - 1].end
  <2>1. P[a - 1].end \in Nat
    BY <1>3, MarksAre
  <2>2. Start(ts, P, a) = UpTo(P[a - 1].end, TypeAlign(ts[a]))
    BY <1>3, StackMarks
  <2>3. UpTo(P[a - 1].end, 1) = P[a - 1].end
    BY <2>1, UpToIs
  <2> QED
    BY <1>12, <2>2, <2>3
<1>14. Unaligned(ts, P, b, f, e - 1)
  <2>1. ASSUME NEW p \in f + 1 .. e - 1 PROVE In(ts, P, b[p]) \/ TypeAlign(ts[b[p]]) = 1
    <3>1. p \in 1 .. n - 1 /\ ~ (p <= f) /\ p + 1 \in f + 1 .. e
      BY <1>2
    <3>2. b[p] = us[p + 1]
      BY <1>6, <3>1
    <3> QED
      BY <1>4, <3>1, <3>2 DEF Unaligned
  <2>2. e - 1 = n - 1 \/ (~ In(ts, P, b[(e - 1) + 1]) /\ TypeAlign(ts[b[(e - 1) + 1]]) = 2)
    <3>1. CASE e = n
      BY <3>1
    <3>2. CASE e # n
      <4>1. (e - 1) + 1 = e /\ e \in 1 .. n - 1 /\ ~ (e <= f)
        BY <1>2, <3>2
      <4>2. b[e] = us[e + 1]
        BY <1>6, <4>1
      <4> QED
        BY <1>2, <1>4, <3>2, <4>1, <4>2 DEF Unaligned
    <3> QED
      BY <3>1, <3>2
  <2> QED
    BY <1>6, <2>1, <2>2 DEF Unaligned
<1>15. a - 1 = Len(b) - f /\ e - 1 \in f .. Len(b)
  BY <1>2, <1>3, <1>6
<1>16. StoreState(ts, P, n0, b, f, e - 1, ng, nx, qs)
  BY <1>6, <1>9, <1>11, <1>13, <1>14, <1>15, RunGoesOn
<1> QED
  BY <1>5, <1>7, <1>8, <1>10, <1>16

LEMMA ArgKept ==
    ASSUME NEW ts, NEW P, Situation(ts, P), NEW n0 \in Nat, NEW us, NEW f, NEW e, NEW g, NEW s, NEW ps,
           StoreState(ts, P, n0, us, f, e, g, s, ps), f < e, NEW a, a = us[f + 1], In(ts, P, a)
    PROVE  StoreState(ts, P, n0, us, f + 1, e, g, s, ps)
<1>1. Listed(ts, P, us, f)
  BY DEF StoreState
<1>2. PICK n \in Nat : n = Len(us) /\ f \in 0 .. n /\ e \in f .. n
  BY <1>1, ListIs DEF StoreState
<1>3. a = n - f /\ a \in 1 .. Len(ts)
  <2>1. f < Len(us)
    BY <1>2
  <2>2. us[f + 1] = Len(us) - f /\ Len(us) - f \in 1 .. Len(ts)
    BY <1>1, <2>1, ListIs
  <2> QED
    BY <1>2, <2>2
<1>4. Counted(ts, P, g, s, a) /\ Laid(ts, P, n0, ps, P[a].end, a) /\ Unaligned(ts, P, us, f, e)
  BY <1>2, <1>3 DEF StoreState
<1>5. Listed(ts, P, us, f + 1)
  BY <1>1, <1>2, <1>3, ListKept
<1>6. Counted(ts, P, g, s, a - 1)
  BY <1>3, <1>4, CountKept
<1>7. Laid(ts, P, n0, ps, P[a - 1].end, a - 1)
  <2>1. P[a - 1].end = P[a].end
    BY <1>3, StackMarks
  <2> QED
    BY <1>3, <1>4, <2>1, LaidKept
<1>8. Unaligned(ts, P, us, f + 1, e)
  <2>1. \A p \in (f + 1) + 1 .. e : p \in f + 1 .. e
    BY <1>2
  <2> QED
    BY <1>4, <2>1 DEF Unaligned
<1>9. a - 1 = Len(us) - (f + 1) /\ e \in f + 1 .. Len(us)
  BY <1>2, <1>3
<1> QED
  BY <1>5, <1>6, <1>7, <1>8, <1>9, RunGoesOn

LEMMA AlignedStored ==
    ASSUME NEW ts, NEW P, Situation(ts, P), NEW n0 \in Nat, NEW us, NEW f, NEW g, NEW s, NEW ps,
           StoreState(ts, P, n0, us, f, f, g, s, ps), f < Len(us), NEW a, a = us[f + 1], TypeAlign(ts[a]) = 2
    PROVE  /\ Mode(ts[a]) \in {"x87", "memory"}
           /\ StoreState(ts, P, n0, RemoveAt(us, f + 1), f, f, g, s, Words(n0 + a - 1, ts[a]) \o ps)
<1>1. Listed(ts, P, us, f)
  BY DEF StoreState
<1>2. PICK n \in Nat : n = Len(us) /\ f \in 0 .. n
  BY <1>1, ListIs
<1>3. a = n - f /\ a \in 1 .. Len(ts)
  <2>1. f < Len(us)
    BY <1>2
  <2>2. us[f + 1] = Len(us) - f /\ Len(us) - f \in 1 .. Len(ts)
    BY <1>1, <2>1, ListIs
  <2> QED
    BY <1>2, <2>2
<1>4. Counted(ts, P, g, s, a) /\ Laid(ts, P, n0, ps, UpTo(P[a].end, 2), a)
  BY <1>2, <1>3 DEF StoreState
<1>5. Mode(ts[a]) \in {"x87", "memory"}
  BY <1>3, TypeFacts
<1>6. ~ In(ts, P, a)
  BY <1>5 DEF In, Fits
<1>7. PICK b : b = RemoveAt(us, f + 1)
  OBVIOUS
<1>8. Listed(ts, P, b, f) /\ Len(b) = n - 1
  <2>1. f < Len(us) /\ ~ In(ts, P, Len(us) - f)
    BY <1>2, <1>3, <1>6
  <2>2. Listed(ts, P, b, f) /\ Len(b) = Len(us) - 1
    BY <1>1, <1>7, <2>1, ListStored
  <2> QED
    BY <1>2, <2>2
<1>9. Counted(ts, P, g, s, a - 1)
  <2>1. Mode(ts[a]) # "integer" /\ Mode(ts[a]) # "sse"
    BY <1>5
  <2>2. Counted(ts, P, IF Mode(ts[a]) = "integer" THEN g - RegCount(ts[a]) ELSE g,
                       IF Mode(ts[a]) = "sse" THEN s - RegCount(ts[a]) ELSE s, a - 1)
    BY <1>3, <1>4, <1>6, CountStored
  <2> QED
    BY <2>1, <2>2
<1>10. PICK qs : qs = Words(n0 + a - 1, ts[a]) \o ps
  OBVIOUS
<1>11. UpTo(P[a].end, 2) = P[a].end
  <2>1. P[a].end \in Nat
    BY <1>3, MarksAre
  <2>2. P[a].end % 2 = 0
    BY <1>3, <1>6, StackMarks
  <2> QED
    BY <2>1, <2>2, UpToIs
<1>12. Laid(ts, P, n0, qs, Start(ts, P, a), a - 1)
  BY <1>3, <1>4, <1>6, <1>10, <1>11, LaidStored
<1>13. Start(ts, P, a) = UpTo(P[a - 1].end, 2)
  BY <1>3, <1>6, StackMarks
<1>14. a - 1 = Len(b) - f /\ f \in f .. Len(b)
  BY <1>2, <1>3, <1>8
<1>15. StoreState(ts, P, n0, b, f, f, g, s, qs)
  BY <1>8, <1>9, <1>12, <1>13, <1>14 DEF StoreState
<1> QED
  BY <1>5, <1>7, <1>10, <1>15

\* Arguments are loaded: those up to the j-th are left.
Placed(ts, P, n0, rs, xs, reg, a) ==
    /\ Mode(ts[a]) = "integer" =>
          \A k \in 1 .. RegCount(ts[a]) : rs[reg[P[a - 1].int + k - 1]] = <<n0 + a - 1, k>>
    /\ Mode(ts[a]) = "sse" =>
          \A k \in 1 .. TypeSize(ts[a]) : xs[P[a - 1].sse + k - 1] = <<n0 + a - 1, k>>

RegsState(ts, P, n0, us, g, s, ps, rs, xs, reg) ==
    /\ Laid(ts, P, n0, ps, 0, 0)
    /\ us \in Seq(1 .. Len(ts))
    /\ \A p, q \in 1 .. Len(us) : p < q => us[p] > us[q]
    /\ \E j \in 0 .. Len(ts) :
        /\ \A p \in 1 .. Len(us) : us[p] <= j /\ In(ts, P, us[p])
        /\ \A a \in 1 .. j : In(ts, P, a) => \E p \in 1 .. Len(us) : us[p] = a
        /\ g = P[j].rint /\ s = P[j].rsse
        /\ \A a \in j + 1 .. Len(ts) : In(ts, P, a) => Placed(ts, P, n0, rs, xs, reg, a)

LEMMA RunsOver ==
    ASSUME NEW ts, NEW P, Situation(ts, P), NEW n0 \in Nat, NEW us, NEW f, NEW g, NEW s, NEW ps,
           RunState(ts, P, n0, us, f, g, s, ps), f = Len(us), NEW rs, NEW xs, NEW reg
    PROVE  /\ g <= REGN /\ s <= SSEN
           /\ RegsState(ts, P, n0, us, g, s, ps, rs, xs, reg)
<1>1. Listed(ts, P, us, f)
  BY DEF RunState
<1>2. PICK n \in Nat : n = Len(us) /\ f = n /\ n - f = 0
  BY <1>1, ListIs
<1>3. us \in Seq(1 .. Len(ts)) /\ Len(ts) \in Nat
  BY <1>1, ListIs
<1>4. P[0].int = 0 /\ P[0].sse = 0 /\ P[0].end = 0
  BY NoMarkIs
<1>5. Laid(ts, P, n0, ps, UpTo(P[0].end, 2), 0) /\ Counted(ts, P, g, s, 0)
  BY <1>2 DEF RunState
<1>6. Laid(ts, P, n0, ps, 0, 0)
  <2>1. UpTo(0, 2) = 0
    BY UpToIs
  <2> QED
    BY <1>4, <1>5, <2>1
<1>7. PICK N \in 0 .. Len(ts) : N = Len(ts)
  BY <1>3
<1>8. PICK r \in Nat, q \in Nat : r = P[N].rint /\ q = P[N].rsse
  BY MarksAre
<1>9. g = r /\ s = q
  <2>1. g = Larger(0, r) /\ s = Larger(0, q)
    BY <1>4, <1>5, <1>7, <1>8 DEF Counted
  <2> QED
    BY <2>1 DEF Larger
<1>10. g <= REGN /\ s <= SSEN
  BY <1>8, <1>9, RegsUsed
<1>11. \A p \in 1 .. Len(us) : us[p] <= N /\ In(ts, P, us[p])
  <2>1. \A p \in 1 .. n : us[p] \in 1 .. N
    BY <1>2, <1>3, <1>7
  <2>2. \A p \in 1 .. n : In(ts, P, us[p])
    BY <1>1, <1>2 DEF Listed
  <2> QED
    BY <1>2, <2>1, <2>2
<1>12. \A a \in 1 .. N : In(ts, P, a) => \E p \in 1 .. Len(us) : us[p] = a
  <2>1. \A a \in n - f + 1 .. N : In(ts, P, a) => \E p \in 1 .. f : us[p] = a
    BY <1>1, <1>2, <1>7 DEF Listed
  <2> QED
    BY <1>2, <2>1
<1>13. \A p, q_1 \in 1 .. Len(us) : p < q_1 => us[p] > us[q_1]
  BY <1>1 DEF Listed
<1>14. \A a \in N + 1 .. Len(ts) : FALSE
  BY <1>7
<1> QED
  BY <1>3, <1>6, <1>7, <1>8, <1>9, <1>10, <1>11, <1>12, <1>13, <1>14 DEF RegsState

-----------------------------------------------------------------------------
(* The registers                                                           *)

PrepReg == [i \in 0 .. 5 |-> arg_prepare_reg(i)]
ArgReg  == [i \in 0 .. 5 |-> arg_regs(i)]

LEMMA RegNumbers ==
    /\ ArgReg[0] = 7 /\ ArgReg[1] = 6 /\ ArgReg[2] = 2 /\ ArgReg[3] = 1 /\ ArgReg[4] = 8 /\ ArgReg[5] = 9
    /\ PrepReg[0] = 7 /\ PrepReg[1] = 6 /\ PrepReg[2] = 10 /\ PrepReg[3] = 11 /\ PrepReg[4] = 8 /\ PrepReg[5] = 9
<1>1. /\ arg_regs(0) = 7 /\ arg_regs(1) = 6 /\ arg_regs(2) = 2 /\ arg_regs(3) = 1
      /\ arg_regs(4) = 8 /\ arg_regs(5) = 9
  BY DEF arg_regs
<1>2. /\ arg_prepare_reg(0) = 7 /\ arg_prepare_reg(1) = 6 /\ arg_prepare_reg(2) = 10
      /\ arg_prepare_reg(3) = 11 /\ arg_prepare_reg(4) = 8 /\ arg_prepare_reg(5) = 9
  BY <1>1 DEF arg_prepare_reg
<1>3. \A i \in 0 .. 5 : ArgReg[i] = arg_regs(i) /\ PrepReg[i] = arg_prepare_reg(i)
  BY DEF ArgReg, PrepReg
<1> QED
  BY <1>1, <1>2, <1>3

LEMMA PrepRegs ==
    /\ \A i \in 0 .. 5 : PrepReg[i] \in 0 .. 11 /\ PrepReg[i] \notin RC_INT
    /\ \A i, k \in 0 .. 5 : i # k => PrepReg[i] # PrepReg[k]
<1>1. \A i \in 0 .. 5 : i = 0 \/ i = 1 \/ i = 2 \/ i = 3 \/ i = 4 \/ i = 5
  OBVIOUS
<1> QED
  BY <1>1, RegNumbers DEF RC_INT

\* The first argument that is left is the last one in registers.
LEMMA NextArg ==
    ASSUME NEW ts, NEW P, Situation(ts, P), NEW n0, NEW us, NEW g, NEW s, NEW ps, NEW rs, NEW xs, NEW reg,
           RegsState(ts, P, n0, us, g, s, ps, rs, xs, reg), us # <<>>, NEW a, a = us[1]
    PROVE  /\ a \in 1 .. Len(ts) /\ In(ts, P, a) /\ g = P[a].rint /\ s = P[a].rsse
           /\ \A b \in a + 1 .. Len(ts) : In(ts, P, b) => Placed(ts, P, n0, rs, xs, reg, b)
<1>1. PICK N \in Nat : N = Len(ts)
  BY DEF Situation
<1>2. us \in Seq(1 .. N) /\ \A p, q \in 1 .. Len(us) : p < q => us[p] > us[q]
  BY <1>1 DEF RegsState
<1>3. PICK n \in Nat : n = Len(us) /\ n > 0
  BY <1>2
<1>4. a \in 1 .. N
  BY <1>2, <1>3
<1>5. PICK j \in 0 .. N :
        /\ \A p \in 1 .. n : us[p] <= j /\ In(ts, P, us[p])
        /\ \A b \in 1 .. j : In(ts, P, b) => \E p \in 1 .. n : us[p] = b
        /\ g = P[j].rint /\ s = P[j].rsse
        /\ \A b \in j + 1 .. N : In(ts, P, b) => Placed(ts, P, n0, rs, xs, reg, b)
  BY <1>1, <1>3 DEF RegsState
<1>6. a <= j /\ In(ts, P, a)
  BY <1>3, <1>5
<1>7. ASSUME NEW b \in a + 1 .. j PROVE ~ In(ts, P, b)
  <2>1. SUFFICES ASSUME In(ts, P, b) PROVE FALSE
    OBVIOUS
  <2>2. b \in 1 .. j
    BY <1>4
  <2>3. PICK p \in 1 .. n : us[p] = b
    BY <1>5, <2>1, <2>2
  <2>4. p # 1
    BY <1>4, <2>3
  <2>5. us[1] > us[p]
    BY <1>2, <1>3, <2>4
  <2> QED
    BY <1>4, <2>3, <2>5
<1>8. P[j].rint = P[a].rint /\ P[j].rsse = P[a].rsse
  <2>1. a \in 0 .. Len(ts) /\ j \in a .. Len(ts)
    BY <1>1, <1>4, <1>6
  <2> QED
    BY <1>7, <2>1, NoneBetween
<1>9. ASSUME NEW b \in a + 1 .. N, In(ts, P, b) PROVE Placed(ts, P, n0, rs, xs, reg, b)
  <2>1. b \in j + 1 .. N
    BY <1>4, <1>7, <1>9
  <2> QED
    BY <1>5, <1>9, <2>1
<1> QED
  BY <1>1, <1>4, <1>5, <1>6, <1>8, <1>9

LEMMA ArgLoaded ==
    ASSUME NEW ts, NEW P, Situation(ts, P), NEW n0, NEW us, NEW g, NEW s, NEW ps, NEW rs, NEW xs, NEW reg,
           RegsState(ts, P, n0, us, g, s, ps, rs, xs, reg), us # <<>>, NEW a, a = us[1],
           NEW h, NEW t, NEW ws, NEW ys, h = P[a - 1].rint, t = P[a - 1].rsse,
           \A b \in a .. Len(ts) : In(ts, P, b) => Placed(ts, P, n0, ws, ys, reg, b)
    PROVE  RegsState(ts, P, n0, Tail(us), h, t, ps, ws, ys, reg)
<1>1. PICK N \in Nat : N = Len(ts)
  BY DEF Situation
<1>2. us \in Seq(1 .. N) /\ \A p, q \in 1 .. Len(us) : p < q => us[p] > us[q]
  BY <1>1 DEF RegsState
<1>3. PICK n \in Nat : n = Len(us) /\ n > 0
  BY <1>2
<1>4. a \in 1 .. N
  BY <1>2, <1>3
<1>5. PICK j \in 0 .. N :
        /\ \A p \in 1 .. n : us[p] <= j /\ In(ts, P, us[p])
        /\ \A b \in 1 .. j : In(ts, P, b) => \E p \in 1 .. n : us[p] = b
  BY <1>1, <1>3 DEF RegsState
<1>6. PICK vs : vs = Tail(us)
  OBVIOUS
<1>7. vs \in Seq(1 .. N) /\ Len(vs) = n - 1 /\ \A p \in 1 .. n - 1 : vs[p] = us[p + 1]
  BY <1>2, <1>3, <1>6, HeadTailProperties
<1>8. \A p, q \in 1 .. n - 1 : p < q => vs[p] > vs[q]
  <2>1. TAKE p, q \in 1 .. n - 1
  <2>2. p + 1 \in 1 .. n /\ q + 1 \in 1 .. n /\ (p < q => p + 1 < q + 1)
    BY <1>3
  <2> QED
    BY <1>2, <1>3, <1>7, <2>2
<1>9. a - 1 \in 0 .. N
  BY <1>4
<1>10. ASSUME NEW p \in 1 .. n - 1 PROVE vs[p] <= a - 1 /\ In(ts, P, vs[p])
  <2>1. p + 1 \in 1 .. n /\ 1 < p + 1 /\ 1 \in 1 .. n
    BY <1>3
  <2>2. us[1] > us[p + 1] /\ us[p + 1] \in 1 .. N
    BY <1>2, <1>3, <2>1
  <2>3. vs[p] = us[p + 1]
    BY <1>3, <1>7
  <2>4. In(ts, P, vs[p])
    BY <1>5, <2>1, <2>3
  <2> QED
    BY <1>4, <2>2, <2>3, <2>4
<1>11. ASSUME NEW b \in 1 .. a - 1, In(ts, P, b) PROVE \E p \in 1 .. n - 1 : vs[p] = b
  <2>1. a <= j
    BY <1>3, <1>5
  <2>2. b \in 1 .. j
    BY <1>4, <2>1
  <2>3. PICK p \in 1 .. n : us[p] = b
    BY <1>5, <1>11, <2>2
  <2>4. p # 1
    BY <1>4, <2>3
  <2>5. p - 1 \in 1 .. n - 1 /\ (p - 1) + 1 = p
    BY <2>4
  <2> QED
    BY <1>7, <2>3, <2>5
<1>12. \A b \in (a - 1) + 1 .. N : In(ts, P, b) => Placed(ts, P, n0, ws, ys, reg, b)
  BY <1>1, <1>4
<1>13. Laid(ts, P, n0, ps, 0, 0)
  BY DEF RegsState
<1>14. PICK i \in 0 .. N : i = a - 1
  BY <1>9
<1>15. /\ \A p \in 1 .. n - 1 : vs[p] <= i /\ In(ts, P, vs[p])
       /\ \A b \in 1 .. i : In(ts, P, b) => \E p \in 1 .. n - 1 : vs[p] = b
       /\ h = P[i].rint /\ t = P[i].rsse
       /\ \A b \in i + 1 .. N : In(ts, P, b) => Placed(ts, P, n0, ws, ys, reg, b)
  BY <1>10, <1>11, <1>12, <1>14
<1>16. /\ \A p \in 1 .. Len(vs) : vs[p] <= i /\ In(ts, P, vs[p])
       /\ \A b \in 1 .. i : In(ts, P, b) => \E p \in 1 .. Len(vs) : vs[p] = b
       /\ \A p, q \in 1 .. Len(vs) : p < q => vs[p] > vs[q]
  BY <1>7, <1>8, <1>15
<1>17. RegsState(ts, P, n0, vs, h, t, ps, ws, ys, reg)
  <2>1. i \in 0 .. Len(ts) /\ vs \in Seq(1 .. Len(ts))
    BY <1>1, <1>7
  <2>2. \A b \in i + 1 .. Len(ts) : In(ts, P, b) => Placed(ts, P, n0, ws, ys, reg, b)
    BY <1>1, <1>15
  <2> QED
    BY <1>13, <1>15, <1>16, <2>1, <2>2 DEF RegsState
<1> QED
  BY <1>6, <1>17

LEMMA WordsAre ==
    ASSUME NEW ts, NEW P, Situation(ts, P), NEW n0 \in Nat, NEW a \in 1 .. Len(ts)
    PROVE  /\ DOMAIN Words(n0 + a - 1, ts[a]) = 1 .. TypeSize(ts[a])
           /\ \A k \in 1 .. TypeSize(ts[a]) :
                 /\ Words(n0 + a - 1, ts[a])[k] = <<n0 + a - 1, k>>
                 /\ Words(n0 + a - 1, ts[a])[k] \in WordSet
<1>1. \A k \in 1 .. TypeSize(ts[a]) : <<n0 + a - 1, k>> \in WordSet
  BY TypeFacts DEF WordSet
<1> QED
  BY <1>1 DEF Words

IntRegs(rs, w, c, n) ==
    [r \in DOMAIN rs |-> IF r = PrepReg[n] THEN w[1]
                         ELSE IF c = 2 /\ r = PrepReg[n + 1] THEN w[2]
                         ELSE IF r \in RC_INT THEN Garbage ELSE rs[r]]

\* What an argument takes from the registers
LEMMA IntegerMarks ==
    ASSUME NEW ts, NEW P, Situation(ts, P), NEW a \in 1 .. Len(ts), In(ts, P, a), Mode(ts[a]) = "integer"
    PROVE  /\ RegCount(ts[a]) \in {1, 2} /\ TypeSize(ts[a]) = RegCount(ts[a])
           /\ P[a - 1].int \in Nat /\ P[a - 1].rint = P[a - 1].int
           /\ P[a].rint = P[a - 1].int + RegCount(ts[a]) /\ P[a].int = P[a - 1].int + RegCount(ts[a])
           /\ P[a - 1].int + RegCount(ts[a]) <= REGN
           /\ P[a].rsse = P[a - 1].rsse
<1>1. a - 1 \in 0 .. Len(ts)
  BY DEF Situation
<1>2. P[a - 1].int \in Nat
  BY <1>1, MarksAre
<1>3. RegCount(ts[a]) \in {1, 2} /\ TypeSize(ts[a]) = RegCount(ts[a])
  BY TypeFacts
<1>4. /\ P[a].int <= REGN /\ P[a].rint = P[a].int /\ P[a - 1].rint = P[a - 1].int
      /\ P[a].int = P[a - 1].int + RegCount(ts[a])
  BY MarkedIn
<1>5. P[a].rsse = P[a - 1].rsse
  BY MarkedIn
<1> QED
  BY <1>2, <1>3, <1>4, <1>5

LEMMA FloatMarks ==
    ASSUME NEW ts, NEW P, Situation(ts, P), NEW a \in 1 .. Len(ts), In(ts, P, a), Mode(ts[a]) = "sse"
    PROVE  /\ RegCount(ts[a]) \in {1, 2} /\ TypeSize(ts[a]) \in 0 .. RegCount(ts[a])
           /\ (RegCount(ts[a]) = 2 => TypeSize(ts[a]) = 2)
           /\ P[a - 1].sse \in Nat /\ P[a - 1].rsse = P[a - 1].sse
           /\ P[a].rsse = P[a - 1].sse + RegCount(ts[a]) /\ P[a].sse = P[a - 1].sse + RegCount(ts[a])
           /\ P[a - 1].sse + RegCount(ts[a]) <= SSEN
           /\ P[a].rint = P[a - 1].rint
           /\ RegCount(ts[a]) = 2 => P[a - 1].sse # 1
<1>1. a - 1 \in 0 .. Len(ts)
  BY DEF Situation
<1>2. P[a - 1].sse \in Nat
  BY <1>1, MarksAre
<1>3. /\ RegCount(ts[a]) \in {1, 2} /\ TypeSize(ts[a]) \in 0 .. RegCount(ts[a])
      /\ (RegCount(ts[a]) = 2 => TypeSize(ts[a]) = 2)
  <2>1. /\ TypeSize(ts[a]) \in Nat /\ RegCount(ts[a]) \in {1, 2} /\ TypeSize(ts[a]) <= RegCount(ts[a])
        /\ RegCount(ts[a]) = 2 <=> TypeSize(ts[a]) > 1
    BY TypeFacts
  <2> QED
    BY <2>1
<1>4. /\ P[a].sse <= SSEN /\ P[a].rsse = P[a].sse /\ P[a - 1].rsse = P[a - 1].sse
      /\ P[a].sse = P[a - 1].sse + RegCount(ts[a])
  BY MarkedIn
<1>5. P[a].rint = P[a - 1].rint
  BY MarkedIn
<1>6. RegCount(ts[a]) = 2 => P[a - 1].sse # 1
  BY DEF Situation
<1> QED
  BY <1>2, <1>3, <1>4, <1>5, <1>6

\* The registers of a later argument are others.
LEMMA LaterRegs ==
    ASSUME NEW ts, NEW P, Situation(ts, P), NEW a \in 1 .. Len(ts), NEW b \in a + 1 .. Len(ts), In(ts, P, b),
           NEW k \in Nat, k > 0
    PROVE  /\ Mode(ts[b]) = "integer" /\ k <= RegCount(ts[b]) =>
                 P[b - 1].int + k - 1 \in P[a].int .. REGN - 1
           /\ Mode(ts[b]) = "sse" /\ k <= TypeSize(ts[b]) =>
                 P[b - 1].sse + k - 1 \in P[a].sse .. SSEN - 1
<1>1. b \in 1 .. Len(ts) /\ b - 1 \in 0 .. Len(ts) /\ a \in 0 .. Len(ts) /\ b - 1 \in a .. Len(ts)
  BY DEF Situation
<1>2. PICK x \in Nat, y \in Nat : x = P[a].int /\ y = P[a].sse
  BY <1>1, MarksAre
<1>3. PICK m \in Nat, n \in Nat : m = P[b - 1].int /\ n = P[b - 1].sse
  BY <1>1, MarksAre
<1>4. x <= m /\ y <= n
  BY <1>1, <1>2, <1>3, Growing
<1>5. PICK c \in {1, 2} : c = RegCount(ts[b])
  BY <1>1, TypeFacts
<1>6. REGN \in Nat /\ SSEN \in Nat
  BY CallAssumption
<1>7. ASSUME Mode(ts[b]) = "integer", k <= c PROVE m + k - 1 \in x .. REGN - 1
  <2>1. m + c <= REGN
    BY <1>1, <1>3, <1>5, <1>7, IntegerMarks
  <2> QED
    BY <1>4, <1>6, <1>7, <2>1
<1>8. ASSUME Mode(ts[b]) = "sse", k <= TypeSize(ts[b]) PROVE n + k - 1 \in y .. SSEN - 1
  <2>1. n + c <= SSEN /\ TypeSize(ts[b]) \in 0 .. c
    BY <1>1, <1>3, <1>5, <1>8, FloatMarks
  <2> QED
    BY <1>4, <1>6, <1>8, <2>1
<1> QED
  BY <1>2, <1>3, <1>5, <1>7, <1>8

LEMMA IntegerPlaced ==
    ASSUME NEW ts, NEW P, Situation(ts, P), NEW n0 \in Nat, NEW a \in 1 .. Len(ts), In(ts, P, a),
           Mode(ts[a]) = "integer", NEW rs \in [0 .. 11 -> WordSet], NEW xs,
           \A b \in a + 1 .. Len(ts) : In(ts, P, b) => Placed(ts, P, n0, rs, xs, PrepReg, b),
           NEW ws, ws = IntRegs(rs, Words(n0 + a - 1, ts[a]), RegCount(ts[a]), P[a - 1].int)
    PROVE  /\ ws \in [0 .. 11 -> WordSet]
           /\ \A b \in a .. Len(ts) : In(ts, P, b) => Placed(ts, P, n0, ws, xs, PrepReg, b)
<1>a. PICK c \in {1, 2} : c = RegCount(ts[a])
  BY TypeFacts
<1>b. PICK n \in Nat : n = P[a - 1].int
  BY IntegerMarks
<1>w. PICK w : w = Words(n0 + a - 1, ts[a])
  OBVIOUS
<1>c. TypeSize(ts[a]) = c
  BY <1>a, IntegerMarks
<1>d. P[a].int = n + c
  BY <1>a, <1>b, IntegerMarks
<1>1. n + c <= REGN
  BY <1>a, <1>b, IntegerMarks
<1>2. REGN \in 4 .. 6
  BY CallAssumption
<1>3. n \in 0 .. 5 /\ (c = 2 => n + 1 \in 0 .. 5)
  BY <1>1, <1>2
<1>4. \A k \in 1 .. c : w[k] = <<n0 + a - 1, k>> /\ w[k] \in WordSet
  <2>1. ASSUME NEW k \in 1 .. TypeSize(ts[a]) PROVE w[k] = <<n0 + a - 1, k>> /\ w[k] \in WordSet
    <3>1. /\ Words(n0 + a - 1, ts[a])[k] = <<n0 + a - 1, k>>
          /\ Words(n0 + a - 1, ts[a])[k] \in WordSet
      BY WordsAre
    <3> QED
      BY <1>w, <3>1
  <2> QED
    BY <1>c, <2>1
<1>5. ws = [r \in 0 .. 11 |-> IF r = PrepReg[n] THEN w[1]
                              ELSE IF c = 2 /\ r = PrepReg[n + 1] THEN w[2]
                              ELSE IF r \in RC_INT THEN Garbage ELSE rs[r]]
  BY <1>a, <1>b, <1>w DEF IntRegs
<1>6. w[1] \in WordSet /\ (c = 2 => w[2] \in WordSet) /\ Garbage \in WordSet
  BY <1>1, <1>4, SMTT(30) DEF WordSet
<1>7. ws \in [0 .. 11 -> WordSet]
  <2>1. \A r \in 0 .. 11 : rs[r] \in WordSet
    OBVIOUS
  <2> QED
    BY <1>5, <1>6, <2>1
<1>8. ASSUME NEW i \in 0 .. 5, i # n, c = 2 => i # n + 1 PROVE ws[PrepReg[i]] = rs[PrepReg[i]]
  <2>1. PrepReg[i] \in 0 .. 11 /\ PrepReg[i] \notin RC_INT /\ PrepReg[i] # PrepReg[n]
    BY <1>3, <1>8, PrepRegs
  <2>2. c = 2 => PrepReg[i] # PrepReg[n + 1]
    BY <1>3, <1>8, PrepRegs
  <2> QED
    BY <1>5, <2>1, <2>2
<1>9. ws[PrepReg[n]] = w[1]
  <2>1. PrepReg[n] \in 0 .. 11
    BY <1>3, PrepRegs
  <2> QED
    BY <1>5, <2>1
<1>10. c = 2 => ws[PrepReg[n + 1]] = w[2]
  <2>1. SUFFICES ASSUME c = 2 PROVE ws[PrepReg[n + 1]] = w[2]
    OBVIOUS
  <2>2. n \in 0 .. 5 /\ n + 1 \in 0 .. 5 /\ n + 1 # n
    BY <1>3, <2>1
  <2>3. PrepReg[n + 1] \in 0 .. 11 /\ PrepReg[n + 1] # PrepReg[n]
    BY <2>2, PrepRegs
  <2> QED
    BY <1>5, <2>1, <2>3
<1>11. Placed(ts, P, n0, ws, xs, PrepReg, a)
  <2>1. ASSUME NEW k \in 1 .. c PROVE ws[PrepReg[n + k - 1]] = <<n0 + a - 1, k>>
    <3>1. CASE k = 1
      <4>1. n + k - 1 = n /\ w[1] = <<n0 + a - 1, 1>>
        BY <1>1, <1>4, <3>1
      <4> QED
        BY <1>9, <3>1, <4>1
    <3>2. CASE k = 2
      <4>1. n + k - 1 = n + 1 /\ c = 2 /\ w[2] = <<n0 + a - 1, 2>>
        BY <1>1, <1>4, <3>2, SMTT(30)
      <4> QED
        BY <1>10, <3>2, <4>1
    <3>3. k = 1 \/ k = 2
      BY <1>a
    <3> QED
      BY <3>1, <3>2, <3>3
  <2> QED
    BY <1>a, <1>b, <2>1 DEF Placed
<1>12. ASSUME NEW b \in a + 1 .. Len(ts), In(ts, P, b) PROVE Placed(ts, P, n0, ws, xs, PrepReg, b)
  <2>1. Placed(ts, P, n0, rs, xs, PrepReg, b)
    BY <1>12
  <2>2. ASSUME Mode(ts[b]) = "integer", NEW k \in 1 .. RegCount(ts[b])
        PROVE  ws[PrepReg[P[b - 1].int + k - 1]] = <<n0 + b - 1, k>>
    <3>1. RegCount(ts[b]) \in Nat
      <4>1. b \in 1 .. Len(ts)
        BY SMTT(30) DEF Situation
      <4>2. RegCount(ts[b]) \in {1, 2}
        BY <4>1, TypeFacts
      <4> QED
        BY <4>2, SMTT(30)
    <3>2. k \in Nat /\ k > 0 /\ k <= RegCount(ts[b])
      BY <3>1
    <3>3. PICK i : i = P[b - 1].int + k - 1
      OBVIOUS
    <3>4. i \in P[a].int .. REGN - 1
      BY <1>12, <2>2, <3>2, <3>3, LaterRegs
    <3>5. i \in n + c .. REGN - 1
      BY <1>d, <3>4
    <3>6. i \in 0 .. 5 /\ i # n /\ (c = 2 => i # n + 1)
      BY <1>1, <1>2, <3>5, SMTT(30)
    <3>7. ws[PrepReg[i]] = rs[PrepReg[i]]
      BY <1>8, <3>6
    <3>8. rs[PrepReg[P[b - 1].int + k - 1]] = <<n0 + b - 1, k>>
      BY <2>1, <2>2 DEF Placed
    <3> QED
      BY <3>3, <3>7, <3>8
  <2> QED
    BY <2>1, <2>2 DEF Placed
<1>13. \A b \in a .. Len(ts) : In(ts, P, b) => Placed(ts, P, n0, ws, xs, PrepReg, b)
  <2>1. \A b \in a .. Len(ts) : b = a \/ b \in a + 1 .. Len(ts)
    BY DEF Situation
  <2> QED
    BY <1>11, <1>12, <2>1
<1> QED
  BY <1>7, <1>13

LEMMA IntegerLoaded ==
    ASSUME NEW ts, NEW P, Situation(ts, P), NEW n0 \in Nat, NEW us, NEW g, NEW s, NEW ps,
           NEW rs \in [0 .. 11 -> WordSet], NEW xs,
           RegsState(ts, P, n0, us, g, s, ps, rs, xs, PrepReg), us # <<>>, Mode(ts[us[1]]) = "integer"
    PROVE  LET c  == RegCount(ts[us[1]])
               w  == Words(n0 + us[1] - 1, ts[us[1]])
               ws == IntRegs(rs, w, c, g - c)
           IN  /\ ws \in [0 .. 11 -> WordSet]
               /\ g - c \in 0 .. 5 /\ (c = 2 => g - c + 1 \in 0 .. 5)
               /\ RegsState(ts, P, n0, Tail(us), g - c, s, ps, ws, xs, PrepReg)
<1>1. PICK a \in 1 .. Len(ts) : a = us[1]
  BY NextArg
<1>2. /\ In(ts, P, a) /\ g = P[a].rint /\ s = P[a].rsse
      /\ \A b \in a + 1 .. Len(ts) : In(ts, P, b) => Placed(ts, P, n0, rs, xs, PrepReg, b)
  BY <1>1, NextArg
<1>3. PICK c \in {1, 2} : c = RegCount(ts[a])
  BY TypeFacts
<1>4. Mode(ts[a]) = "integer"
  BY <1>1
<1>5. PICK n \in Nat : n = P[a - 1].int
  BY <1>2, <1>4, IntegerMarks
<1>6. P[a - 1].rint = n /\ P[a].rint = n + c /\ P[a].rsse = P[a - 1].rsse
  BY <1>2, <1>3, <1>4, <1>5, IntegerMarks
<1>7. REGN \in 4 .. 6
  BY CallAssumption
<1>8. n + c <= REGN
  BY <1>2, <1>3, <1>4, <1>5, IntegerMarks
<1>9. n \in 0 .. 5 /\ (c = 2 => n + 1 \in 0 .. 5)
  BY <1>7, <1>8
<1>10. g - c = n
  <2>1. g = n + c
    BY <1>2, <1>6
  <2> QED
    BY <2>1
<1>11. PICK w : w = Words(n0 + a - 1, ts[a])
  OBVIOUS
<1>12. PICK ws : ws = IntRegs(rs, w, c, n)
  OBVIOUS
<1>13. /\ ws \in [0 .. 11 -> WordSet]
       /\ \A b \in a .. Len(ts) : In(ts, P, b) => Placed(ts, P, n0, ws, xs, PrepReg, b)
  <2>1. ws = IntRegs(rs, Words(n0 + a - 1, ts[a]), RegCount(ts[a]), P[a - 1].int)
    BY <1>3, <1>5, <1>11, <1>12
  <2> QED
    BY <1>2, <1>4, <2>1, IntegerPlaced
<1>14. n = P[a - 1].rint /\ s = P[a - 1].rsse
  BY <1>2, <1>6
<1>15. RegsState(ts, P, n0, Tail(us), n, s, ps, ws, xs, PrepReg)
  BY <1>1, <1>13, <1>14, ArgLoaded
<1>16. g - c + 1 = n + 1
  BY <1>10
<1> QED
  BY <1>1, <1>3, <1>9, <1>10, <1>11, <1>12, <1>13, <1>15, <1>16

PairIn(xs, w, n) ==
    LET loaded == [xs EXCEPT ![0] = w[1], ![1] = w[2]]
        first == [loaded EXCEPT ![n] = loaded[0]]
    IN  IF n = 0 THEN loaded ELSE [first EXCEPT ![n + 1] = first[1]]

FloatRegs(xs, w, c, n) == IF c = 2 THEN PairIn(xs, w, n) ELSE [xs EXCEPT ![n] = WordOf(w, 1)]

\* The words w, at most c, are loaded into the registers of xs from n on.
Loadable(m, xs, n, c, w, z) ==
    /\ m \in Nat /\ n \in Nat /\ c \in {1, 2} /\ z \in 0 .. c
    /\ n + c <= m + 1 /\ (c = 2 => n # 1 /\ z = 2)
    /\ xs \in [0 .. m -> WordSet]
    /\ DOMAIN w = 1 .. z /\ \A k \in 1 .. z : w[k] \in WordSet

LoadedInto(m, xs, n, c, w, z, ys) ==
    /\ ys \in [0 .. m -> WordSet]
    /\ \A k \in 1 .. z : ys[n + k - 1] = w[k]
    /\ \A i \in n + c .. m : ys[i] = xs[i]

\* A pair that is not in %xmm1 and %xmm2 gets to its registers.
LEMMA PairIs ==
    ASSUME NEW m, NEW xs, NEW n, NEW w, Loadable(m, xs, n, 2, w, 2)
    PROVE  LoadedInto(m, xs, n, 2, w, 2, PairIn(xs, w, n))
<1>a. PICK S : S = WordSet
  OBVIOUS
<1>b. m \in Nat /\ n \in Nat /\ n + 1 <= m /\ n # 1
  BY DEF Loadable
<1>c. xs \in [0 .. m -> S] /\ w[1] \in S /\ w[2] \in S
  BY <1>a DEF Loadable
<1> DEFINE ys == PairIn(xs, w, n)
<1> HIDE DEF ys
<1>1. PICK x : x = [xs EXCEPT ![0] = w[1], ![1] = w[2]]
  OBVIOUS
<1>2. PICK y : y = [x EXCEPT ![n] = x[0]]
  OBVIOUS
<1>3. 0 \in 0 .. m /\ 1 \in 0 .. m /\ n \in 0 .. m /\ n + 1 \in 0 .. m
  BY <1>b
<1>4. x \in [0 .. m -> S] /\ x[0] = w[1] /\ x[1] = w[2] /\ \A i \in 2 .. m : x[i] = xs[i]
  <2>1. PICK x1 : x1 = [xs EXCEPT ![0] = w[1]]
    OBVIOUS
  <2>2. x = [x1 EXCEPT ![1] = w[2]]
    BY <1>1, <2>1
  <2>3. x1 \in [0 .. m -> S] /\ x1[0] = w[1] /\ \A i \in 2 .. m : x1[i] = xs[i]
    BY <1>b, <1>c, <1>3, <2>1
  <2>4. x \in [0 .. m -> S]
    BY <1>b, <1>c, <1>3, <2>2, <2>3
  <2>5. x[0] = w[1] /\ x[1] = w[2]
    BY <1>b, <1>c, <1>3, <2>2, <2>3
  <2>6. \A i \in 2 .. m : x[i] = xs[i]
    BY <1>b, <1>c, <1>3, <2>2, <2>3
  <2> QED
    BY <2>4, <2>5, <2>6
<1>5. \A i \in n + 2 .. m : i \in 0 .. m /\ i \in 2 .. m /\ i # n /\ i # n + 1
  BY <1>b
<1>6. /\ ys \in [0 .. m -> S] /\ ys[n] = w[1] /\ ys[n + 1] = w[2]
      /\ \A i \in n + 2 .. m : ys[i] = xs[i]
  <2>1. CASE n = 0
    <3>1. ys = x
      BY <1>1, <2>1 DEF PairIn, ys
    <3> QED
      BY <1>b, <1>4, <1>5, <2>1, <3>1
  <2>2. CASE n # 0
    <3>1. y \in [0 .. m -> S] /\ y[n] = w[1] /\ y[1] = w[2]
      BY <1>b, <1>2, <1>3, <1>4
    <3>2. \A i \in n + 2 .. m : y[i] = xs[i]
      BY <1>b, <1>2, <1>4, <1>5
    <3>3. ys = [y EXCEPT ![n + 1] = y[1]]
      BY <1>1, <1>2, <2>2 DEF PairIn, ys
    <3>4. ys \in [0 .. m -> S] /\ ys[n + 1] = w[2]
      BY <1>b, <1>c, <1>3, <3>1, <3>3
    <3>5. ys[n] = w[1]
      BY <1>b, <1>3, <3>1, <3>3
    <3>6. \A i \in n + 2 .. m : ys[i] = xs[i]
      BY <1>b, <1>5, <3>1, <3>2, <3>3
    <3> QED
      BY <3>4, <3>5, <3>6
  <2> QED
    BY <2>1, <2>2
<1>7. ASSUME NEW k \in 1 .. 2 PROVE ys[n + k - 1] = w[k]
  <2>1. (k = 1 /\ n + k - 1 = n) \/ (k = 2 /\ n + k - 1 = n + 1)
    BY <1>b
  <2> QED
    BY <1>6, <2>1
<1> QED
  BY <1>a, <1>6, <1>7 DEF LoadedInto, ys

LEMMA FloatRegsAre ==
    ASSUME NEW m, NEW xs, NEW n, NEW c, NEW w, NEW z, Loadable(m, xs, n, c, w, z)
    PROVE  LoadedInto(m, xs, n, c, w, z, FloatRegs(xs, w, c, n))
<1>1. CASE c = 2
  <2>1. z = 2
    BY <1>1 DEF Loadable
  <2>2. FloatRegs(xs, w, c, n) = PairIn(xs, w, n)
    BY <1>1 DEF FloatRegs
  <2> QED
    BY <1>1, <2>1, <2>2, PairIs
<1>2. CASE c # 2
  <2>0. /\ m \in Nat /\ n \in Nat /\ c = 1 /\ z \in 0 .. 1 /\ n <= m /\ xs \in [0 .. m -> WordSet]
        /\ DOMAIN w = 1 .. z /\ \A k \in 1 .. z : w[k] \in WordSet
    BY <1>2 DEF Loadable
  <2>1. PICK x : x = WordOf(w, 1)
    OBVIOUS
  <2>2. PICK ys : ys = [xs EXCEPT ![n] = x] /\ ys = FloatRegs(xs, w, c, n)
    BY <1>2, <2>1 DEF FloatRegs
  <2>3. n \in 0 .. m /\ \A i \in n + 1 .. m : i \in 0 .. m /\ i # n
    BY <2>0
  <2>4. x \in WordSet /\ (z = 1 => x = w[1])
    <3>1. z = 0 \/ z = 1
      BY <2>0
    <3>2. Garbage \in WordSet
      BY DEF WordSet
    <3>3. (z = 0 => 1 \notin DOMAIN w) /\ (z = 1 => 1 \in DOMAIN w /\ w[1] \in WordSet)
      BY <2>0
    <3> QED
      BY <2>1, <3>1, <3>2, <3>3 DEF WordOf
  <2>5. ys \in [0 .. m -> WordSet] /\ ys[n] = x /\ \A i \in n + 1 .. m : ys[i] = xs[i]
    BY <2>0, <2>2, <2>3, <2>4
  <2>6. ASSUME NEW k \in 1 .. z PROVE ys[n + k - 1] = w[k]
    <3>1. k = 1 /\ z = 1 /\ n + k - 1 = n
      BY <2>0
    <3> QED
      BY <2>4, <2>5, <3>1
  <2> QED
    BY <2>0, <2>2, <2>5, <2>6 DEF LoadedInto
<1> QED
  BY <1>1, <1>2

LEMMA FloatPlaced ==
    ASSUME NEW ts, NEW P, Situation(ts, P), NEW n0 \in Nat, NEW a \in 1 .. Len(ts), In(ts, P, a),
           Mode(ts[a]) = "sse", NEW rs, NEW xs \in [0 .. SSEN - 1 -> WordSet], NEW reg,
           \A b \in a + 1 .. Len(ts) : In(ts, P, b) => Placed(ts, P, n0, rs, xs, reg, b),
           NEW ys, ys = FloatRegs(xs, Words(n0 + a - 1, ts[a]), RegCount(ts[a]), P[a - 1].sse)
    PROVE  /\ ys \in [0 .. SSEN - 1 -> WordSet]
           /\ \A b \in a .. Len(ts) : In(ts, P, b) => Placed(ts, P, n0, rs, ys, reg, b)
<1>a. PICK c \in {1, 2} : c = RegCount(ts[a])
  BY TypeFacts
<1>b. PICK n \in Nat : n = P[a - 1].sse
  BY FloatMarks
<1>w. PICK w : w = Words(n0 + a - 1, ts[a])
  OBVIOUS
<1>z. PICK z \in 0 .. c : z = TypeSize(ts[a]) /\ (c = 2 => z = 2)
  BY <1>a, FloatMarks
<1>d. P[a].sse = n + c
  BY <1>a, <1>b, FloatMarks
<1>1. n + c <= SSEN /\ (c = 2 => n # 1)
  BY <1>a, <1>b, FloatMarks
<1>2. SSEN \in Nat
  BY CallAssumption
<1>4. /\ DOMAIN w = 1 .. z
      /\ \A k \in 1 .. z : w[k] = <<n0 + a - 1, k>> /\ w[k] \in WordSet
  <2>0. DOMAIN Words(n0 + a - 1, ts[a]) = 1 .. TypeSize(ts[a])
    BY WordsAre
  <2>1. ASSUME NEW k \in 1 .. TypeSize(ts[a]) PROVE w[k] = <<n0 + a - 1, k>> /\ w[k] \in WordSet
    <3>1. /\ Words(n0 + a - 1, ts[a])[k] = <<n0 + a - 1, k>>
          /\ Words(n0 + a - 1, ts[a])[k] \in WordSet
      BY WordsAre
    <3> QED
      BY <1>w, <3>1
  <2> QED
    BY <1>w, <1>z, <2>0, <2>1
<1>5. ys = FloatRegs(xs, w, c, n)
  BY <1>a, <1>b, <1>w
<1>6. /\ ys \in [0 .. SSEN - 1 -> WordSet]
      /\ \A k \in 1 .. z : ys[n + k - 1] = w[k]
      /\ \A i \in n + c .. SSEN - 1 : ys[i] = xs[i]
  <2>1. PICK m \in Nat : m = SSEN - 1
    BY <1>1, <1>2
  <2>2. xs \in [0 .. m -> WordSet] /\ n + c <= m + 1
    BY <1>1, <2>1
  <2>3. Loadable(m, xs, n, c, w, z)
    BY <1>1, <1>4, <1>z, <2>1, <2>2 DEF Loadable
  <2>4. LoadedInto(m, xs, n, c, w, z, ys)
    BY <1>5, <2>3, FloatRegsAre
  <2> QED
    BY <2>1, <2>4 DEF LoadedInto
<1>11. Placed(ts, P, n0, rs, ys, reg, a)
  <2>1. ASSUME NEW k \in 1 .. z PROVE ys[n + k - 1] = <<n0 + a - 1, k>>
    BY <1>4, <1>6
  <2>2. ~ (Mode(ts[a]) = "integer")
    OBVIOUS
  <2> QED
    BY <1>z, <1>b, <2>1, <2>2 DEF Placed
<1>12. ASSUME NEW b \in a + 1 .. Len(ts), In(ts, P, b) PROVE Placed(ts, P, n0, rs, ys, reg, b)
  <2>1. Placed(ts, P, n0, rs, xs, reg, b)
    BY <1>12
  <2>2. ASSUME Mode(ts[b]) = "sse", NEW k \in 1 .. TypeSize(ts[b])
        PROVE  ys[P[b - 1].sse + k - 1] = <<n0 + b - 1, k>>
    <3>1. TypeSize(ts[b]) \in Nat
      <4>1. b \in 1 .. Len(ts)
        BY DEF Situation
      <4> QED
        BY <4>1, TypeFacts
    <3>2. k \in Nat /\ k > 0 /\ k <= TypeSize(ts[b])
      BY <3>1
    <3>3. PICK i : i = P[b - 1].sse + k - 1
      OBVIOUS
    <3>4. i \in P[a].sse .. SSEN - 1
      BY <1>12, <2>2, <3>2, <3>3, LaterRegs
    <3>5. i \in n + c .. SSEN - 1
      BY <1>d, <3>4
    <3>7. ys[i] = xs[i]
      BY <1>6, <3>5
    <3>8. xs[P[b - 1].sse + k - 1] = <<n0 + b - 1, k>>
      BY <2>1, <2>2 DEF Placed
    <3> QED
      BY <3>3, <3>7, <3>8
  <2> QED
    BY <2>1, <2>2 DEF Placed
<1>13. \A b \in a .. Len(ts) : In(ts, P, b) => Placed(ts, P, n0, rs, ys, reg, b)
  <2>1. \A b \in a .. Len(ts) : b = a \/ b \in a + 1 .. Len(ts)
    BY DEF Situation
  <2> QED
    BY <1>11, <1>12, <2>1
<1> QED
  BY <1>6, <1>13

LEMMA FloatLoaded ==
    ASSUME NEW ts, NEW P, Situation(ts, P), NEW n0 \in Nat, NEW us, NEW g, NEW s, NEW ps,
           NEW rs, NEW xs \in [0 .. SSEN - 1 -> WordSet], NEW reg,
           RegsState(ts, P, n0, us, g, s, ps, rs, xs, reg), us # <<>>, Mode(ts[us[1]]) = "sse"
    PROVE  LET c  == RegCount(ts[us[1]])
               w  == Words(n0 + us[1] - 1, ts[us[1]])
               ys == FloatRegs(xs, w, c, s - c)
           IN  /\ ys \in [0 .. SSEN - 1 -> WordSet]
               /\ RegsState(ts, P, n0, Tail(us), g, s - c, ps, rs, ys, reg)
<1>1. PICK a \in 1 .. Len(ts) : a = us[1]
  BY NextArg
<1>2. /\ In(ts, P, a) /\ g = P[a].rint /\ s = P[a].rsse
      /\ \A b \in a + 1 .. Len(ts) : In(ts, P, b) => Placed(ts, P, n0, rs, xs, reg, b)
  BY <1>1, NextArg
<1>3. PICK c \in {1, 2} : c = RegCount(ts[a])
  BY TypeFacts
<1>4. Mode(ts[a]) = "sse"
  BY <1>1
<1>5. PICK n \in Nat : n = P[a - 1].sse
  BY <1>2, <1>4, FloatMarks
<1>6. P[a - 1].rsse = n /\ P[a].rsse = n + c /\ P[a].rint = P[a - 1].rint
  BY <1>2, <1>3, <1>4, <1>5, FloatMarks
<1>10. s - c = n
  <2>1. s = n + c
    BY <1>2, <1>6
  <2> QED
    BY <2>1
<1>11. PICK w : w = Words(n0 + a - 1, ts[a])
  OBVIOUS
<1>12. PICK ys : ys = FloatRegs(xs, w, c, n)
  OBVIOUS
<1>13. /\ ys \in [0 .. SSEN - 1 -> WordSet]
       /\ \A b \in a .. Len(ts) : In(ts, P, b) => Placed(ts, P, n0, rs, ys, reg, b)
  <2>1. ys = FloatRegs(xs, Words(n0 + a - 1, ts[a]), RegCount(ts[a]), P[a - 1].sse)
    BY <1>3, <1>5, <1>11, <1>12
  <2> QED
    BY <1>2, <1>4, <2>1, FloatPlaced
<1>14. n = P[a - 1].rsse /\ g = P[a - 1].rint
  BY <1>2, <1>6
<1>15. RegsState(ts, P, n0, Tail(us), g, n, ps, rs, ys, reg)
  BY <1>1, <1>13, <1>14, ArgLoaded
<1> QED
  BY <1>1, <1>3, <1>10, <1>11, <1>12, <1>13, <1>15

-----------------------------------------------------------------------------
(* The call, and the callee                                                *)

AllPlaced(ts, P, n0, rs, xs, reg) ==
    \A a \in 1 .. Len(ts) : In(ts, P, a) => Placed(ts, P, n0, rs, xs, reg, a)

LEMMA AllLoaded ==
    ASSUME NEW ts, NEW P, Situation(ts, P), NEW n0, NEW us, NEW g, NEW s, NEW ps, NEW rs, NEW xs, NEW reg,
           RegsState(ts, P, n0, us, g, s, ps, rs, xs, reg), us = <<>>
    PROVE  g = 0 /\ s = 0 /\ AllPlaced(ts, P, n0, rs, xs, reg)
<1>1. PICK N \in Nat : N = Len(ts)
  BY DEF Situation
<1>2. Len(us) = 0
  OBVIOUS
<1>3. PICK j \in 0 .. N :
        /\ \A b \in 1 .. j : In(ts, P, b) => \E p \in 1 .. Len(us) : us[p] = b
        /\ g = P[j].rint /\ s = P[j].rsse
        /\ \A b \in j + 1 .. N : In(ts, P, b) => Placed(ts, P, n0, rs, xs, reg, b)
  BY <1>1 DEF RegsState
<1>4. \A p \in 1 .. 0 : FALSE
  OBVIOUS
<1>5. \A b \in 1 .. j : ~ In(ts, P, b)
  BY <1>2, <1>3, <1>4
<1>6. P[j].rint = P[0].rint /\ P[j].rsse = P[0].rsse
  <2>1. 0 \in 0 .. Len(ts) /\ j \in 0 .. Len(ts)
    BY <1>1
  <2>2. \A b \in 0 + 1 .. j : ~ In(ts, P, b)
    BY <1>5
  <2> QED
    BY <2>1, <2>2, NoneBetween
<1>7. P[0].rint = 0 /\ P[0].rsse = 0
  BY NoMarkIs
<1>8. \A b \in 1 .. N : b \in 1 .. j \/ b \in j + 1 .. N
  OBVIOUS
<1>9. AllPlaced(ts, P, n0, rs, xs, reg)
  BY <1>1, <1>3, <1>5, <1>8 DEF AllPlaced
<1> QED
  BY <1>3, <1>6, <1>7, <1>9

\* The copies of %r10 and %r11
Moved(rs, n) == [rs EXCEPT ![2] = IF n > 2 THEN rs[10] ELSE @, ![1] = IF n > 3 THEN rs[11] ELSE @]

LEMMA MovedIs ==
    ASSUME NEW rs \in [0 .. 11 -> WordSet], NEW n \in Nat
    PROVE  /\ Moved(rs, n) \in [0 .. 11 -> WordSet]
           /\ \A i \in 0 .. 5 : i < n => Moved(rs, n)[ArgReg[i]] = rs[PrepReg[i]]
<1>1. PICK S : S = WordSet
  OBVIOUS
<1>2. PICK x : x = [rs EXCEPT ![2] = IF n > 2 THEN rs[10] ELSE @]
  OBVIOUS
<1>3. PICK y : y = Moved(rs, n)
  OBVIOUS
<1>4. y = [x EXCEPT ![1] = IF n > 3 THEN rs[11] ELSE @]
  BY <1>2, <1>3 DEF Moved
<1>5. /\ x \in [0 .. 11 -> S] /\ x[2] = (IF n > 2 THEN rs[10] ELSE rs[2])
      /\ \A r \in 0 .. 11 : r # 2 => x[r] = rs[r]
  BY <1>1, <1>2
<1>6. /\ y \in [0 .. 11 -> S] /\ y[1] = (IF n > 3 THEN rs[11] ELSE x[1])
      /\ \A r \in 0 .. 11 : r # 1 => y[r] = x[r]
  BY <1>1, <1>4, <1>5
<1>7. n > 2 => y[2] = rs[10]
  BY <1>5, <1>6
<1>8. n > 3 => y[1] = rs[11]
  BY <1>6
<1>9. y[7] = rs[7] /\ y[6] = rs[6] /\ y[8] = rs[8] /\ y[9] = rs[9]
  BY <1>5, <1>6
<1>10. ASSUME NEW i \in 0 .. 5, i < n PROVE y[ArgReg[i]] = rs[PrepReg[i]]
  <2>1. i = 0 \/ i = 1 \/ i = 2 \/ i = 3 \/ i = 4 \/ i = 5
    OBVIOUS
  <2>2. CASE i = 2
    BY <1>7, <1>10, <2>2, RegNumbers
  <2>3. CASE i = 3
    BY <1>8, <1>10, <2>3, RegNumbers
  <2>4. CASE i # 2 /\ i # 3
    BY <1>9, <2>1, <2>4, RegNumbers
  <2> QED
    BY <2>2, <2>3, <2>4
<1> QED
  BY <1>1, <1>3, <1>6, <1>10

LEMMA AllMoved ==
    ASSUME NEW ts, NEW P, Situation(ts, P), NEW n0 \in Nat, NEW rs \in [0 .. 11 -> WordSet], NEW xs,
           AllPlaced(ts, P, n0, rs, xs, PrepReg)
    PROVE  AllPlaced(ts, P, n0, Moved(rs, P[Len(ts)].int), xs, ArgReg)
<1>0. PICK n \in Nat : n = P[Len(ts)].int
  <2>1. Len(ts) \in 0 .. Len(ts)
    BY DEF Situation
  <2> QED
    BY <2>1, MarksAre
<1>1. PICK y : y = Moved(rs, n)
  OBVIOUS
<1>2. \A i \in 0 .. 5 : i < n => y[ArgReg[i]] = rs[PrepReg[i]]
  BY <1>1, MovedIs
<1>3. ASSUME NEW a \in 1 .. Len(ts), In(ts, P, a) PROVE Placed(ts, P, n0, y, xs, ArgReg, a)
  <2>1. Placed(ts, P, n0, rs, xs, PrepReg, a)
    BY <1>3 DEF AllPlaced
  <2>c. PICK c \in {1, 2} : c = RegCount(ts[a])
    BY TypeFacts
  <2>2. ASSUME Mode(ts[a]) = "integer", NEW k \in 1 .. c
        PROVE  y[ArgReg[P[a - 1].int + k - 1]] = <<n0 + a - 1, k>>
    <3>2. PICK m \in Nat : m = P[a - 1].int
      BY <1>3, <2>2, IntegerMarks
    <3>3. m + c <= REGN /\ P[a].int = m + c
      BY <1>3, <2>2, <2>c, <3>2, IntegerMarks
    <3>4. P[a].int <= n
      <4>1. a \in 0 .. Len(ts) /\ Len(ts) \in a .. Len(ts)
        BY DEF Situation
      <4> QED
        BY <1>0, <4>1, Growing
    <3>5. PICK i \in Int : i = m + k - 1
      OBVIOUS
    <3>6. i \in 0 .. 5 /\ i < n
      <4>1. REGN \in 4 .. 6
        BY CallAssumption
      <4>2. m + c <= n
        BY <3>3, <3>4
      <4>3. m + c <= REGN
        BY <3>3
      <4>4. k <= c /\ k >= 1
        OBVIOUS
      <4>6. c \in Nat
        OBVIOUS
      <4>5. m + c <= 6
        <5>1. \A r \in 4 .. 6 : m + c <= r => m + c <= 6
          BY <4>6
        <5> QED
          BY <4>1, <4>3, <5>1
      <4>7. k \in Nat
        BY <4>6
      <4>8. i >= 0
        BY <3>5, <4>4, <4>7
      <4>9. i < m + c
        BY <3>5, <4>4, <4>6, <4>7
      <4>10. i <= 5
        BY <4>5, <4>6, <4>9
      <4>11. i < n
        BY <4>2, <4>6, <4>9
      <4> QED
        BY <4>8, <4>10, <4>11
    <3>7. y[ArgReg[i]] = rs[PrepReg[i]]
      BY <1>2, <3>6
    <3>8. rs[PrepReg[P[a - 1].int + k - 1]] = <<n0 + a - 1, k>>
      BY <2>1, <2>2, <2>c DEF Placed
    <3> QED
      BY <3>2, <3>5, <3>7, <3>8
  <2> QED
    BY <2>1, <2>2, <2>c DEF Placed
<1> QED
  BY <1>0, <1>1, <1>3 DEF AllPlaced

\* What is passed when the function is called
Passed(ts, P, n0, ps, rs, xs) ==
    /\ Laid(ts, P, n0, ps, 0, 0) /\ AllPlaced(ts, P, n0, rs, xs, ArgReg)
    /\ rs \in [0 .. 11 -> WordSet] /\ xs \in [0 .. SSEN - 1 -> WordSet]

Agree(S, m, n, q, t) == /\ m \in Nat /\ n \in Nat /\ m <= n /\ q \in [1 .. m -> S] /\ t \in [1 .. n -> S]
                        /\ \A k \in 1 .. m : q[k] = t[k]

LEMMA PrefixIs ==
    ASSUME NEW S, NEW m, NEW n, NEW q, NEW t, Agree(S, m, n, q, t)
    PROVE  IsPrefix(q, t)
<1>0. /\ m \in Nat /\ n \in Nat /\ m <= n /\ q \in [1 .. m -> S] /\ t \in [1 .. n -> S]
      /\ \A k \in 1 .. m : q[k] = t[k]
  BY DEF Agree
<1>1. q \in Seq(S) /\ t \in Seq(S) /\ Len(q) = m /\ Len(t) = n
  BY <1>0
<1>2. PICK x : x = SubSeq(q, 1, m)
  OBVIOUS
<1>3. PICK y : y = SubSeq(t, 1, m)
  OBVIOUS
<1>4. x \in Seq(S) /\ Len(x) = m /\ \A i \in 1 .. m : x[i] = q[i]
  <2>1. \A i \in 1 .. m : q[i] \in S
    BY <1>0
  <2>2. /\ SubSeq(q, 1, m) \in Seq(S) /\ Len(SubSeq(q, 1, m)) = (IF 1 <= m THEN m - 1 + 1 ELSE 0)
        /\ \A i \in 1 .. m - 1 + 1 : SubSeq(q, 1, m)[i] = q[1 + i - 1]
    BY <1>0, <2>1, SubSeqProperties
  <2> QED
    BY <1>0, <1>2, <2>2
<1>5. y \in Seq(S) /\ Len(y) = m /\ \A i \in 1 .. m : y[i] = t[i]
  <2>1. \A i \in 1 .. m : t[i] \in S
    BY <1>0
  <2>2. /\ SubSeq(t, 1, m) \in Seq(S) /\ Len(SubSeq(t, 1, m)) = (IF 1 <= m THEN m - 1 + 1 ELSE 0)
        /\ \A i \in 1 .. m - 1 + 1 : SubSeq(t, 1, m)[i] = t[1 + i - 1]
    BY <1>0, <2>1, SubSeqProperties
  <2> QED
    BY <1>0, <1>3, <2>2
<1>6. x = y
  BY <1>0, <1>4, <1>5, SeqEqual
<1> QED
  BY <1>0, <1>1, <1>2, <1>3, <1>6 DEF IsPrefix

\* The parameter a has the words q of its argument.
Begins(ts, n0, a, q) == q \in Seq(WordSet) /\ IsPrefix(Words(n0 + a - 1, ts[a]), q)

LEMMA BeginsIs ==
    ASSUME NEW ts, NEW P, Situation(ts, P), NEW n0 \in Nat, NEW a \in 1 .. Len(ts),
           NEW n \in Nat, TypeSize(ts[a]) <= n, NEW q \in [1 .. n -> WordSet],
           \A k \in 1 .. TypeSize(ts[a]) : q[k] = <<n0 + a - 1, k>>
    PROVE  Begins(ts, n0, a, q)
<1>1. PICK m \in Nat : m = TypeSize(ts[a])
  BY TypeFacts
<1>2. PICK w : w = Words(n0 + a - 1, ts[a])
  OBVIOUS
<1>3. \A k \in 1 .. m : w[k] = <<n0 + a - 1, k>> /\ w[k] \in WordSet
  <2>1. ASSUME NEW k \in 1 .. TypeSize(ts[a]) PROVE w[k] = <<n0 + a - 1, k>> /\ w[k] \in WordSet
    <3>1. /\ Words(n0 + a - 1, ts[a])[k] = <<n0 + a - 1, k>>
          /\ Words(n0 + a - 1, ts[a])[k] \in WordSet
      BY WordsAre
    <3> QED
      BY <1>2, <3>1
  <2> QED
    BY <1>1, <2>1
<1>4. w = [k \in 1 .. m |-> <<n0 + a - 1, k>>]
  BY <1>1, <1>2 DEF Words
<1>5. PICK S : S = WordSet
  OBVIOUS
<1>6. w \in [1 .. m -> S]
  BY <1>3, <1>4, <1>5
<1>7. q \in [1 .. n -> S] /\ m <= n /\ \A k \in 1 .. m : w[k] = q[k]
  BY <1>1, <1>3, <1>5
<1>8. IsPrefix(w, q)
  <2>1. Agree(S, m, n, w, q)
    BY <1>6, <1>7 DEF Agree
  <2> QED
    BY <2>1, PrefixIs
<1>9. q \in Seq(WordSet)
  BY <1>5, <1>7
<1> QED
  BY <1>2, <1>8, <1>9 DEF Begins

LEMMA FromIntegers ==
    ASSUME NEW ts, NEW P, Situation(ts, P), NEW n0 \in Nat, NEW ps, NEW rs, NEW xs,
           Passed(ts, P, n0, ps, rs, xs), NEW a \in 1 .. Len(ts), In(ts, P, a), Mode(ts[a]) = "integer"
    PROVE  Begins(ts, n0, a, [k \in 1 .. RegCount(ts[a]) |-> rs[arg_regs(P[a - 1].int + k - 1)]])
<1>1. PICK c \in {1, 2} : c = RegCount(ts[a])
  BY TypeFacts
<1>2. PICK n \in Nat : n = P[a - 1].int
  BY IntegerMarks
<1>3. n + c <= REGN /\ TypeSize(ts[a]) = c
  BY <1>1, <1>2, IntegerMarks
<1>4. PICK q : q = [k \in 1 .. c |-> rs[arg_regs(n + k - 1)]]
  OBVIOUS
<1>5. \A k \in 1 .. c : rs[ArgReg[n + k - 1]] = <<n0 + a - 1, k>>
  <2>1. Placed(ts, P, n0, rs, xs, ArgReg, a)
    BY DEF Passed, AllPlaced
  <2> QED
    BY <1>1, <1>2, <2>1 DEF Placed
<1>6. \A k \in 1 .. c : n + k - 1 \in 0 .. 5
  <2>1. REGN \in 4 .. 6
    BY CallAssumption
  <2> QED
    BY <1>3, <2>1
<1>7. \A i \in 0 .. 5 : ArgReg[i] = arg_regs(i)
  BY DEF ArgReg
<1>8. \A k \in 1 .. c : q[k] = <<n0 + a - 1, k>>
  BY <1>4, <1>5, <1>6, <1>7
<1>9. \A k \in 1 .. c : <<n0 + a - 1, k>> \in WordSet
  <2>1. n0 + a - 1 \in Nat
    OBVIOUS
  <2> QED
    BY <2>1 DEF WordSet
<1>10. q \in [1 .. c -> WordSet]
  BY <1>4, <1>8, <1>9
<1>11. Begins(ts, n0, a, q)
  <2>1. c \in Nat /\ TypeSize(ts[a]) <= c /\ \A k \in 1 .. TypeSize(ts[a]) : q[k] = <<n0 + a - 1, k>>
    BY <1>3, <1>8
  <2> QED
    BY <1>10, <2>1, BeginsIs
<1> QED
  BY <1>1, <1>2, <1>4, <1>11

LEMMA FromFloats ==
    ASSUME NEW ts, NEW P, Situation(ts, P), NEW n0 \in Nat, NEW ps, NEW rs, NEW xs,
           Passed(ts, P, n0, ps, rs, xs), NEW a \in 1 .. Len(ts), In(ts, P, a), Mode(ts[a]) = "sse"
    PROVE  Begins(ts, n0, a, [k \in 1 .. RegCount(ts[a]) |-> xs[P[a - 1].sse + k - 1]])
<1>1. PICK c \in {1, 2} : c = RegCount(ts[a])
  BY TypeFacts
<1>2. PICK n \in Nat : n = P[a - 1].sse
  BY FloatMarks
<1>3. n + c <= SSEN /\ TypeSize(ts[a]) \in 0 .. c
  BY <1>1, <1>2, FloatMarks
<1>4. PICK q : q = [k \in 1 .. c |-> xs[n + k - 1]]
  OBVIOUS
<1>5. \A k \in 1 .. TypeSize(ts[a]) : xs[n + k - 1] = <<n0 + a - 1, k>>
  <2>1. Placed(ts, P, n0, rs, xs, ArgReg, a)
    BY DEF Passed, AllPlaced
  <2> QED
    BY <1>2, <2>1 DEF Placed
<1>6. \A k \in 1 .. c : n + k - 1 \in 0 .. SSEN - 1
  <2>1. SSEN \in Nat
    BY CallAssumption
  <2> QED
    BY <1>3, <2>1
<1>7. \A k \in 1 .. TypeSize(ts[a]) : q[k] = <<n0 + a - 1, k>>
  <2>1. \A k \in 1 .. TypeSize(ts[a]) : k \in 1 .. c
    BY <1>3
  <2> QED
    BY <1>4, <1>5, <2>1
<1>8. q \in [1 .. c -> WordSet]
  <2>1. \A i \in 0 .. SSEN - 1 : xs[i] \in WordSet
    BY DEF Passed
  <2> QED
    BY <1>4, <1>6, <2>1
<1>9. Begins(ts, n0, a, q)
  <2>1. c \in Nat /\ TypeSize(ts[a]) <= c
    BY <1>3
  <2> QED
    BY <1>7, <1>8, <2>1, BeginsIs
<1> QED
  BY <1>1, <1>2, <1>4, <1>9

WordsAt(ps, addr, n) == [k \in 1 .. n |-> WordOf(ps, addr + k)]

\* q is the words of the argument a.
HasWords(ts, n0, a, q) == q \in [1 .. TypeSize(ts[a]) -> WordSet]
                          /\ \A k \in 1 .. TypeSize(ts[a]) : q[k] = <<n0 + a - 1, k>>

LEMMA StackIs ==
    ASSUME NEW ts, NEW P, Situation(ts, P), NEW n0 \in Nat, NEW ps, NEW rs, NEW xs,
           Passed(ts, P, n0, ps, rs, xs), NEW a \in 1 .. Len(ts), ~ In(ts, P, a)
    PROVE  HasWords(ts, n0, a, WordsAt(ps, Start(ts, P, a), TypeSize(ts[a])))
<1>1. PICK n \in Nat : n = TypeSize(ts[a])
  BY TypeFacts
<1>2. PICK o \in Nat : o = Start(ts, P, a)
  BY StackMarks
<1>3. PICK z \in Nat : z = StackSize(ts, P)
  BY StackSizeIs
<1>4. o + n <= z
  <2>1. PICK e \in Nat : e = P[a].end
    <3>1. a \in 0 .. Len(ts)
      OBVIOUS
    <3> QED
      BY <3>1, MarksAre
  <2>2. o = e - n
    BY <1>1, <1>2, <2>1 DEF Start
  <2>3. P[a].end <= StackSize(ts, P)
    BY StackSizeIs
  <2>4. e <= z
    BY <1>3, <2>1, <2>3
  <2> QED
    BY <2>2, <2>4
<1>5. ps \in Seq(WordSet) /\ Len(ps) = z
  BY <1>3 DEF Passed, Laid
<1>6. \A k \in 1 .. n : ps[o + k] = <<n0 + a - 1, k>>
  <2>1. \A k \in 1 .. TypeSize(ts[a]) : ps[Start(ts, P, a) - 0 + k] = <<n0 + a - 1, k>>
    <3>1. a \in 0 + 1 .. Len(ts)
      OBVIOUS
    <3> QED
      BY <3>1 DEF Passed, Laid
  <2>2. o - 0 = o
    OBVIOUS
  <2> QED
    BY <1>1, <1>2, <2>1, <2>2
<1>7. PICK q : q = [k \in 1 .. n |-> WordOf(ps, o + k)]
  OBVIOUS
<1>8. ASSUME NEW k \in 1 .. n PROVE WordOf(ps, o + k) = <<n0 + a - 1, k>>
  <2>1. o + k \in 1 .. Len(ps)
    BY <1>4, <1>5
  <2>2. o + k \in DOMAIN ps
    BY <1>5, <2>1
  <2> QED
    BY <1>6, <2>2 DEF WordOf
<1>9. \A k \in 1 .. n : <<n0 + a - 1, k>> \in WordSet
  <2>1. n0 + a - 1 \in Nat
    OBVIOUS
  <2> QED
    BY <2>1 DEF WordSet
<1>10. q \in [1 .. n -> WordSet] /\ \A k \in 1 .. n : q[k] = <<n0 + a - 1, k>>
  BY <1>7, <1>8, <1>9
<1> QED
  BY <1>1, <1>2, <1>7, <1>10 DEF WordsAt, HasWords

LEMMA FromStack ==
    ASSUME NEW ts, NEW P, Situation(ts, P), NEW n0 \in Nat, NEW ps, NEW rs, NEW xs,
           Passed(ts, P, n0, ps, rs, xs), NEW a \in 1 .. Len(ts), ~ In(ts, P, a)
    PROVE  Begins(ts, n0, a, WordsAt(ps, Start(ts, P, a), TypeSize(ts[a])))
<1>1. PICK n \in Nat : n = TypeSize(ts[a])
  BY TypeFacts
<1>2. HasWords(ts, n0, a, WordsAt(ps, Start(ts, P, a), TypeSize(ts[a])))
  BY StackIs
<1>3. PICK q : q = WordsAt(ps, Start(ts, P, a), TypeSize(ts[a]))
  OBVIOUS
<1>4. q \in [1 .. n -> WordSet] /\ \A k \in 1 .. TypeSize(ts[a]) : q[k] = <<n0 + a - 1, k>>
  BY <1>1, <1>2, <1>3 DEF HasWords
<1>5. TypeSize(ts[a]) <= n
  BY <1>1
<1>6. Begins(ts, n0, a, q)
  BY <1>4, <1>5, BeginsIs
<1> QED
  BY <1>3, <1>6

-----------------------------------------------------------------------------
(* The calls that the code gets right                                      *)

LEMMA ArgTypesAre ==
    ASSUME NEW c \in Call
    PROVE  /\ ArgTypes(c) \in Seq(CTypes)
           /\ FirstArg(c) \in {0, 1} /\ (FirstArg(c) = 0 <=> ReturnsInMemory(c))
           /\ Len(ArgTypes(c)) = 1 - FirstArg(c) + Len(c.params) + Len(c.more)
           /\ ReturnsInMemory(c) => ArgTypes(c)[1] = Pointer
           /\ \A k \in 1 .. Len(c.params) : ArgTypes(c)[1 - FirstArg(c) + k] = c.params[k]
           /\ \A k \in 1 .. Len(c.more) :
                 ArgTypes(c)[1 - FirstArg(c) + Len(c.params) + k] = c.more[k]
<1>1. PICK S : S = CTypes
  OBVIOUS
<1>2. PICK p \in Seq(S) : p = c.params
  BY <1>1 DEF Call
<1>3. PICK m \in Seq(S) : m = c.more
  BY <1>1 DEF Call
<1>4. PICK t \in S : t = Pointer
  BY <1>1, PointerIs
<1>5. PICK f \in {0, 1} : f = FirstArg(c)
  BY DEF FirstArg
<1>6. f = 0 <=> ReturnsInMemory(c)
  BY <1>5 DEF FirstArg
<1>7. PICK h : h = IF ReturnsInMemory(c) THEN <<t>> ELSE <<>>
  OBVIOUS
<1>8. h \in Seq(S) /\ Len(h) = 1 - f /\ (f = 0 => h[1] = t)
  <2>1. CASE f = 0
    <3>1. h = <<t>>
      BY <1>6, <1>7, <2>1
    <3>2. <<t>> \in Seq(S) /\ Len(<<t>>) = 1 /\ <<t>>[1] = t
      OBVIOUS
    <3> QED
      BY <2>1, <3>1, <3>2
  <2>2. CASE f = 1
    <3>1. h = <<>>
      BY <1>6, <1>7, <2>2
    <3>2. <<>> \in Seq(S) /\ Len(<<>>) = 0
      OBVIOUS
    <3> QED
      BY <2>2, <3>1, <3>2
  <2> QED
    BY <2>1, <2>2
<1>9. PICK q : q = h \o p
  OBVIOUS
<1>10. /\ q \in Seq(S) /\ Len(q) = Len(h) + Len(p)
       /\ \A i \in 1 .. Len(q) : q[i] = IF i <= Len(h) THEN h[i] ELSE p[i - Len(h)]
  BY <1>8, <1>9, ConcatProperties
<1>11. PICK r : r = q \o m
  OBVIOUS
<1>12. /\ r \in Seq(S) /\ Len(r) = Len(q) + Len(m)
       /\ \A i \in 1 .. Len(r) : r[i] = IF i <= Len(q) THEN q[i] ELSE m[i - Len(q)]
  <2>1. q \in Seq(S) /\ m \in Seq(S)
    BY <1>10
  <2>2. /\ q \o m \in Seq(S) /\ Len(q \o m) = Len(q) + Len(m)
        /\ \A i \in 1 .. Len(q) + Len(m) : (q \o m)[i] = IF i <= Len(q) THEN q[i] ELSE m[i - Len(q)]
    BY <2>1, ConcatProperties
  <2> QED
    BY <1>11, <2>2
<1>13. ArgTypes(c) = r
  BY <1>2, <1>3, <1>4, <1>7, <1>9, <1>11 DEF ArgTypes
<1>14. PICK x \in Nat, y \in Nat, z \in 0 .. 1 : x = Len(p) /\ y = Len(m) /\ z = 1 - f
  OBVIOUS
<1>15. Len(h) = z /\ Len(q) = z + x /\ Len(r) = z + x + y
  BY <1>8, <1>10, <1>12, <1>14
<1>16. ASSUME NEW k \in 1 .. x PROVE r[z + k] = p[k]
  <2>1. z + k \in 1 .. z + x /\ z + k \in 1 .. z + x + y /\ z + k <= z + x /\ ~ (z + k <= z) /\ (z + k) - z = k
    BY <1>14
  <2>2. r[z + k] = q[z + k]
    BY <1>12, <1>15, <2>1
  <2>3. q[z + k] = p[k]
    BY <1>10, <1>15, <2>1
  <2> QED
    BY <2>2, <2>3
<1>17. ASSUME NEW k \in 1 .. y PROVE r[z + x + k] = m[k]
  <2>1. z + x + k \in 1 .. z + x + y /\ ~ (z + x + k <= z + x) /\ (z + x + k) - (z + x) = k
    BY <1>14
  <2> QED
    BY <1>12, <1>15, <2>1
<1>18. f = 0 => r[1] = t
  <2>1. SUFFICES ASSUME f = 0 PROVE r[1] = t
    OBVIOUS
  <2>2. z = 1 /\ 1 \in 1 .. z + x /\ 1 \in 1 .. z + x + y
    BY <1>14, <2>1
  <2>3. r[1] = q[1] /\ q[1] = h[1]
    BY <1>10, <1>12, <1>15, <2>2
  <2> QED
    BY <1>8, <2>1, <2>3
<1>19. 1 - FirstArg(c) = z /\ x = Len(c.params) /\ y = Len(c.more)
  BY <1>2, <1>3, <1>5, <1>14
<1>20. \A k \in 1 .. Len(c.params) : ArgTypes(c)[1 - FirstArg(c) + k] = c.params[k]
  BY <1>2, <1>13, <1>16, <1>19
<1>21. \A k \in 1 .. Len(c.more) : ArgTypes(c)[1 - FirstArg(c) + Len(c.params) + k] = c.more[k]
  BY <1>3, <1>13, <1>17, <1>19
<1>22. Len(ArgTypes(c)) = 1 - FirstArg(c) + Len(c.params) + Len(c.more)
  BY <1>13, <1>15, <1>19
<1> QED
  BY <1>1, <1>4, <1>5, <1>6, <1>12, <1>13, <1>18, <1>20, <1>21, <1>22

LEMMA FloatsBefore ==
    ASSUME NEW ts \in Seq(CTypes), NEW P, Planned(ts, P), NEW k \in 1 .. Len(ts)
    PROVE  Needed("sse", SubSeq(ts, 1, k - 1)) = P[k - 1].sse
<1>1. PICK N \in Nat : N = Len(ts)
  OBVIOUS
<1>2. PICK m \in Nat : m = k - 1 /\ m <= N
  BY <1>1
<1>3. PICK us : us = SubSeq(ts, 1, m)
  OBVIOUS
<1>4. us \in [1 .. m -> CTypes] /\ \A i \in 1 .. m : us[i] = ts[i]
  <2>1. PICK S : S = CTypes
    OBVIOUS
  <2>2. \A i \in 1 .. m : ts[i] \in S
    BY <1>1, <1>2, <2>1
  <2>3. /\ SubSeq(ts, 1, m) \in Seq(S) /\ Len(SubSeq(ts, 1, m)) = (IF 1 <= m THEN m - 1 + 1 ELSE 0)
        /\ \A i \in 1 .. m - 1 + 1 : SubSeq(ts, 1, m)[i] = ts[1 + i - 1]
    BY <2>2, SubSeqProperties
  <2>4. us \in Seq(S) /\ Len(us) = m /\ \A i \in 1 .. m : us[i] = ts[i]
    BY <1>3, <2>3
  <2> QED
    BY <2>1, <2>4
<1>5. PICK f : f = [i \in 0 .. m |-> P[i].sse]
  OBVIOUS
<1>6. f[0] = 0
  BY <1>5 DEF Planned, NoMark
<1>7. ASSUME NEW i \in 1 .. m PROVE f[i] = f[i - 1] + Part("sse", us[i])
  <2>1. i \in 1 .. Len(ts) /\ i - 1 \in 0 .. Len(ts) /\ i \in 0 .. m /\ i - 1 \in 0 .. m
    BY <1>1, <1>2
  <2>2. P[i - 1] \in Marks /\ P[i] = Mark(P[i - 1], ts[i])
    BY <2>1 DEF Planned
  <2>3. TypeGood(ts[i])
    <3>1. ts[i] \in CTypes
      BY <2>1
    <3> QED
      BY <3>1, TypesAreGood
  <2>4. P[i].sse = P[i - 1].sse + Part("sse", ts[i])
    BY <2>2, <2>3, MarkIs
  <2> QED
    BY <1>4, <1>5, <2>1, <2>4
<1>8. Needed("sse", us) = f[m]
  <2>1. Counts("sse", us, m, f)
    BY <1>6, <1>7 DEF Counts
  <2> QED
    BY <1>4, <2>1, NeededIs
<1> QED
  BY <1>2, <1>3, <1>5, <1>8

LEMMA SituationIs ==
    ASSUME NEW c \in Call, ~ PairOverwritten(c), ~ UnionAsInteger(c)
    PROVE  Situation(ArgTypes(c), Plan(ArgTypes(c)))
<1>1. PICK ts \in Seq(CTypes) : ts = ArgTypes(c)
  BY ArgTypesAre
<1>2. PICK P : P = Plan(ts)
  OBVIOUS
<1>3. Planned(ts, P)
  BY <1>2, PlanIs
<1>4. DOMAIN ts = 1 .. Len(ts)
  OBVIOUS
<1>5. \A k \in 1 .. Len(ts) : TypeGood(ts[k])
  <2>1. \A k \in 1 .. Len(ts) : ts[k] \in CTypes
    OBVIOUS
  <2> QED
    BY <2>1, TypesAreGood
<1>6. ASSUME NEW k \in 1 .. Len(ts), Mode(ts[k]) = "integer" PROVE TypeAlign(ts[k]) = 1
  <2>1. TypeAlign(ts[k]) \in {1, 2}
    BY <1>5 DEF TypeGood
  <2>2. TypeAlign(ts[k]) # 2
    BY <1>1, <1>4, <1>6 DEF UnionAsInteger
  <2> QED
    BY <2>1, <2>2
<1>7. ASSUME NEW k \in 1 .. Len(ts), Mode(ts[k]) = "sse", RegCount(ts[k]) = 2 PROVE P[k - 1].sse # 1
  <2>1. Needed("sse", SubSeq(ts, 1, k - 1)) # 1
    BY <1>1, <1>4, <1>7 DEF PairOverwritten
  <2>2. Needed("sse", SubSeq(ts, 1, k - 1)) = P[k - 1].sse
    BY <1>3, FloatsBefore
  <2> QED
    BY <2>1, <2>2
<1>8. Situation(ts, P)
  BY <1>3, <1>5, <1>6, <1>7 DEF Situation
<1> QED
  BY <1>1, <1>2, <1>8

-----------------------------------------------------------------------------
(* What the caller counts                                                  *)

\* All arguments, from the last one
Whole(ts, us) == us \in [1 .. Len(ts) -> 1 .. Len(ts)] /\ \A p \in 1 .. Len(ts) : us[p] = Len(ts) + 1 - p

\* The types of a part of them
Types(ts, us) == [p \in DOMAIN us |-> ts[us[p]]]

LEMMA AllCounted ==
    ASSUME NEW ts, NEW P, Situation(ts, P), NEW n0 \in Nat, NEW us, Whole(ts, us)
    PROVE  RunState(ts, P, n0, us, 0, Needed("integer", Types(ts, us)), Needed("sse", Types(ts, us)), <<>>)
<1>1. PICK N \in Nat : N = Len(ts)
  BY DEF Situation
<1>2. us \in [1 .. N -> 1 .. N] /\ \A p \in 1 .. N : us[p] = N + 1 - p
  BY <1>1 DEF Whole
<1>3. PICK v : v = Types(ts, us)
  OBVIOUS
<1>4. v \in [1 .. N -> CTypes] /\ \A p \in 1 .. N : v[p] = ts[N + 1 - p]
  <2>1. v = [p \in 1 .. N |-> ts[us[p]]]
    BY <1>2, <1>3 DEF Types
  <2>2. \A i \in 1 .. N : ts[i] \in CTypes
    BY <1>1 DEF Situation
  <2> QED
    BY <1>2, <2>1, <2>2
<1>5. Needed("integer", v) = P[N].int - P[N - N].int /\ Needed("sse", v) = P[N].sse - P[N - N].sse
  <2>1. N \in 0 .. Len(ts) /\ N \in 0 .. N
    BY <1>1
  <2> QED
    BY <1>4, <2>1, NeededBack
<1>6. P[0].int = 0 /\ P[0].sse = 0
  BY NoMarkIs
<1>7. PICK x \in Nat, y \in Nat : x = P[N].int /\ y = P[N].sse
  BY <1>1, MarksAre
<1>8. Needed("integer", v) = x /\ Needed("sse", v) = y
  BY <1>5, <1>6, <1>7
<1>9. Counted(ts, P, x, y, N)
  <2>1. PICK r \in Nat, q \in Nat : r = P[N].rint /\ q = P[N].rsse
    BY <1>1, MarksAre
  <2>2. r <= x /\ q <= y
    BY <1>1, <1>7, <2>1, RegsUsed
  <2>3. x = Larger(x, r) /\ y = Larger(y, q)
    BY <2>2 DEF Larger
  <2> QED
    BY <1>1, <1>7, <2>1, <2>3 DEF Counted
<1>10. us \in Seq(1 .. Len(ts)) /\ Len(us) = N /\ Len(us) - 0 = N
  BY <1>1, <1>2
<1>11. Listed(ts, P, us, 0)
  <2>1. 0 \in 0 .. Len(us)
    BY <1>10
  <2>2. \A p, q \in 1 .. Len(us) : p < q => us[p] > us[q]
    BY <1>2, <1>10
  <2>3. \A p \in 0 + 1 .. Len(us) : us[p] = Len(us) + 1 - p
    BY <1>2, <1>10
  <2>4. \A p \in 1 .. 0 : FALSE
    OBVIOUS
  <2>5. \A a \in Len(us) - 0 + 1 .. Len(ts) : FALSE
    BY <1>1, <1>10
  <2> QED
    BY <1>10, <2>1, <2>2, <2>3, <2>4, <2>5 DEF Listed
<1>12. Laid(ts, P, n0, <<>>, UpTo(P[N].end, 2), N)
  <2>1. PICK z \in Nat : z = StackSize(ts, P)
    BY StackSizeIs
  <2>2. UpTo(P[N].end, 2) = z
    BY <1>1, <2>1 DEF StackSize
  <2>3. <<>> \in Seq(WordSet) /\ Len(<<>>) = 0
    OBVIOUS
  <2>4. z \in 0 .. z /\ 0 = z - z
    OBVIOUS
  <2>5. \A a \in N + 1 .. Len(ts) : FALSE
    BY <1>1
  <2> QED
    BY <2>1, <2>2, <2>3, <2>4, <2>5 DEF Laid
<1> QED
  BY <1>3, <1>8, <1>9, <1>10, <1>11, <1>12 DEF RunState

\* The arguments of a run before one are no longer counted when it is reached.
OnStackIn(ts, us, f, g, s, p) ==
    LET t == ts[us[p]]
        passed == Types(ts, SubSeq(us, f + 1, p - 1))
    IN  \/ Mode(t) \in {"memory", "x87"}
        \/ Mode(t) = "sse" /\ s - Needed("sse", passed) > SSEN
        \/ Mode(t) = "integer" /\ g - Needed("integer", passed) > REGN

LEMMA OnStackIs ==
    ASSUME NEW ts, NEW P, Situation(ts, P), NEW us, NEW f, NEW g, NEW s, Listed(ts, P, us, f),
           Counted(ts, P, g, s, Len(us) - f), NEW p \in f + 1 .. Len(us)
    PROVE  OnStackIn(ts, us, f, g, s, p) <=> ~ In(ts, P, us[p])
<1>1. PICK N \in Nat, n \in Nat : N = Len(ts) /\ n = Len(us) /\ f \in 0 .. n /\ us \in Seq(1 .. N)
  BY ListIs
<1>2. PICK j \in 0 .. N : j = n - f
  BY <1>1, ListIs
<1>3. p \in f + 1 .. n
  BY <1>1
<1>4. PICK m \in 0 .. j : m = p - 1 - f /\ f + m = p - 1
  BY <1>1, <1>2, <1>3
<1>5. PICK i \in 1 .. j : i = j - m
  <2>1. m \in Nat /\ m <= n - 1 - f
    BY <1>1, <1>3, <1>4
  <2>2. m <= j - 1
    BY <1>1, <1>2, <2>1
  <2>3. j - m \in 1 .. j
    BY <2>1, <2>2
  <2> QED
    BY <2>3
<1>6. \A q \in f + 1 .. n : us[q] = n + 1 - q
  BY <1>1 DEF Listed
<1>7. us[p] = i
  BY <1>1, <1>2, <1>3, <1>4, <1>5, <1>6
<1>8. PICK b : b = SubSeq(us, f + 1, p - 1)
  OBVIOUS
<1>9. b \in [1 .. m -> 1 .. N] /\ \A q \in 1 .. m : b[q] = j + 1 - q
  <2>1. \A q \in f + 1 .. p - 1 : us[q] \in 1 .. N
    BY <1>1, <1>3
  <2>2. f + 1 \in Int /\ p - 1 \in Int
    BY <1>1, <1>3
  <2>3. PICK S : S = 1 .. N
    OBVIOUS
  <2>4. /\ SubSeq(us, f + 1, p - 1) \in Seq(S)
        /\ Len(SubSeq(us, f + 1, p - 1)) = (IF f + 1 <= p - 1 THEN (p - 1) - (f + 1) + 1 ELSE 0)
        /\ \A q \in 1 .. (p - 1) - (f + 1) + 1 : SubSeq(us, f + 1, p - 1)[q] = us[(f + 1) + q - 1]
    BY <2>1, <2>2, <2>3, SubSeqProperties
  <2>5. (p - 1) - (f + 1) + 1 = m
    BY <1>1, <1>3, <1>4
  <2>6. b \in Seq(S) /\ Len(b) = m /\ \A q \in 1 .. m : b[q] = us[(f + 1) + q - 1]
    BY <1>1, <1>3, <1>4, <1>8, <2>4, <2>5
  <2>7. ASSUME NEW q \in 1 .. m PROVE b[q] = j + 1 - q
    <3>1. (f + 1) + q - 1 \in f + 1 .. n /\ n + 1 - ((f + 1) + q - 1) = j + 1 - q
      BY <1>1, <1>2, <1>4
    <3> QED
      BY <1>6, <2>6, <3>1
  <2> QED
    BY <2>3, <2>6, <2>7
<1>10. PICK v : v = Types(ts, b)
  OBVIOUS
<1>11. v \in [1 .. m -> CTypes] /\ \A q \in 1 .. m : v[q] = ts[j + 1 - q]
  <2>1. v = [q \in 1 .. m |-> ts[b[q]]]
    BY <1>9, <1>10 DEF Types
  <2>2. \A a \in 1 .. N : ts[a] \in CTypes
    BY <1>1 DEF Situation
  <2>3. \A q \in 1 .. m : b[q] \in 1 .. N
    BY <1>9
  <2>4. v \in [1 .. m -> CTypes]
    BY <2>1, <2>2, <2>3
  <2> QED
    BY <1>9, <2>1, <2>4
<1>12. Needed("integer", v) = P[j].int - P[j - m].int /\ Needed("sse", v) = P[j].sse - P[j - m].sse
  <2>1. j \in 0 .. Len(ts)
    BY <1>1
  <2>2. m \in 0 .. j
    OBVIOUS
  <2>3. v \in [1 .. m -> CTypes]
    BY <1>11
  <2>4. \A q \in 1 .. m : v[q] = ts[j + 1 - q]
    BY <1>11
  <2> QED
    BY <2>1, <2>2, <2>3, <2>4, NeededBack
<1>13. /\ g - (P[j].int - P[i].int) > REGN <=> P[i].int > REGN
       /\ s - (P[j].sse - P[i].sse) > SSEN <=> P[i].sse > SSEN
  <2>1. j \in 1 .. Len(ts)
    BY <1>1, <1>5
  <2>2. Counted(ts, P, g, s, j)
    BY <1>1, <1>2
  <2> QED
    BY <2>1, <2>2, CountTests
<1>14. i \in 1 .. Len(ts) /\ i \in 0 .. Len(ts)
  BY <1>1
<1>15. Mode(ts[i]) \in {"integer", "sse", "x87", "memory"}
  BY <1>14, TypeFacts DEF ModeSet
<1>16. /\ P[i].int > REGN <=> ~ (P[i].int <= REGN)
       /\ P[i].sse > SSEN <=> ~ (P[i].sse <= SSEN)
  <2>1. PICK x \in Nat, y \in Nat : x = P[i].int /\ y = P[i].sse
    BY <1>14, MarksAre
  <2>2. PICK r \in Nat, q \in Nat : r = REGN /\ q = SSEN
    BY CallAssumption
  <2>3. (x > r <=> ~ (x <= r)) /\ (y > q <=> ~ (y <= q))
    OBVIOUS
  <2> QED
    BY <2>1, <2>2, <2>3
<1> DEFINE mode == Mode(ts[i])
           J == mode = "integer"
           F == mode = "sse"
           K == mode \in {"memory", "x87"}
           A == s - Needed("sse", v) > SSEN
           B == g - Needed("integer", v) > REGN
           C == P[i].sse <= SSEN
           D == P[i].int <= REGN
<1>17. OnStackIn(ts, us, f, g, s, p) <=> (K \/ (F /\ A) \/ (J /\ B))
  BY <1>7, <1>8, <1>10 DEF OnStackIn
<1>18. A <=> ~ C
  <2>1. P[j - m] = P[i]
    BY <1>5
  <2>2. A <=> P[i].sse > SSEN
    BY <1>12, <1>13, <2>1
  <2> QED
    BY <1>16, <2>2
<1>19. B <=> ~ D
  <2>1. P[j - m] = P[i]
    BY <1>5
  <2>2. B <=> P[i].int > REGN
    BY <1>12, <1>13, <2>1
  <2> QED
    BY <1>16, <2>2
<1>20. In(ts, P, us[p]) <=> (J /\ D) \/ (F /\ C)
  BY <1>7 DEF In, Fits
<1>21. (K \/ F \/ J) /\ ~ (K /\ F) /\ ~ (K /\ J) /\ ~ (F /\ J)
  BY <1>15
<1> HIDE DEF J, F, K, A, B, C, D
<1> QED
  BY <1>17, <1>18, <1>19, <1>20, <1>21

\* The place for a returned struct is in the first register.
LEMMA PlacePassed ==
    ASSUME NEW ts, NEW P, Situation(ts, P), NEW ps, NEW rs, NEW xs, Passed(ts, P, 0, ps, rs, xs),
           1 \in 1 .. Len(ts), ts[1] = Pointer
    PROVE  rs[arg_regs(0)] = <<0, 1>> /\ P[1].int = 1 /\ P[1].sse = 0 /\ P[1].end = 0
<1>1. Mode(ts[1]) = "integer" /\ RegCount(ts[1]) = 1
  BY PointerIs
<1>2. P[0].int = 0 /\ P[0].sse = 0 /\ P[0].end = 0
  BY NoMarkIs
<1>3. P[1].int = 1 /\ P[1].sse = 0
  <2>1. P[1].int = P[1 - 1].int + Part("integer", ts[1]) /\ P[1].sse = P[1 - 1].sse + Part("sse", ts[1])
    BY Marked
  <2>2. Part("integer", ts[1]) = 1 /\ Part("sse", ts[1]) = 0
    BY <1>1 DEF Part
  <2> QED
    BY <1>2, <2>1, <2>2
<1>4. In(ts, P, 1)
  <2>1. 1 <= REGN
    BY CallAssumption
  <2> QED
    BY <1>1, <1>3, <2>1 DEF In, Fits
<1>5. P[1].end = 0
  <2>1. P[1].end = P[1 - 1].end
    BY <1>4, StackMarks
  <2> QED
    BY <1>2, <2>1
<1>6. rs[ArgReg[0]] = <<0, 1>>
  <2>1. Placed(ts, P, 0, rs, xs, ArgReg, 1)
    BY <1>4 DEF Passed, AllPlaced
  <2>2. \A k \in 1 .. RegCount(ts[1]) : rs[ArgReg[P[1 - 1].int + k - 1]] = <<0 + 1 - 1, k>>
    BY <1>1, <2>1 DEF Placed
  <2>3. rs[ArgReg[P[1 - 1].int + 1 - 1]] = <<0 + 1 - 1, 1>>
    BY <1>1, <2>2
  <2> QED
    BY <1>2, <2>3
<1>7. ArgReg[0] = arg_regs(0)
  BY DEF ArgReg
<1> QED
  BY <1>3, <1>5, <1>6, <1>7

-----------------------------------------------------------------------------
(* The inductive invariant                                                 *)

\* The calls that ParamsExact is about
Good == ~ PairOverwritten(call) /\ ~ UnionAsInteger(call)

\* What the caller has done: us are the arguments that are left, from the last to the
\* first, ps is what lies on the stack, rs and xs are what the registers hold.
CallerState(ts, P, n0, pc, us, start, e, f, g, s, ps, rs, xs) ==
    /\ pc \in {"count", "run", "store", "regs", "prolog", "params"}
    /\ rs \in [0 .. 11 -> WordSet] /\ xs \in [0 .. SSEN - 1 -> WordSet]
    /\ pc = "count" => Whole(ts, us) /\ ps = <<>> /\ start = 0
    /\ pc = "run" => RunState(ts, P, n0, us, start, g, s, ps)
    /\ pc = "store" => StoreState(ts, P, n0, us, f, e, g, s, ps)
    /\ pc = "regs" => RegsState(ts, P, n0, us, g, s, ps, rs, xs, PrepReg)
    /\ pc \in {"prolog", "params"} => Passed(ts, P, n0, ps, rs, xs)

CalleeSet == [reg_param_index : Nat, sse_param_index : Nat, addr : Nat, func_vc : WordSet]
NoneSeen == [reg_param_index |-> 0, sse_param_index |-> 0, addr |-> 0, func_vc |-> Garbage]

\* The counters of the callee are those of the last argument it has defined.
CounterState(P, d, cal) ==
    cal.reg_param_index = P[d].int /\ cal.sse_param_index = P[d].sse /\ cal.addr = P[d].end

\* The callee has defined the parameters qs, of n.
CalleeState(ts, P, n0, n, pc, cal, qs) ==
    /\ cal \in CalleeSet /\ qs \in Seq(Seq(WordSet))
    /\ pc # "params" => qs = <<>> /\ cal = NoneSeen
    /\ pc = "params" =>
          /\ Len(qs) <= n
          /\ CounterState(P, 1 - n0 + Len(qs), cal)
          /\ n0 = 0 => cal.func_vc = <<0, 1>>
          /\ \A k \in 1 .. Len(qs) : Begins(ts, n0, 1 - n0 + k, qs[k])

\* The inductive invariant of TheParamsExact
IInv ==
    /\ call \in Calls
    /\ Good =>
          /\ CallerState(ArgTypes(call), Plan(ArgTypes(call)), FirstArg(call), at, args,
                         run_start, run_end, arg, gen_reg, sse_reg, pushed, regs, xmm)
          /\ CalleeState(ArgTypes(call), Plan(ArgTypes(call)), FirstArg(call), Len(call.params),
                         at, callee, params)

\* What an action is given, and what it has to show
LEMMA Given ==
    ASSUME IInv, Good, NEW ts, ts = ArgTypes(call), NEW P, P = Plan(ts), NEW n0, n0 = FirstArg(call)
    PROVE  /\ Situation(ts, P) /\ n0 \in Nat /\ n0 \in {0, 1}
           /\ CallerState(ts, P, n0, at, args, run_start, run_end, arg, gen_reg, sse_reg, pushed, regs, xmm)
           /\ CalleeState(ts, P, n0, Len(call.params), at, callee, params)
<1>1. call \in Call
  BY CallAssumption DEF IInv
<1>2. Situation(ts, P)
  BY <1>1, SituationIs DEF Good
<1>3. n0 \in {0, 1}
  BY <1>1, ArgTypesAre
<1> QED
  BY <1>2, <1>3 DEF IInv

LEMMA CallerStep ==
    ASSUME IInv, UNCHANGED <<call, callee, params>>, at # "params", at' # "params",
           Good => CallerState(ArgTypes(call), Plan(ArgTypes(call)), FirstArg(call), at', args',
                               run_start', run_end', arg', gen_reg', sse_reg', pushed', regs', xmm')
    PROVE  IInv'
<1>1. Good' <=> Good
  BY DEF Good
<1>2. Good => CalleeState(ArgTypes(call), Plan(ArgTypes(call)), FirstArg(call), Len(call.params),
                          at', callee', params')
  BY DEF IInv, CalleeState
<1> QED
  BY <1>1, <1>2 DEF IInv

LEMMA CalleeStep ==
    ASSUME IInv, CallerDone, at \in {"prolog", "params"}, at' \in {"prolog", "params"},
           Good => CalleeState(ArgTypes(call), Plan(ArgTypes(call)), FirstArg(call), Len(call.params),
                               at', callee', params')
    PROVE  IInv'
<1>1. UNCHANGED <<call, args, run_start, run_end, arg, gen_reg, sse_reg, pushed, regs, xmm>>
  BY DEF CallerDone
<1>2. Good' <=> Good
  BY <1>1 DEF Good
<1>3. Good => CallerState(ArgTypes(call), Plan(ArgTypes(call)), FirstArg(call), at', args',
                          run_start', run_end', arg', gen_reg', sse_reg', pushed', regs', xmm')
  BY <1>1 DEF IInv, CallerState
<1> QED
  BY <1>1, <1>2, <1>3 DEF IInv

LEMMA Start0 == Init => IInv
<1> SUFFICES ASSUME Init PROVE IInv
  OBVIOUS
<1>1. call \in Calls /\ call \in Call
  BY CallAssumption DEF Init
<1>2. PICK ts \in Seq(CTypes) : ts = ArgTypes(call)
  BY <1>1, ArgTypesAre
<1>3. PICK N \in Nat : N = Len(ts)
  OBVIOUS
<1>4. Whole(ts, args)
  <2>1. PICK x : x = [a \in DOMAIN ArgTypes(call) |-> a]
    OBVIOUS
  <2>2. x = [a \in 1 .. N |-> a]
    BY <1>2, <1>3, <2>1
  <2>3. x \in Seq(1 .. N) /\ Len(x) = N
    BY <2>2
  <2>4. args = Reverse(x)
    BY <2>1 DEF Init
  <2>5. args = [i \in 1 .. N |-> x[(N - i) + 1]]
    BY <2>3, <2>4 DEF Reverse
  <2>6. \A i \in 1 .. N : (N - i) + 1 \in 1 .. N /\ (N - i) + 1 = N + 1 - i
    OBVIOUS
  <2>7. args \in [1 .. N -> 1 .. N] /\ \A p \in 1 .. N : args[p] = N + 1 - p
    BY <2>2, <2>5, <2>6
  <2> QED
    BY <1>3, <2>7 DEF Whole
<1>5. Garbage \in WordSet
  BY DEF WordSet
<1>6. regs \in [0 .. 11 -> WordSet] /\ xmm \in [0 .. SSEN - 1 -> WordSet]
  BY <1>5 DEF Init
<1>7. CallerState(ts, Plan(ts), FirstArg(call), at, args, run_start, run_end, arg, gen_reg, sse_reg,
                  pushed, regs, xmm)
  <2>1. at = "count" /\ pushed = <<>> /\ run_start = 0
    BY DEF Init
  <2> QED
    BY <1>4, <1>6, <2>1 DEF CallerState
<1>8. CalleeState(ts, Plan(ts), FirstArg(call), Len(call.params), at, callee, params)
  <2>1. at = "count" /\ params = <<>> /\ callee = NoneSeen
    BY DEF Init, NoneSeen
  <2>2. NoneSeen \in CalleeSet
    BY <1>5 DEF NoneSeen, CalleeSet
  <2>3. <<>> \in Seq(Seq(WordSet))
    OBVIOUS
  <2> QED
    BY <2>1, <2>2, <2>3 DEF CalleeState
<1> QED
  BY <1>1, <1>2, <1>7, <1>8 DEF IInv

-----------------------------------------------------------------------------
(* The steps of the caller                                                 *)

LEMMA CountStep == IInv /\ CountArgs => IInv'
<1> SUFFICES ASSUME IInv, CountArgs PROVE IInv'
  OBVIOUS
<1>1. /\ at = "count" /\ at' = "run"
      /\ gen_reg' = Needed("integer", TypesOf(args)) /\ sse_reg' = Needed("sse", TypesOf(args))
      /\ UNCHANGED <<call, args, run_start, pushed, regs, xmm, callee, params>>
  BY DEF CountArgs, CalleeUntouched
<1>2. ASSUME Good
      PROVE  CallerState(ArgTypes(call), Plan(ArgTypes(call)), FirstArg(call), at', args',
                         run_start', run_end', arg', gen_reg', sse_reg', pushed', regs', xmm')
  <2>1. PICK ts : ts = ArgTypes(call)
    OBVIOUS
  <2>2. PICK P : P = Plan(ts)
    OBVIOUS
  <2>3. PICK n0 : n0 = FirstArg(call)
    OBVIOUS
  <2>4. /\ Situation(ts, P) /\ n0 \in Nat
        /\ CallerState(ts, P, n0, at, args, run_start, run_end, arg, gen_reg, sse_reg, pushed, regs, xmm)
    BY <1>2, <2>1, <2>2, <2>3, Given
  <2>5. Whole(ts, args) /\ pushed = <<>> /\ run_start = 0
        /\ regs \in [0 .. 11 -> WordSet] /\ xmm \in [0 .. SSEN - 1 -> WordSet]
    BY <1>1, <2>4 DEF CallerState
  <2>6. TypesOf(args) = Types(ts, args)
    BY <2>1 DEF TypesOf, TypeOf, Types
  <2>7. RunState(ts, P, n0, args, 0, gen_reg', sse_reg', <<>>)
    BY <1>1, <2>4, <2>5, <2>6, AllCounted
  <2>8. CallerState(ts, P, n0, at', args', run_start', run_end', arg', gen_reg', sse_reg', pushed', regs', xmm')
    BY <1>1, <2>5, <2>7 DEF CallerState
  <2> QED
    BY <2>1, <2>2, <2>3, <2>8
<1> QED
  BY <1>1, <1>2, CallerStep

LEMMA MeasureStep == IInv /\ MeasureRun => IInv'
<1> SUFFICES ASSUME IInv, MeasureRun PROVE IInv'
  OBVIOUS
<1>1. /\ at = "run" /\ at' = "store" /\ arg' = run_start
      /\ UNCHANGED <<call, args, run_start, gen_reg, sse_reg, regs, xmm, callee, params>>
  BY DEF MeasureRun, CalleeUntouched
<1>2. ASSUME Good
      PROVE  CallerState(ArgTypes(call), Plan(ArgTypes(call)), FirstArg(call), at', args',
                         run_start', run_end', arg', gen_reg', sse_reg', pushed', regs', xmm')
  <2>1. PICK ts : ts = ArgTypes(call)
    OBVIOUS
  <2>2. PICK P : P = Plan(ts)
    OBVIOUS
  <2>3. PICK n0 : n0 = FirstArg(call)
    OBVIOUS
  <2>4. /\ Situation(ts, P) /\ n0 \in Nat
        /\ CallerState(ts, P, n0, at, args, run_start, run_end, arg, gen_reg, sse_reg, pushed, regs, xmm)
    BY <1>2, <2>1, <2>2, <2>3, Given
  <2>5. /\ RunState(ts, P, n0, args, run_start, gen_reg, sse_reg, pushed)
        /\ regs \in [0 .. 11 -> WordSet] /\ xmm \in [0 .. SSEN - 1 -> WordSet]
    BY <1>1, <2>4 DEF CallerState
  <2>6. /\ Listed(ts, P, args, run_start)
        /\ Counted(ts, P, gen_reg, sse_reg, Len(args) - run_start)
    BY <2>5 DEF RunState
  <2> DEFINE stored == {p \in run_start + 1 .. Len(args) : OnStack(p)}
             aligned == {p \in stored : TypeAlign(TypeOf(args[p])) = 2}
             end == IF aligned = {} THEN Len(args) ELSE Min(aligned) - 1
             sizes == [p \in DOMAIN args |->
                          IF p \in stored /\ p <= end THEN TypeSize(TypeOf(args[p])) ELSE 0]
  <2>7. run_end' = end /\ pushed' = Pushed(Adjust(Total(sizes)))
    BY DEF MeasureRun
  <2>8. ASSUME NEW p \in run_start + 1 .. Len(args) PROVE OnStack(p) <=> ~ In(ts, P, args[p])
    <3>1. OnStack(p) <=> OnStackIn(ts, args, run_start, gen_reg, sse_reg, p)
      BY <2>1 DEF OnStack, OnStackIn, TypesOf, TypeOf, Types
    <3> QED
      BY <2>4, <2>6, <3>1, OnStackIs
  <2>9. aligned = {p \in run_start + 1 .. Len(args) : ~ In(ts, P, args[p]) /\ TypeAlign(ts[args[p]]) = 2}
    BY <2>1, <2>8 DEF TypeOf
  <2>10. PICK e : e = end
    OBVIOUS
  <2>11. e = RunEnd(ts, P, args, run_start)
    BY <2>9, <2>10 DEF RunEnd
  <2>12. e \in run_start .. Len(args) /\ Unaligned(ts, P, args, run_start, e)
    BY <2>4, <2>6, <2>11, RunEnds
  <2>13. sizes = [p \in DOMAIN args |->
                     IF p \in run_start + 1 .. e /\ ~ In(ts, P, args[p]) THEN TypeSize(ts[args[p]]) ELSE 0]
    <3>1. \A p \in DOMAIN args : p \in stored /\ p <= e <=> p \in run_start + 1 .. e /\ ~ In(ts, P, args[p])
      <4>1. PICK n \in Nat : n = Len(args) /\ run_start \in 0 .. n /\ DOMAIN args = 1 .. n
        BY <2>4, <2>6, ListIs
      <4>2. \A p \in 1 .. n : p \in run_start + 1 .. n /\ p <= e <=> p \in run_start + 1 .. e
        BY <2>12, <4>1
      <4>3. \A p \in 1 .. n : p \in stored <=> p \in run_start + 1 .. n /\ ~ In(ts, P, args[p])
        BY <2>8, <4>1
      <4> QED
        BY <4>1, <4>2, <4>3
    <3> QED
      BY <2>1, <2>10, <3>1 DEF TypeOf
  <2>14. Total(sizes) = P[Len(args) - run_start].end - P[Len(args) - e].end
    <3>1. PICK w : w = sizes
      OBVIOUS
    <3>2. w = [p \in DOMAIN args |->
                  IF p \in run_start + 1 .. e /\ ~ In(ts, P, args[p]) THEN TypeSize(ts[args[p]]) ELSE 0]
      BY <2>13, <3>1
    <3> HIDE DEF sizes
    <3>3. Total(w) = P[Len(args) - run_start].end - P[Len(args) - e].end
      BY <2>4, <2>6, <2>12, <3>2, RunSize
    <3> QED
      BY <3>1, <3>3
  <2>15. StoreState(ts, P, n0, args, run_start, e, gen_reg, sse_reg, Adjust(Total(sizes)) \o pushed)
    BY <2>4, <2>5, <2>11, <2>14, RunMeasured
  <2>16. StoreState(ts, P, n0, args', arg', run_end', gen_reg', sse_reg', pushed')
    BY <1>1, <2>7, <2>10, <2>15 DEF Pushed
  <2>17. CallerState(ts, P, n0, at', args', run_start', run_end', arg', gen_reg', sse_reg', pushed', regs', xmm')
    BY <1>1, <2>5, <2>16 DEF CallerState
  <2> QED
    BY <2>1, <2>2, <2>3, <2>17
<1> QED
  BY <1>1, <1>2, CallerStep

\* An argument that is reached is in registers if those that are counted suffice.
LEMMA Reached ==
    ASSUME NEW ts, NEW P, Situation(ts, P), NEW us, NEW f, NEW g, NEW s, Listed(ts, P, us, f),
           Counted(ts, P, g, s, Len(us) - f), f < Len(us)
    PROVE  /\ us[f + 1] \in 1 .. Len(ts)
           /\ g \in Nat /\ s \in Nat
           /\ Mode(ts[us[f + 1]]) = "integer" => (In(ts, P, us[f + 1]) <=> g <= REGN)
           /\ Mode(ts[us[f + 1]]) = "sse" => (In(ts, P, us[f + 1]) <=> s <= SSEN)
<1>1. us[f + 1] = Len(us) - f /\ Len(us) - f \in 1 .. Len(ts)
  BY ListIs
<1>2. PICK a \in 1 .. Len(ts) : a = us[f + 1]
  BY <1>1
<1>3. Counted(ts, P, g, s, a)
  BY <1>1, <1>2
<1>4. a \in 1 .. a /\ a \in 0 .. Len(ts)
  BY DEF Situation
<1>5. /\ g - (P[a].int - P[a].int) > REGN <=> P[a].int > REGN
      /\ s - (P[a].sse - P[a].sse) > SSEN <=> P[a].sse > SSEN
      /\ g \in Nat /\ s \in Nat
  BY <1>3, <1>4, CountTests
<1>6. PICK x \in Nat, y \in Nat : x = P[a].int /\ y = P[a].sse
  BY <1>4, MarksAre
<1>7. PICK r \in Nat, q \in Nat : r = REGN /\ q = SSEN
  BY CallAssumption
<1>8. (g > r <=> x > r) /\ (s > q <=> y > q)
  <2>1. (g - (x - x) > r <=> x > r) /\ (s - (y - y) > q <=> y > q)
    BY <1>5, <1>6, <1>7
  <2> QED
    BY <1>5, <2>1
<1>9. (g <= r <=> x <= r) /\ (s <= q <=> y <= q)
  BY <1>5, <1>8
<1>10. Mode(ts[a]) = "integer" => (In(ts, P, a) <=> g <= REGN)
  BY <1>6, <1>7, <1>9 DEF In, Fits
<1>11. Mode(ts[a]) = "sse" => (In(ts, P, a) <=> s <= SSEN)
  BY <1>6, <1>7, <1>9 DEF In, Fits
<1> QED
  BY <1>2, <1>5, <1>10, <1>11

LEMMA StoreStep == IInv /\ StoreArg => IInv'
<1> SUFFICES ASSUME IInv, StoreArg PROVE IInv'
  OBVIOUS
<1>1. /\ at = "store" /\ arg < run_end
      /\ UNCHANGED <<call, at, run_start, regs, xmm, callee, params>>
  BY DEF StoreArg, CalleeUntouched
<1>2. ASSUME Good
      PROVE  CallerState(ArgTypes(call), Plan(ArgTypes(call)), FirstArg(call), at', args',
                         run_start', run_end', arg', gen_reg', sse_reg', pushed', regs', xmm')
  <2>1. PICK ts : ts = ArgTypes(call)
    OBVIOUS
  <2>2. PICK P : P = Plan(ts)
    OBVIOUS
  <2>3. PICK n0 : n0 = FirstArg(call)
    OBVIOUS
  <2>4. /\ Situation(ts, P) /\ n0 \in Nat
        /\ CallerState(ts, P, n0, at, args, run_start, run_end, arg, gen_reg, sse_reg, pushed, regs, xmm)
    BY <1>2, <2>1, <2>2, <2>3, Given
  <2>5. /\ StoreState(ts, P, n0, args, arg, run_end, gen_reg, sse_reg, pushed)
        /\ regs \in [0 .. 11 -> WordSet] /\ xmm \in [0 .. SSEN - 1 -> WordSet]
    BY <1>1, <2>4 DEF CallerState
  <2>6. Listed(ts, P, args, arg) /\ Counted(ts, P, gen_reg, sse_reg, Len(args) - arg)
        /\ run_end \in arg .. Len(args)
    BY <2>5 DEF StoreState
  <2>7. arg < Len(args)
    <3>1. PICK n \in Nat : n = Len(args) /\ arg \in 0 .. n
      BY <2>4, <2>6, ListIs
    <3> QED
      BY <1>1, <2>6, <3>1
  <2>8. PICK a \in 1 .. Len(ts) : a = args[arg + 1]
    BY <2>4, <2>6, <2>7, Reached
  <2>9. /\ gen_reg \in Nat /\ sse_reg \in Nat
        /\ Mode(ts[a]) = "integer" => (In(ts, P, a) <=> gen_reg <= REGN)
        /\ Mode(ts[a]) = "sse" => (In(ts, P, a) <=> sse_reg <= SSEN)
    BY <2>4, <2>6, <2>7, <2>8, Reached
  <2>10. /\ gen_reg > REGN <=> ~ (gen_reg <= REGN)
         /\ sse_reg > SSEN <=> ~ (sse_reg <= SSEN)
    <3>1. PICK r \in Nat, q \in Nat : r = REGN /\ q = SSEN
      BY CallAssumption
    <3> QED
      BY <2>9, <3>1
  <2> DEFINE mode == Mode(ts[a])
             c == RegCount(ts[a])
  <2>11. TypeOf(args[arg + 1]) = ts[a] /\ WordsOf(args[arg + 1]) = Words(n0 + a - 1, ts[a])
    BY <2>1, <2>3, <2>8 DEF TypeOf, WordsOf
  <2>12. CASE /\ \/ mode = "memory"
                 \/ mode = "sse" /\ sse_reg > SSEN
                 \/ mode = "integer" /\ gen_reg > REGN
              /\ pushed' = Pushed(Words(n0 + a - 1, ts[a]))
              /\ args' = RemoveAt(args, arg + 1)
              /\ run_end' = run_end - 1
              /\ gen_reg' = IF mode = "integer" THEN gen_reg - c ELSE gen_reg
              /\ sse_reg' = IF mode = "sse" THEN sse_reg - c ELSE sse_reg
              /\ arg' = arg
    <3>1. ~ In(ts, P, a)
      <4>1. CASE mode = "memory"
        BY <4>1 DEF In, Fits
      <4>2. CASE mode = "sse" /\ sse_reg > SSEN
        BY <2>9, <2>10, <4>2
      <4>3. CASE mode = "integer" /\ gen_reg > REGN
        BY <2>9, <2>10, <4>3
      <4> QED
        BY <2>12, <4>1, <4>2, <4>3
    <3>2. StoreState(ts, P, n0, RemoveAt(args, arg + 1), arg, run_end - 1,
                     IF mode = "integer" THEN gen_reg - c ELSE gen_reg,
                     IF mode = "sse" THEN sse_reg - c ELSE sse_reg,
                     Words(n0 + a - 1, ts[a]) \o pushed)
      BY <1>1, <2>4, <2>5, <2>8, <3>1, ArgStored
    <3>3. StoreState(ts, P, n0, args', arg', run_end', gen_reg', sse_reg', pushed')
      BY <2>12, <3>2 DEF Pushed
    <3>4. CallerState(ts, P, n0, at', args', run_start', run_end', arg', gen_reg', sse_reg', pushed', regs', xmm')
      BY <1>1, <2>5, <3>3 DEF CallerState
    <3> QED
      BY <2>1, <2>2, <2>3, <3>4
  <2>13. CASE /\ \/ mode = "sse" /\ sse_reg <= SSEN
                 \/ mode = "integer" /\ gen_reg <= REGN
              /\ arg' = arg + 1
              /\ UNCHANGED <<args, run_end, pushed, gen_reg, sse_reg>>
    <3>1. In(ts, P, a)
      BY <2>9, <2>13
    <3>2. StoreState(ts, P, n0, args, arg + 1, run_end, gen_reg, sse_reg, pushed)
      BY <1>1, <2>4, <2>5, <2>8, <3>1, ArgKept
    <3>3. StoreState(ts, P, n0, args', arg', run_end', gen_reg', sse_reg', pushed')
      BY <2>13, <3>2
    <3>4. CallerState(ts, P, n0, at', args', run_start', run_end', arg', gen_reg', sse_reg', pushed', regs', xmm')
      BY <1>1, <2>5, <3>3 DEF CallerState
    <3> QED
      BY <2>1, <2>2, <2>3, <3>4
  <2> QED
    BY <2>11, <2>12, <2>13 DEF StoreArg
<1> QED
  BY <1>1, <1>2, CallerStep

LEMMA AlignedStep == IInv /\ StoreAligned => IInv'
<1> SUFFICES ASSUME IInv, StoreAligned PROVE IInv'
  OBVIOUS
<1>1. /\ at = "store" /\ arg = run_end /\ arg < Len(args) /\ TypeAlign(TypeOf(args[arg + 1])) = 2
  BY DEF StoreAligned, AlignedNext
<1>2. UNCHANGED <<call, callee, params>> /\ at' # "params"
  <2>1. CASE Fails
    BY <2>1 DEF Fails
  <2>2. CASE UNCHANGED <<call, at>> /\ CalleeUntouched
    BY <1>1, <2>2 DEF CalleeUntouched
  <2> QED
    BY <2>1, <2>2 DEF StoreAligned
<1>3. ASSUME Good
      PROVE  CallerState(ArgTypes(call), Plan(ArgTypes(call)), FirstArg(call), at', args',
                         run_start', run_end', arg', gen_reg', sse_reg', pushed', regs', xmm')
  <2>1. PICK ts : ts = ArgTypes(call)
    OBVIOUS
  <2>2. PICK P : P = Plan(ts)
    OBVIOUS
  <2>3. PICK n0 : n0 = FirstArg(call)
    OBVIOUS
  <2>4. /\ Situation(ts, P) /\ n0 \in Nat
        /\ CallerState(ts, P, n0, at, args, run_start, run_end, arg, gen_reg, sse_reg, pushed, regs, xmm)
    BY <1>3, <2>1, <2>2, <2>3, Given
  <2>5. /\ StoreState(ts, P, n0, args, arg, run_end, gen_reg, sse_reg, pushed)
        /\ regs \in [0 .. 11 -> WordSet] /\ xmm \in [0 .. SSEN - 1 -> WordSet]
    BY <1>1, <2>4 DEF CallerState
  <2>6. PICK a : a = args[arg + 1]
    OBVIOUS
  <2>7. TypeOf(args[arg + 1]) = ts[a] /\ WordsOf(args[arg + 1]) = Words(n0 + a - 1, ts[a])
    BY <2>1, <2>3, <2>6 DEF TypeOf, WordsOf
  <2>8. TypeAlign(ts[a]) = 2 /\ StoreState(ts, P, n0, args, arg, arg, gen_reg, sse_reg, pushed)
    BY <1>1, <2>5, <2>7
  <2>9. /\ Mode(ts[a]) \in {"x87", "memory"}
        /\ StoreState(ts, P, n0, RemoveAt(args, arg + 1), arg, arg, gen_reg, sse_reg,
                      Words(n0 + a - 1, ts[a]) \o pushed)
    BY <1>1, <2>4, <2>6, <2>8, AlignedStored
  <2>10. /\ pushed' = Pushed(Words(n0 + a - 1, ts[a])) /\ args' = RemoveAt(args, arg + 1)
         /\ UNCHANGED <<call, at, run_start, run_end, arg, gen_reg, sse_reg, regs, xmm>>
    BY <2>7, <2>9 DEF StoreAligned
  <2>11. StoreState(ts, P, n0, args', arg', run_end', gen_reg', sse_reg', pushed')
    BY <1>1, <2>9, <2>10 DEF Pushed
  <2>12. CallerState(ts, P, n0, at', args', run_start', run_end', arg', gen_reg', sse_reg', pushed', regs', xmm')
    BY <1>1, <2>5, <2>10, <2>11 DEF CallerState
  <2> QED
    BY <2>1, <2>2, <2>3, <2>12
<1> QED
  BY <1>1, <1>2, <1>3, CallerStep

LEMMA EndStep == IInv /\ EndOfRun => IInv'
<1> SUFFICES ASSUME IInv, EndOfRun PROVE IInv'
  OBVIOUS
<1>1. /\ at = "store" /\ arg = run_end /\ at' = "run" /\ run_start' = run_end
      /\ UNCHANGED <<call, args, run_end, arg, gen_reg, sse_reg, pushed, regs, xmm, callee, params>>
  BY DEF EndOfRun, CalleeUntouched
<1>2. ASSUME Good
      PROVE  CallerState(ArgTypes(call), Plan(ArgTypes(call)), FirstArg(call), at', args',
                         run_start', run_end', arg', gen_reg', sse_reg', pushed', regs', xmm')
  <2>1. PICK ts : ts = ArgTypes(call)
    OBVIOUS
  <2>2. PICK P : P = Plan(ts)
    OBVIOUS
  <2>3. PICK n0 : n0 = FirstArg(call)
    OBVIOUS
  <2>4. /\ Situation(ts, P) /\ n0 \in Nat
        /\ CallerState(ts, P, n0, at, args, run_start, run_end, arg, gen_reg, sse_reg, pushed, regs, xmm)
    BY <1>2, <2>1, <2>2, <2>3, Given
  <2>5. /\ StoreState(ts, P, n0, args, arg, arg, gen_reg, sse_reg, pushed)
        /\ regs \in [0 .. 11 -> WordSet] /\ xmm \in [0 .. SSEN - 1 -> WordSet]
    BY <1>1, <2>4 DEF CallerState
  <2>6. RunState(ts, P, n0, args, arg, gen_reg, sse_reg, pushed)
    BY <2>5 DEF StoreState, RunState
  <2>7. RunState(ts, P, n0, args', run_start', gen_reg', sse_reg', pushed')
    BY <1>1, <2>6
  <2>8. CallerState(ts, P, n0, at', args', run_start', run_end', arg', gen_reg', sse_reg', pushed', regs', xmm')
    BY <1>1, <2>5, <2>7 DEF CallerState
  <2> QED
    BY <2>1, <2>2, <2>3, <2>8
<1> QED
  BY <1>1, <1>2, CallerStep

LEMMA PrepareStep == IInv /\ PrepareRegs => IInv'
<1> SUFFICES ASSUME IInv, PrepareRegs PROVE IInv'
  OBVIOUS
<1>1. at = "run" /\ run_start = Len(args)
  BY DEF PrepareRegs
<1>2. UNCHANGED <<call, args, run_end, arg, gen_reg, sse_reg, pushed, regs, xmm, callee, params>> /\ at' # "params"
  <2>1. CASE Fails
    BY <2>1 DEF Fails
  <2>2. CASE /\ at' = "regs"
             /\ UNCHANGED <<call, args, run_start, run_end, arg, gen_reg, sse_reg, pushed, regs, xmm>>
             /\ CalleeUntouched
    BY <2>2 DEF CalleeUntouched
  <2> QED
    BY <2>1, <2>2 DEF PrepareRegs
<1>3. ASSUME Good
      PROVE  CallerState(ArgTypes(call), Plan(ArgTypes(call)), FirstArg(call), at', args',
                         run_start', run_end', arg', gen_reg', sse_reg', pushed', regs', xmm')
  <2>1. PICK ts : ts = ArgTypes(call)
    OBVIOUS
  <2>2. PICK P : P = Plan(ts)
    OBVIOUS
  <2>3. PICK n0 : n0 = FirstArg(call)
    OBVIOUS
  <2>4. /\ Situation(ts, P) /\ n0 \in Nat
        /\ CallerState(ts, P, n0, at, args, run_start, run_end, arg, gen_reg, sse_reg, pushed, regs, xmm)
    BY <1>3, <2>1, <2>2, <2>3, Given
  <2>5. /\ RunState(ts, P, n0, args, run_start, gen_reg, sse_reg, pushed)
        /\ regs \in [0 .. 11 -> WordSet] /\ xmm \in [0 .. SSEN - 1 -> WordSet]
    BY <1>1, <2>4 DEF CallerState
  <2>6. /\ gen_reg <= REGN /\ sse_reg <= SSEN
        /\ RegsState(ts, P, n0, args, gen_reg, sse_reg, pushed, regs, xmm, PrepReg)
    BY <1>1, <2>4, <2>5, RunsOver
  <2>7. at' = "regs"
    BY <2>6 DEF PrepareRegs
  <2>8. CallerState(ts, P, n0, at', args', run_start', run_end', arg', gen_reg', sse_reg', pushed', regs', xmm')
    BY <1>2, <2>5, <2>6, <2>7 DEF CallerState
  <2> QED
    BY <2>1, <2>2, <2>3, <2>8
<1> QED
  BY <1>1, <1>2, <1>3, CallerStep

LEMMA IntegerStep == IInv /\ LoadInteger => IInv'
<1> SUFFICES ASSUME IInv, LoadInteger PROVE IInv'
  OBVIOUS
<1>1. /\ at = "regs" /\ args # <<>> /\ Mode(TypeOf(args[1])) = "integer" /\ args' = Tail(args)
      /\ UNCHANGED <<call, at, run_start, run_end, arg, sse_reg, pushed, xmm, callee, params>>
  BY DEF LoadInteger, CalleeUntouched
<1>2. ASSUME Good
      PROVE  CallerState(ArgTypes(call), Plan(ArgTypes(call)), FirstArg(call), at', args',
                         run_start', run_end', arg', gen_reg', sse_reg', pushed', regs', xmm')
  <2>1. PICK ts : ts = ArgTypes(call)
    OBVIOUS
  <2>2. PICK P : P = Plan(ts)
    OBVIOUS
  <2>3. PICK n0 : n0 = FirstArg(call)
    OBVIOUS
  <2>4. /\ Situation(ts, P) /\ n0 \in Nat
        /\ CallerState(ts, P, n0, at, args, run_start, run_end, arg, gen_reg, sse_reg, pushed, regs, xmm)
    BY <1>2, <2>1, <2>2, <2>3, Given
  <2>5. /\ RegsState(ts, P, n0, args, gen_reg, sse_reg, pushed, regs, xmm, PrepReg)
        /\ regs \in [0 .. 11 -> WordSet] /\ xmm \in [0 .. SSEN - 1 -> WordSet]
    BY <1>1, <2>4 DEF CallerState
  <2> DEFINE c == RegCount(ts[args[1]])
             w == Words(n0 + args[1] - 1, ts[args[1]])
             n == gen_reg - c
  <2>6. TypeOf(args[1]) = ts[args[1]] /\ WordsOf(args[1]) = w
    BY <2>1, <2>3 DEF TypeOf, WordsOf
  <2>7. /\ IntRegs(regs, w, c, n) \in [0 .. 11 -> WordSet]
        /\ n \in 0 .. 5 /\ (c = 2 => n + 1 \in 0 .. 5)
        /\ RegsState(ts, P, n0, Tail(args), n, sse_reg, pushed, IntRegs(regs, w, c, n), xmm, PrepReg)
    BY <1>1, <2>4, <2>5, <2>6, IntegerLoaded
  <2>8. /\ gen_reg' = n
        /\ regs' = [r \in DOMAIN regs |->
                       IF r = arg_prepare_reg(n) THEN w[1]
                       ELSE IF c = 2 /\ r = arg_prepare_reg(n + 1) THEN w[2]
                       ELSE IF r \in RC_INT THEN Garbage ELSE regs[r]]
    BY <2>6 DEF LoadInteger
  <2>9. PrepReg[n] = arg_prepare_reg(n) /\ (c = 2 => PrepReg[n + 1] = arg_prepare_reg(n + 1))
    BY <2>7 DEF PrepReg
  <2>10. regs' = IntRegs(regs, w, c, n)
    BY <2>8, <2>9 DEF IntRegs
  <2>11. CallerState(ts, P, n0, at', args', run_start', run_end', arg', gen_reg', sse_reg', pushed', regs', xmm')
    BY <1>1, <2>5, <2>7, <2>8, <2>10 DEF CallerState
  <2> QED
    BY <2>1, <2>2, <2>3, <2>11
<1> QED
  BY <1>1, <1>2, CallerStep

LEMMA FloatStep == IInv /\ LoadFloat => IInv'
<1> SUFFICES ASSUME IInv, LoadFloat PROVE IInv'
  OBVIOUS
<1>1. /\ at = "regs" /\ args # <<>> /\ Mode(TypeOf(args[1])) = "sse" /\ args' = Tail(args)
      /\ UNCHANGED <<call, at, run_start, run_end, arg, gen_reg, pushed, regs, callee, params>>
  BY DEF LoadFloat, CalleeUntouched
<1>2. ASSUME Good
      PROVE  CallerState(ArgTypes(call), Plan(ArgTypes(call)), FirstArg(call), at', args',
                         run_start', run_end', arg', gen_reg', sse_reg', pushed', regs', xmm')
  <2>1. PICK ts : ts = ArgTypes(call)
    OBVIOUS
  <2>2. PICK P : P = Plan(ts)
    OBVIOUS
  <2>3. PICK n0 : n0 = FirstArg(call)
    OBVIOUS
  <2>4. /\ Situation(ts, P) /\ n0 \in Nat
        /\ CallerState(ts, P, n0, at, args, run_start, run_end, arg, gen_reg, sse_reg, pushed, regs, xmm)
    BY <1>2, <2>1, <2>2, <2>3, Given
  <2>5. /\ RegsState(ts, P, n0, args, gen_reg, sse_reg, pushed, regs, xmm, PrepReg)
        /\ regs \in [0 .. 11 -> WordSet] /\ xmm \in [0 .. SSEN - 1 -> WordSet]
    BY <1>1, <2>4 DEF CallerState
  <2> DEFINE c == RegCount(ts[args[1]])
             w == Words(n0 + args[1] - 1, ts[args[1]])
             n == sse_reg - c
  <2>6. TypeOf(args[1]) = ts[args[1]] /\ WordsOf(args[1]) = w
    BY <2>1, <2>3 DEF TypeOf, WordsOf
  <2>7. /\ FloatRegs(xmm, w, c, n) \in [0 .. SSEN - 1 -> WordSet]
        /\ RegsState(ts, P, n0, Tail(args), gen_reg, n, pushed, regs, FloatRegs(xmm, w, c, n), PrepReg)
    BY <1>1, <2>4, <2>5, <2>6, FloatLoaded
  <2>8. /\ sse_reg' = n
        /\ xmm' = IF c = 2 THEN PairLoaded(w, n) ELSE [xmm EXCEPT ![n] = WordOf(w, 1)]
    BY <2>6 DEF LoadFloat
  <2>9. PairLoaded(w, n) = PairIn(xmm, w, n)
    BY DEF PairLoaded, PairIn
  <2>10. xmm' = FloatRegs(xmm, w, c, n)
    BY <2>8, <2>9 DEF FloatRegs
  <2>11. CallerState(ts, P, n0, at', args', run_start', run_end', arg', gen_reg', sse_reg', pushed', regs', xmm')
    BY <1>1, <2>5, <2>7, <2>8, <2>10 DEF CallerState
  <2> QED
    BY <2>1, <2>2, <2>3, <2>11
<1> QED
  BY <1>1, <1>2, CallerStep

LEMMA DoCallStep == IInv /\ DoCall => IInv'
<1> SUFFICES ASSUME IInv, DoCall PROVE IInv'
  OBVIOUS
<1>1. at = "regs" /\ args = <<>>
  BY DEF DoCall
<1>2. UNCHANGED <<call, args, run_start, run_end, arg, gen_reg, sse_reg, pushed, xmm, callee, params>>
      /\ at' # "params"
  <2>1. CASE Fails
    BY <2>1 DEF Fails
  <2>2. CASE /\ at' = "prolog"
             /\ UNCHANGED <<call, args, run_start, run_end, arg, gen_reg, sse_reg, pushed, xmm>>
             /\ CalleeUntouched
    BY <2>2 DEF CalleeUntouched
  <2> QED
    BY <2>1, <2>2 DEF DoCall
<1>3. ASSUME Good
      PROVE  CallerState(ArgTypes(call), Plan(ArgTypes(call)), FirstArg(call), at', args',
                         run_start', run_end', arg', gen_reg', sse_reg', pushed', regs', xmm')
  <2>1. PICK ts : ts = ArgTypes(call)
    OBVIOUS
  <2>2. PICK P : P = Plan(ts)
    OBVIOUS
  <2>3. PICK n0 : n0 = FirstArg(call)
    OBVIOUS
  <2>4. /\ Situation(ts, P) /\ n0 \in Nat
        /\ CallerState(ts, P, n0, at, args, run_start, run_end, arg, gen_reg, sse_reg, pushed, regs, xmm)
    BY <1>3, <2>1, <2>2, <2>3, Given
  <2>5. /\ RegsState(ts, P, n0, args, gen_reg, sse_reg, pushed, regs, xmm, PrepReg)
        /\ regs \in [0 .. 11 -> WordSet] /\ xmm \in [0 .. SSEN - 1 -> WordSet]
    BY <1>1, <2>4 DEF CallerState
  <2>6. gen_reg = 0 /\ sse_reg = 0 /\ AllPlaced(ts, P, n0, regs, xmm, PrepReg)
    BY <1>1, <2>4, <2>5, AllLoaded
  <2>7. Laid(ts, P, n0, pushed, 0, 0)
    BY <2>5 DEF RegsState
  <2>8. Needed("integer", ts) = P[Len(ts)].int
    <3>1. PICK N \in Nat : N = Len(ts) /\ N \in 0 .. Len(ts) /\ ts \in [1 .. N -> CTypes]
      BY <2>4 DEF Situation
    <3>2. \A p \in 1 .. N : ts[p] = ts[p]
      OBVIOUS
    <3>3. Needed("integer", ts) = P[N].int
      BY <2>4, <3>1, <3>2, NeededFront
    <3> QED
      BY <3>1, <3>3
  <2>9. PICK m \in Nat : m = P[Len(ts)].int
    <3>1. Len(ts) \in 0 .. Len(ts)
      BY <2>4 DEF Situation
    <3> QED
      BY <2>4, <3>1, MarksAre
  <2>10. at' = "prolog" /\ regs' = Moved(regs, m)
    BY <2>1, <2>6, <2>8, <2>9 DEF DoCall, Moved
  <2>11. AllPlaced(ts, P, n0, Moved(regs, m), xmm, ArgReg)
    BY <2>4, <2>5, <2>6, <2>9, AllMoved
  <2>12. Moved(regs, m) \in [0 .. 11 -> WordSet]
    BY <2>5, MovedIs
  <2>13. Passed(ts, P, n0, pushed', regs', xmm')
    BY <1>2, <2>5, <2>7, <2>10, <2>11, <2>12 DEF Passed
  <2>14. CallerState(ts, P, n0, at', args', run_start', run_end', arg', gen_reg', sse_reg', pushed', regs', xmm')
    BY <1>2, <2>5, <2>10, <2>12, <2>13 DEF CallerState
  <2> QED
    BY <2>1, <2>2, <2>3, <2>14
<1> QED
  BY <1>1, <1>2, <1>3, CallerStep

-----------------------------------------------------------------------------
(* The steps of the callee                                                 *)

LEMMA PrologStep == IInv /\ Prolog => IInv'
<1> SUFFICES ASSUME IInv, Prolog PROVE IInv'
  OBVIOUS
<1>1. /\ at = "prolog" /\ at' = "params" /\ UNCHANGED params /\ CallerDone
      /\ callee' = IF ReturnsInMemory(call)
                   THEN [callee EXCEPT !.func_vc = regs[arg_regs(0)], !.reg_param_index = 1]
                   ELSE callee
  BY DEF Prolog
<1>2. ASSUME Good
      PROVE  CalleeState(ArgTypes(call), Plan(ArgTypes(call)), FirstArg(call), Len(call.params),
                         at', callee', params')
  <2>1. PICK ts : ts = ArgTypes(call)
    OBVIOUS
  <2>2. PICK P : P = Plan(ts)
    OBVIOUS
  <2>3. PICK n0 : n0 = FirstArg(call)
    OBVIOUS
  <2>4. /\ Situation(ts, P) /\ n0 \in Nat /\ n0 \in {0, 1}
        /\ CallerState(ts, P, n0, at, args, run_start, run_end, arg, gen_reg, sse_reg, pushed, regs, xmm)
        /\ CalleeState(ts, P, n0, Len(call.params), at, callee, params)
    BY <1>2, <2>1, <2>2, <2>3, Given
  <2>5. Passed(ts, P, n0, pushed, regs, xmm)
    BY <1>1, <2>4 DEF CallerState
  <2>6. params = <<>> /\ callee = NoneSeen /\ callee \in CalleeSet /\ params \in Seq(Seq(WordSet))
    BY <1>1, <2>4 DEF CalleeState
  <2>7. call \in Call
    BY CallAssumption DEF IInv
  <2>8. /\ n0 = 0 <=> ReturnsInMemory(call)
        /\ Len(ts) = 1 - n0 + Len(call.params) + Len(call.more)
        /\ ReturnsInMemory(call) => ts[1] = Pointer
    BY <2>1, <2>3, <2>7, ArgTypesAre
  <2>9. PICK m \in Nat, q \in Nat : m = Len(call.params) /\ q = Len(call.more)
    BY <2>7 DEF Call
  <2>10. /\ callee' \in CalleeSet /\ CounterState(P, 1 - n0, callee')
         /\ n0 = 0 => callee'.func_vc = <<0, 1>>
    <3>1. CASE n0 = 0
      <4>1. 1 \in 1 .. Len(ts)
        <5>1. PICK N \in Nat : N = Len(ts)
          BY <2>4 DEF Situation
        <5>2. N = 1 - n0 + m + q
          BY <2>8, <2>9, <5>1
        <5>3. N = 1 + m + q
          BY <3>1, <5>2
        <5>4. 1 \in 1 .. N
          BY <5>3
        <5> QED
          BY <5>1, <5>4
      <4>2. regs[arg_regs(0)] = <<0, 1>> /\ P[1].int = 1 /\ P[1].sse = 0 /\ P[1].end = 0
        BY <2>4, <2>5, <2>8, <3>1, <4>1, PlacePassed
      <4>3. callee' = [callee EXCEPT !.func_vc = <<0, 1>>, !.reg_param_index = 1]
        BY <1>1, <2>8, <3>1, <4>2
      <4>4. /\ callee'.reg_param_index = 1 /\ callee'.sse_param_index = 0 /\ callee'.addr = 0
            /\ callee'.func_vc = <<0, 1>>
        BY <2>6, <4>3 DEF NoneSeen
      <4>5. <<0, 1>> \in WordSet
        BY DEF WordSet
      <4>6. callee' \in CalleeSet
        BY <2>6, <4>3, <4>5 DEF CalleeSet
      <4>7. 1 - n0 = 1
        BY <3>1
      <4> QED
        BY <4>2, <4>4, <4>6, <4>7 DEF CounterState
    <3>2. CASE n0 = 1
      <4>1. callee' = NoneSeen
        BY <1>1, <2>6, <2>8, <3>2
      <4>2. P[0].int = 0 /\ P[0].sse = 0 /\ P[0].end = 0
        BY <2>4, NoMarkIs
      <4>3. 1 - n0 = 0
        BY <3>2
      <4> QED
        BY <2>6, <3>2, <4>1, <4>2, <4>3 DEF CounterState, NoneSeen
    <3> QED
      BY <2>4, <3>1, <3>2
  <2>11. params' = <<>> /\ Len(params') = 0 /\ params' \in Seq(Seq(WordSet))
    BY <1>1, <2>6
  <2>12. 1 - n0 + Len(params') = 1 - n0 /\ Len(params') <= Len(call.params)
    BY <2>4, <2>9, <2>11
  <2>13. \A k \in 1 .. Len(params') : FALSE
    BY <2>11
  <2>14. CounterState(P, 1 - n0 + Len(params'), callee')
    BY <2>10, <2>12
  <2>15. CalleeState(ts, P, n0, Len(call.params), at', callee', params')
    BY <1>1, <2>10, <2>11, <2>12, <2>13, <2>14 DEF CalleeState
  <2> QED
    BY <2>1, <2>2, <2>3, <2>15
<1> QED
  BY <1>1, <1>2, CalleeStep

\* How the counters go on at an argument
LEMMA NextMarks ==
    ASSUME NEW ts, NEW P, Situation(ts, P), NEW a \in 1 .. Len(ts)
    PROVE  /\ Mode(ts[a]) = "integer" =>
                 /\ In(ts, P, a) <=> P[a - 1].int + RegCount(ts[a]) <= REGN
                 /\ P[a].int = P[a - 1].int + RegCount(ts[a]) /\ P[a].sse = P[a - 1].sse
           /\ Mode(ts[a]) = "sse" =>
                 /\ In(ts, P, a) <=> P[a - 1].sse + RegCount(ts[a]) <= SSEN
                 /\ P[a].sse = P[a - 1].sse + RegCount(ts[a]) /\ P[a].int = P[a - 1].int
           /\ Mode(ts[a]) \notin {"integer", "sse"} =>
                 ~ In(ts, P, a) /\ P[a].int = P[a - 1].int /\ P[a].sse = P[a - 1].sse
           /\ In(ts, P, a) => P[a].end = P[a - 1].end
           /\ ~ In(ts, P, a) => /\ Start(ts, P, a) = UpTo(P[a - 1].end, TypeAlign(ts[a]))
                                /\ P[a].end = Start(ts, P, a) + TypeSize(ts[a])
                                /\ Start(ts, P, a) \in Nat
<1>1. a - 1 \in 0 .. Len(ts)
  BY DEF Situation
<1>2. /\ P[a].int = P[a - 1].int + Part("integer", ts[a])
      /\ P[a].sse = P[a - 1].sse + Part("sse", ts[a])
  BY Marked
<1>3. P[a - 1].int \in Nat /\ P[a - 1].sse \in Nat
  BY <1>1, MarksAre
<1>4. P[a - 1].int + 0 = P[a - 1].int /\ P[a - 1].sse + 0 = P[a - 1].sse
  BY <1>3
<1>5. ASSUME Mode(ts[a]) = "integer"
      PROVE  /\ In(ts, P, a) <=> P[a - 1].int + RegCount(ts[a]) <= REGN
             /\ P[a].int = P[a - 1].int + RegCount(ts[a]) /\ P[a].sse = P[a - 1].sse
  <2>1. Part("integer", ts[a]) = RegCount(ts[a]) /\ Part("sse", ts[a]) = 0
    BY <1>5 DEF Part
  <2>2. P[a].int = P[a - 1].int + RegCount(ts[a]) /\ P[a].sse = P[a - 1].sse
    BY <1>2, <1>4, <2>1
  <2>3. In(ts, P, a) <=> P[a].int <= REGN
    BY <1>5 DEF In, Fits
  <2> QED
    BY <2>2, <2>3
<1>6. ASSUME Mode(ts[a]) = "sse"
      PROVE  /\ In(ts, P, a) <=> P[a - 1].sse + RegCount(ts[a]) <= SSEN
             /\ P[a].sse = P[a - 1].sse + RegCount(ts[a]) /\ P[a].int = P[a - 1].int
  <2>1. Part("sse", ts[a]) = RegCount(ts[a]) /\ Part("integer", ts[a]) = 0
    BY <1>6 DEF Part
  <2>2. P[a].sse = P[a - 1].sse + RegCount(ts[a]) /\ P[a].int = P[a - 1].int
    BY <1>2, <1>4, <2>1
  <2>3. In(ts, P, a) <=> P[a].sse <= SSEN
    BY <1>6 DEF In, Fits
  <2> QED
    BY <2>2, <2>3
<1>7. ASSUME Mode(ts[a]) \notin {"integer", "sse"}
      PROVE  ~ In(ts, P, a) /\ P[a].int = P[a - 1].int /\ P[a].sse = P[a - 1].sse
  <2>1. Part("sse", ts[a]) = 0 /\ Part("integer", ts[a]) = 0
    BY <1>7 DEF Part
  <2>2. P[a].sse = P[a - 1].sse /\ P[a].int = P[a - 1].int
    BY <1>2, <1>4, <2>1
  <2>3. ~ In(ts, P, a)
    BY <1>7 DEF In, Fits
  <2> QED
    BY <2>2, <2>3
<1>8. In(ts, P, a) => P[a].end = P[a - 1].end
  BY StackMarks
<1>9. ASSUME ~ In(ts, P, a)
      PROVE  /\ Start(ts, P, a) = UpTo(P[a - 1].end, TypeAlign(ts[a]))
             /\ P[a].end = Start(ts, P, a) + TypeSize(ts[a])
             /\ Start(ts, P, a) \in Nat
  <2>1. Start(ts, P, a) = UpTo(P[a - 1].end, TypeAlign(ts[a])) /\ Start(ts, P, a) \in Nat
    BY <1>9, StackMarks
  <2>2. PICK e \in Nat : e = P[a].end
    <3>1. a \in 0 .. Len(ts)
      OBVIOUS
    <3> QED
      BY <3>1, MarksAre
  <2>3. PICK z \in Nat : z = TypeSize(ts[a])
    BY TypeFacts
  <2>4. PICK o \in Nat : o = Start(ts, P, a)
    BY <2>1
  <2>5. o = e - z
    BY <2>2, <2>3, <2>4 DEF Start
  <2>6. e = o + z
    BY <2>5
  <2> QED
    BY <2>1, <2>2, <2>3, <2>4, <2>6
<1> QED
  BY <1>5, <1>6, <1>7, <1>8, <1>9

LEMMA CounterSet ==
    ASSUME NEW x \in CalleeSet, NEW v \in Nat
    PROVE  /\ x.reg_param_index \in Nat /\ x.sse_param_index \in Nat /\ x.addr \in Nat
           /\ [x EXCEPT !.reg_param_index = v] \in CalleeSet
           /\ [x EXCEPT !.reg_param_index = v].reg_param_index = v
           /\ [x EXCEPT !.reg_param_index = v].sse_param_index = x.sse_param_index
           /\ [x EXCEPT !.reg_param_index = v].addr = x.addr
           /\ [x EXCEPT !.reg_param_index = v].func_vc = x.func_vc
           /\ [x EXCEPT !.sse_param_index = v] \in CalleeSet
           /\ [x EXCEPT !.sse_param_index = v].sse_param_index = v
           /\ [x EXCEPT !.sse_param_index = v].reg_param_index = x.reg_param_index
           /\ [x EXCEPT !.sse_param_index = v].addr = x.addr
           /\ [x EXCEPT !.sse_param_index = v].func_vc = x.func_vc
           /\ [x EXCEPT !.addr = v] \in CalleeSet
           /\ [x EXCEPT !.addr = v].addr = v
           /\ [x EXCEPT !.addr = v].reg_param_index = x.reg_param_index
           /\ [x EXCEPT !.addr = v].sse_param_index = x.sse_param_index
           /\ [x EXCEPT !.addr = v].func_vc = x.func_vc
<1>1. x.reg_param_index \in Nat /\ x.sse_param_index \in Nat /\ x.addr \in Nat
  BY DEF CalleeSet
<1>2. /\ [x EXCEPT !.reg_param_index = v] \in CalleeSet
      /\ [x EXCEPT !.reg_param_index = v].reg_param_index = v
      /\ [x EXCEPT !.reg_param_index = v].sse_param_index = x.sse_param_index
      /\ [x EXCEPT !.reg_param_index = v].addr = x.addr
      /\ [x EXCEPT !.reg_param_index = v].func_vc = x.func_vc
  BY DEF CalleeSet
<1>3. /\ [x EXCEPT !.sse_param_index = v] \in CalleeSet
      /\ [x EXCEPT !.sse_param_index = v].sse_param_index = v
      /\ [x EXCEPT !.sse_param_index = v].reg_param_index = x.reg_param_index
      /\ [x EXCEPT !.sse_param_index = v].addr = x.addr
      /\ [x EXCEPT !.sse_param_index = v].func_vc = x.func_vc
  BY DEF CalleeSet
<1>4. /\ [x EXCEPT !.addr = v] \in CalleeSet
      /\ [x EXCEPT !.addr = v].addr = v
      /\ [x EXCEPT !.addr = v].reg_param_index = x.reg_param_index
      /\ [x EXCEPT !.addr = v].sse_param_index = x.sse_param_index
      /\ [x EXCEPT !.addr = v].func_vc = x.func_vc
  BY DEF CalleeSet
<1> QED
  BY <1>1, <1>2, <1>3, <1>4

\* A parameter is defined.
LEMMA Defined ==
    ASSUME NEW ts, NEW P, NEW n0 \in {0, 1}, NEW n \in Nat, NEW cal, NEW qs,
           CalleeState(ts, P, n0, n, "params", cal, qs), Len(qs) < n,
           NEW a, a = 1 - n0 + Len(qs) + 1, NEW new \in CalleeSet, NEW q,
           Begins(ts, n0, a, q), new.func_vc = cal.func_vc, CounterState(P, a, new)
    PROVE  CalleeState(ts, P, n0, n, "params", new, Append(qs, q))
<1>1. PICK S : S = Seq(WordSet)
  OBVIOUS
<1>2. qs \in Seq(S) /\ q \in S
  BY <1>1 DEF CalleeState, Begins
<1>3. PICK m \in Nat : m = Len(qs)
  BY <1>2
<1>4. PICK r : r = Append(qs, q)
  OBVIOUS
<1>5. r \in Seq(S) /\ Len(r) = m + 1 /\ r[m + 1] = q /\ \A k \in 1 .. m : r[k] = qs[k]
  BY <1>2, <1>3, <1>4, AppendProperties
<1>6. m + 1 <= n
  BY <1>3
<1>7. a = 1 - n0 + (m + 1)
  BY <1>3
<1>8. ASSUME NEW k \in 1 .. m + 1 PROVE Begins(ts, n0, 1 - n0 + k, r[k])
  <2>1. CASE k = m + 1
    BY <1>5, <1>7, <2>1
  <2>2. CASE k # m + 1
    <3>1. k \in 1 .. m
      BY <2>2
    <3>2. Begins(ts, n0, 1 - n0 + k, qs[k])
      BY <1>3, <3>1 DEF CalleeState
    <3> QED
      BY <1>5, <3>1, <3>2
  <2> QED
    BY <2>1, <2>2
<1>9. n0 = 0 => new.func_vc = <<0, 1>>
  BY DEF CalleeState
<1> QED
  BY <1>1, <1>4, <1>5, <1>6, <1>7, <1>8, <1>9 DEF CalleeState

LEMMA StackedIs ==
    ASSUME NEW ts, NEW P, Situation(ts, P), NEW n0 \in Nat, NEW ps, NEW rs, NEW xs,
           Passed(ts, P, n0, ps, rs, xs), NEW a \in 1 .. Len(ts), ~ In(ts, P, a),
           NEW cal \in CalleeSet, CounterState(P, a - 1, cal), NEW next \in CalleeSet,
           next.reg_param_index = P[a].int, next.sse_param_index = P[a].sse, next.func_vc = cal.func_vc
    PROVE  LET addr == UpTo(cal.addr, TypeAlign(ts[a]))
               new  == [next EXCEPT !.addr = addr + TypeSize(ts[a])]
           IN  /\ new \in CalleeSet /\ new.func_vc = cal.func_vc /\ CounterState(P, a, new)
               /\ Begins(ts, n0, a, WordsAt(ps, addr, TypeSize(ts[a])))
<1>1. PICK o : o = UpTo(cal.addr, TypeAlign(ts[a]))
  OBVIOUS
<1>2. o = Start(ts, P, a) /\ P[a].end = o + TypeSize(ts[a]) /\ o \in Nat
  <2>1. cal.addr = P[a - 1].end
    BY DEF CounterState
  <2> QED
    BY <1>1, <2>1, NextMarks
<1>3. PICK v \in Nat : v = o + TypeSize(ts[a])
  <2>1. TypeSize(ts[a]) \in Nat
    BY TypeFacts
  <2> QED
    BY <1>2, <2>1
<1>4. PICK new : new = [next EXCEPT !.addr = v]
  OBVIOUS
<1>5. /\ new \in CalleeSet /\ new.addr = v /\ new.reg_param_index = next.reg_param_index
      /\ new.sse_param_index = next.sse_param_index /\ new.func_vc = next.func_vc
  BY <1>4, CounterSet
<1>6. CounterState(P, a, new)
  BY <1>2, <1>3, <1>5 DEF CounterState
<1>7. Begins(ts, n0, a, WordsAt(ps, o, TypeSize(ts[a])))
  BY <1>2, FromStack
<1> QED
  BY <1>1, <1>3, <1>4, <1>5, <1>6, <1>7

LEMMA DefineStep == IInv /\ DefineParam => IInv'
<1> SUFFICES ASSUME IInv, DefineParam PROVE IInv'
  OBVIOUS
<1>1. at = "params" /\ at' = "params" /\ Len(params) < Len(call.params) /\ CallerDone
  BY DEF DefineParam
<1>2. ASSUME Good
      PROVE  CalleeState(ArgTypes(call), Plan(ArgTypes(call)), FirstArg(call), Len(call.params),
                         at', callee', params')
  <2>1. PICK ts : ts = ArgTypes(call)
    OBVIOUS
  <2>2. PICK P : P = Plan(ts)
    OBVIOUS
  <2>3. PICK n0 : n0 = FirstArg(call)
    OBVIOUS
  <2>4. /\ Situation(ts, P) /\ n0 \in Nat /\ n0 \in {0, 1}
        /\ CallerState(ts, P, n0, at, args, run_start, run_end, arg, gen_reg, sse_reg, pushed, regs, xmm)
        /\ CalleeState(ts, P, n0, Len(call.params), "params", callee, params)
    BY <1>1, <1>2, <2>1, <2>2, <2>3, Given
  <2>5. Passed(ts, P, n0, pushed, regs, xmm)
    BY <1>1, <2>4 DEF CallerState
  <2>6. callee \in CalleeSet /\ params \in Seq(Seq(WordSet))
    BY <2>4 DEF CalleeState
  <2>7. call \in Call
    BY CallAssumption DEF IInv
  <2>8. PICK m \in Nat, n \in Nat, N \in Nat :
           m = Len(params) /\ n = Len(call.params) /\ N = Len(ts) /\ m < n /\ 1 - n0 + n <= N
    <3>1. PICK m \in Nat, n \in Nat, o \in Nat : m = Len(params) /\ n = Len(call.params) /\ o = Len(call.more)
      BY <2>6, <2>7 DEF Call
    <3>2. PICK N \in Nat : N = Len(ts)
      BY <2>4 DEF Situation
    <3>3. N = 1 - n0 + n + o
      BY <2>1, <2>3, <2>7, <3>1, <3>2, ArgTypesAre
    <3>4. 1 - n0 + n <= N /\ m < n
      <4>1. n0 \in {0, 1}
        BY <2>4
      <4>2. 1 - n0 + n <= N
        <5>1. \A b \in {0, 1}, u \in Nat, v \in Nat, w \in Nat : w = 1 - b + u + v => 1 - b + u <= w
          OBVIOUS
        <5>2. n \in Nat /\ o \in Nat /\ N \in Nat
          BY <3>1, <3>2
        <5> QED
          BY <3>3, <4>1, <5>1, <5>2
      <4> QED
        BY <1>1, <3>1, <4>2
    <3> QED
      BY <3>1, <3>2, <3>4
  <2>9. PICK a \in 1 .. Len(ts) : a = 1 - n0 + m + 1 /\ a - 1 = 1 - n0 + m
    <3>1. n0 \in {0, 1}
      BY <2>4
    <3>2. PICK a \in Int : a = 1 - n0 + m + 1
      BY <3>1
    <3>3. a \in 1 .. N /\ a - 1 = 1 - n0 + m
      BY <2>8, <3>1, <3>2
    <3> QED
      BY <2>8, <3>2, <3>3
  <2>10. ts[a] = call.params[m + 1]
    <3>1. m + 1 \in 1 .. n
      BY <2>8
    <3>2. ts[1 - n0 + (m + 1)] = call.params[m + 1]
      BY <2>1, <2>3, <2>7, <2>8, <3>1, ArgTypesAre
    <3>3. 1 - n0 + (m + 1) = a
      BY <2>4, <2>9
    <3> QED
      BY <3>2, <3>3
  <2> DEFINE t == ts[a]
             c == RegCount(t)
             r == callee.reg_param_index
             s == callee.sse_param_index
             addr == UpTo(callee.addr, TypeAlign(t))
             Stacked(next) == /\ params' = Append(params, StackWords(addr, TypeSize(t)))
                              /\ callee' = [next EXCEPT !.addr = addr + TypeSize(t)]
  <2>12. CounterState(P, a - 1, callee)
    <3>1. CounterState(P, 1 - n0 + Len(params), callee)
      BY <2>4 DEF CalleeState
    <3> QED
      BY <2>8, <2>9, <3>1
  <2>13. r = P[a - 1].int /\ s = P[a - 1].sse /\ callee.addr = P[a - 1].end
    BY <2>12 DEF CounterState
  <2>14. r \in Nat /\ s \in Nat /\ callee.addr \in Nat /\ c \in Nat
    <3>1. c \in {1, 2}
      BY <2>4, TypeFacts
    <3>2. c \in Nat
      BY <3>1
    <3>3. r \in Nat /\ s \in Nat /\ callee.addr \in Nat
      <4>1. callee \in CalleeSet
        BY <2>6
      <4> HIDE DEF t, c, addr, Stacked
      <4> QED
        BY <4>1 DEF CalleeSet
    <3> QED
      BY <3>2, <3>3
  <2>15. PICK x \in Nat, y \in Nat : x = r + c /\ y = s + c
    BY <2>14, SMTT(30)
  <2>16. (x > REGN <=> ~ (x <= REGN)) /\ (y > SSEN <=> ~ (y <= SSEN))
    <3>1. PICK g \in Nat, f \in Nat : g = REGN /\ f = SSEN
      BY CallAssumption
    <3> QED
      BY <3>1
  <2>11. /\ Mode(t) = "integer" /\ r + c <= REGN =>
               /\ params' = Append(params, [k \in 1 .. c |-> regs[arg_regs(r + k - 1)]])
               /\ callee' = [callee EXCEPT !.reg_param_index = r + c]
         /\ Mode(t) = "integer" /\ ~ (r + c <= REGN) => Stacked([callee EXCEPT !.reg_param_index = r + c])
         /\ Mode(t) = "sse" /\ s + c <= SSEN =>
               /\ params' = Append(params, [k \in 1 .. c |-> xmm[s + k - 1]])
               /\ callee' = [callee EXCEPT !.sse_param_index = s + c]
         /\ Mode(t) = "sse" /\ ~ (s + c <= SSEN) => Stacked([callee EXCEPT !.sse_param_index = s + c])
         /\ Mode(t) \notin {"integer", "sse"} => Stacked(callee)
    <3>1. PICK u : u = call.params[m + 1] /\ u = t
      BY <2>10
    <3>2. m + 1 = Len(params) + 1
      BY <2>8
    <3> QED
      BY <2>15, <2>16, <3>1, <3>2 DEF DefineParam, Skipped
  <2>17. StackWords(addr, TypeSize(t)) = WordsAt(pushed, addr, TypeSize(t))
    BY DEF StackWords, WordsAt
  <2> DEFINE Ok(q, new) == /\ params' = Append(params, q) /\ callee' = new /\ new \in CalleeSet
                           /\ Begins(ts, n0, a, q) /\ new.func_vc = callee.func_vc
                           /\ CounterState(P, a, new)
  <2>18. ASSUME ~ In(ts, P, a), NEW next \in CalleeSet, Stacked(next), next.reg_param_index = P[a].int,
                next.sse_param_index = P[a].sse, next.func_vc = callee.func_vc
         PROVE  \E q, new : Ok(q, new)
    <3>1. PICK new : new = [next EXCEPT !.addr = addr + TypeSize(t)]
      OBVIOUS
    <3>2. PICK q : q = WordsAt(pushed, addr, TypeSize(t))
      OBVIOUS
    <3>3. /\ new \in CalleeSet /\ new.func_vc = callee.func_vc /\ CounterState(P, a, new)
          /\ Begins(ts, n0, a, q)
      <4>1. /\ Situation(ts, P) /\ n0 \in Nat /\ Passed(ts, P, n0, pushed, regs, xmm) /\ ~ In(ts, P, a)
            /\ callee \in CalleeSet /\ CounterState(P, a - 1, callee)
        BY <2>4, <2>5, <2>6, <2>12, <2>18
      <4>2. /\ new \in CalleeSet /\ new.func_vc = callee.func_vc /\ CounterState(P, a, new)
            /\ Begins(ts, n0, a, WordsAt(pushed, addr, TypeSize(t)))
        BY <2>18, <3>1, <4>1, StackedIs, SMTT(30)
      <4> QED
        BY <3>2, <4>2
    <3>4. params' = Append(params, q) /\ callee' = new
      BY <2>17, <2>18, <3>1, <3>2
    <3>5. Ok(q, new)
      BY <3>3, <3>4
    <3> QED
      BY <3>5
  <2>19. \E q, new : Ok(q, new)
    <3>1. CASE Mode(t) = "integer" /\ x <= REGN
      <4>1. PICK new : new = [callee EXCEPT !.reg_param_index = x]
        OBVIOUS
      <4>2. PICK q : q = [k \in 1 .. c |-> regs[arg_regs(r + k - 1)]]
        OBVIOUS
      <4>3. params' = Append(params, q) /\ callee' = new
        BY <2>11, <2>15, <3>1, <4>1, <4>2
      <4>4. /\ In(ts, P, a) /\ P[a].int = x /\ P[a].sse = P[a - 1].sse /\ P[a].end = P[a - 1].end
        BY <2>4, <2>13, <2>15, <3>1, NextMarks
      <4>5. Begins(ts, n0, a, q)
        BY <2>4, <2>5, <2>13, <3>1, <4>2, <4>4, FromIntegers
      <4>6. /\ new \in CalleeSet /\ new.reg_param_index = x /\ new.sse_param_index = callee.sse_param_index
            /\ new.addr = callee.addr /\ new.func_vc = callee.func_vc
        BY <2>6, <4>1, CounterSet
      <4>7. CounterState(P, a, new)
        BY <2>13, <4>4, <4>6 DEF CounterState
      <4>8. Ok(q, new)
        BY <4>3, <4>5, <4>6, <4>7
      <4> QED
        BY <4>8
    <3>2. CASE Mode(t) = "integer" /\ ~ (x <= REGN)
      <4>1. PICK next : next = [callee EXCEPT !.reg_param_index = x]
        OBVIOUS
      <4>2. Stacked(next)
        <5>1. ~ (r + c <= REGN) /\ r + c > REGN
          BY <2>15, <2>16, <3>2
        <5> QED
          BY <2>11, <2>15, <3>2, <4>1, <5>1
      <4>3. ~ In(ts, P, a) /\ P[a].int = x /\ P[a].sse = P[a - 1].sse
        BY <2>4, <2>13, <2>15, <3>2, NextMarks
      <4>4. /\ next \in CalleeSet /\ next.reg_param_index = x
            /\ next.sse_param_index = callee.sse_param_index /\ next.func_vc = callee.func_vc
        BY <2>6, <4>1, CounterSet
      <4> QED
        BY <2>13, <2>18, <4>2, <4>3, <4>4
    <3>3. CASE Mode(t) = "sse" /\ y <= SSEN
      <4>1. PICK new : new = [callee EXCEPT !.sse_param_index = y]
        OBVIOUS
      <4>2. PICK q : q = [k \in 1 .. c |-> xmm[s + k - 1]]
        OBVIOUS
      <4>3. params' = Append(params, q) /\ callee' = new
        BY <2>11, <2>15, <3>3, <4>1, <4>2
      <4>4. /\ In(ts, P, a) /\ P[a].sse = y /\ P[a].int = P[a - 1].int /\ P[a].end = P[a - 1].end
        BY <2>4, <2>13, <2>15, <3>3, NextMarks
      <4>5. Begins(ts, n0, a, q)
        BY <2>4, <2>5, <2>13, <3>3, <4>2, <4>4, FromFloats
      <4>6. /\ new \in CalleeSet /\ new.sse_param_index = y /\ new.reg_param_index = callee.reg_param_index
            /\ new.addr = callee.addr /\ new.func_vc = callee.func_vc
        BY <2>6, <4>1, CounterSet
      <4>7. CounterState(P, a, new)
        BY <2>13, <4>4, <4>6 DEF CounterState
      <4>8. Ok(q, new)
        BY <4>3, <4>5, <4>6, <4>7
      <4> QED
        BY <4>8
    <3>4. CASE Mode(t) = "sse" /\ ~ (y <= SSEN)
      <4>1. PICK next : next = [callee EXCEPT !.sse_param_index = y]
        OBVIOUS
      <4>2. Stacked(next)
        <5>1. ~ (s + c <= SSEN) /\ s + c > SSEN
          BY <2>15, <2>16, <3>4
        <5> QED
          BY <2>11, <2>15, <3>4, <4>1, <5>1
      <4>3. ~ In(ts, P, a) /\ P[a].sse = y /\ P[a].int = P[a - 1].int
        BY <2>4, <2>13, <2>15, <3>4, NextMarks
      <4>4. /\ next \in CalleeSet /\ next.sse_param_index = y
            /\ next.reg_param_index = callee.reg_param_index /\ next.func_vc = callee.func_vc
        BY <2>6, <4>1, CounterSet
      <4> QED
        BY <2>13, <2>18, <4>2, <4>3, <4>4
    <3>5. CASE Mode(t) \notin {"integer", "sse"}
      <4>1. Stacked(callee)
        BY <2>11, <3>5
      <4>2. ~ In(ts, P, a) /\ P[a].int = P[a - 1].int /\ P[a].sse = P[a - 1].sse
        BY <2>4, <3>5, NextMarks
      <4> QED
        BY <2>6, <2>13, <2>18, <4>1, <4>2
    <3> QED
      BY <3>1, <3>2, <3>3, <3>4, <3>5
  <2> HIDE DEF Stacked
  <2>20. PICK q, new : Ok(q, new)
    BY <2>19
  <2>21. CalleeState(ts, P, n0, n, "params", new, Append(params, q))
    <3>1. CalleeState(ts, P, n0, n, "params", callee, params) /\ Len(params) < n
      BY <2>4, <2>8
    <3>2. a = 1 - n0 + Len(params) + 1
      BY <2>8, <2>9
    <3> QED
      BY <2>4, <2>20, <3>1, <3>2, Defined
  <2>22. CalleeState(ts, P, n0, n, at', callee', params')
    BY <1>1, <2>20, <2>21
  <2> QED
    BY <2>1, <2>2, <2>3, <2>8, <2>22
<1> QED
  BY <1>1, <1>2, CalleeStep

LEMMA VaStep == IInv /\ VaArg => IInv'
<1> SUFFICES ASSUME IInv, VaArg PROVE IInv'
  OBVIOUS
<1>1. at = "params" /\ UNCHANGED <<at, callee, params>> /\ CallerDone
  BY DEF VaArg
<1>2. Good => CalleeState(ArgTypes(call), Plan(ArgTypes(call)), FirstArg(call), Len(call.params),
                          at', callee', params')
  BY <1>1 DEF IInv
<1> QED
  BY <1>1, <1>2, CalleeStep

LEMMA Stutter == IInv /\ UNCHANGED vars => IInv'
<1> SUFFICES ASSUME IInv, UNCHANGED vars PROVE IInv'
  OBVIOUS
<1>1. UNCHANGED <<call, at, args, run_start, run_end, arg, gen_reg, sse_reg, pushed, regs, xmm, callee, params>>
  BY DEF vars
<1>2. Good' <=> Good
  BY <1>1 DEF Good
<1> QED
  BY <1>1, <1>2 DEF IInv

LEMMA Inductive == IInv /\ [Next]_vars => IInv'
<1>1. Returned => UNCHANGED vars
  BY DEF Returned
<1> QED
  BY <1>1, CountStep, MeasureStep, StoreStep, AlignedStep, EndStep, PrepareStep, FloatStep, IntegerStep,
     DoCallStep, PrologStep, DefineStep, VaStep, Stutter DEF Next

LEMMA ParamsFollow == IInv => ParamsExact
<1> SUFFICES ASSUME IInv, Good PROVE ParamsExact
  BY DEF ParamsExact, Good
<1>1. PICK ts : ts = ArgTypes(call)
  OBVIOUS
<1>2. PICK P : P = Plan(ts)
  OBVIOUS
<1>3. PICK n0 : n0 = FirstArg(call)
  OBVIOUS
<1>4. /\ Situation(ts, P) /\ n0 \in Nat /\ n0 \in {0, 1}
      /\ CallerState(ts, P, n0, at, args, run_start, run_end, arg, gen_reg, sse_reg, pushed, regs, xmm)
      /\ CalleeState(ts, P, n0, Len(call.params), at, callee, params)
  BY <1>1, <1>2, <1>3, Given
<1>5. call \in Call
  BY CallAssumption DEF IInv
<1>6. at # "failed"
  BY <1>4 DEF CallerState
<1>7. ASSUME at \in {"prolog", "params"} PROVE Len(pushed) % 2 = 0
  <2>1. Laid(ts, P, n0, pushed, 0, 0)
    BY <1>4, <1>7 DEF CallerState, Passed
  <2>2. PICK z \in Nat : z = StackSize(ts, P) /\ z % 2 = 0
    BY <1>4, StackSizeIs
  <2>3. Len(pushed) = z
    BY <2>1, <2>2 DEF Laid
  <2> QED
    BY <2>2, <2>3
<1>8. ASSUME at = "params", ReturnsInMemory(call) PROVE callee.func_vc = <<0, 1>>
  <2>1. n0 = 0
    BY <1>3, <1>5, <1>8, ArgTypesAre
  <2> QED
    BY <1>4, <1>8, <2>1 DEF CalleeState
<1>9. ASSUME NEW k \in DOMAIN params PROVE IsPrefix(Words(k, call.params[k]), params[k])
  <2>1. params \in Seq(Seq(WordSet)) /\ (at # "params" => params = <<>>)
    BY <1>4 DEF CalleeState
  <2>2. PICK m \in Nat : m = Len(params) /\ DOMAIN params = 1 .. m
    BY <2>1
  <2>3. at = "params"
    <3>1. SUFFICES ASSUME at # "params" PROVE FALSE
      OBVIOUS
    <3>2. params = <<>>
      BY <2>1, <3>1
    <3> QED
      BY <1>9, <3>2
  <2>4. k \in 1 .. m /\ k \in 1 .. Len(params)
    BY <1>9, <2>2
  <2>5. Begins(ts, n0, 1 - n0 + k, params[k]) /\ Len(params) <= Len(call.params)
    BY <1>4, <2>3, <2>4 DEF CalleeState
  <2>6. k \in 1 .. Len(call.params)
    <3>1. PICK n \in Nat : n = Len(call.params)
      BY <1>5 DEF Call
    <3> QED
      BY <2>2, <2>4, <2>5, <3>1
  <2>7. ts[1 - n0 + k] = call.params[k]
    BY <1>1, <1>3, <1>5, <2>6, ArgTypesAre
  <2>8. n0 + (1 - n0 + k) - 1 = k
    BY <1>4, <2>4
  <2> QED
    BY <2>5, <2>7, <2>8 DEF Begins
<1> QED
  BY <1>6, <1>7, <1>8, <1>9 DEF ParamsExact

\* For every number of registers, and for every call but those with a pair of floats
\* that is overwritten or a union that is an integer to classify_x86_64_arg: no
\* assertion of gfunc_call fails, the stack is aligned at the call, and every
\* parameter has the words of its argument where gfunc_prolog looks for it.
THEOREM TheParamsExact == Spec => []ParamsExact
<1>1. Init => IInv
  BY Start0
<1>2. IInv /\ [Next]_vars => IInv'
  BY Inductive
<1>3. IInv => ParamsExact
  BY ParamsFollow
<1> QED
  BY <1>1, <1>2, <1>3, PTL DEF Spec

-----------------------------------------------------------------------------
(* Where va_arg goes on                                                    *)

Smaller(x, y) == IF x < y THEN x ELSE y

VaSet == [gp : Nat, fp : Nat, overflow : Nat]

\* The va_list is at the end of the d-th argument.
VaCounters(P, d, v) == /\ v \in VaSet /\ v.gp = Smaller(P[d].int, REGN) /\ v.fp = Smaller(P[d].sse, SSEN)
                       /\ v.overflow = P[d].end

LEMMA VaSetIs ==
    ASSUME NEW v \in VaSet, NEW n \in Nat
    PROVE  /\ v.gp \in Nat /\ v.fp \in Nat /\ v.overflow \in Nat
           /\ [v EXCEPT !.gp = n] \in VaSet /\ [v EXCEPT !.gp = n].gp = n
           /\ [v EXCEPT !.gp = n].fp = v.fp /\ [v EXCEPT !.gp = n].overflow = v.overflow
           /\ [v EXCEPT !.fp = n] \in VaSet /\ [v EXCEPT !.fp = n].fp = n
           /\ [v EXCEPT !.fp = n].gp = v.gp /\ [v EXCEPT !.fp = n].overflow = v.overflow
           /\ [v EXCEPT !.overflow = n] \in VaSet /\ [v EXCEPT !.overflow = n].overflow = n
           /\ [v EXCEPT !.overflow = n].gp = v.gp /\ [v EXCEPT !.overflow = n].fp = v.fp
BY DEF VaSet

LEMMA SeenIs ==
    ASSUME NEW v \in VaSet, NEW t, TypeGood(t)
    PROVE  LET e == UpTo(v.overflow, TypeAlign(t)) + TypeSize(t)
           IN  /\ e \in Nat
               /\ Mode(t) = "integer" /\ v.gp + RegCount(t) <= SeenRegs =>
                     Seen(v, t) = [v EXCEPT !.gp = v.gp + RegCount(t)]
               /\ Mode(t) = "integer" /\ ~ (v.gp + RegCount(t) <= SeenRegs) =>
                     Seen(v, t) = [[v EXCEPT !.gp = SeenRegs] EXCEPT !.overflow = e]
               /\ Mode(t) = "sse" /\ v.fp + RegCount(t) <= SSEN =>
                     Seen(v, t) = [v EXCEPT !.fp = v.fp + RegCount(t)]
               /\ Mode(t) = "sse" /\ ~ (v.fp + RegCount(t) <= SSEN) =>
                     Seen(v, t) = [[v EXCEPT !.fp = SSEN] EXCEPT !.overflow = e]
               /\ Mode(t) \notin {"integer", "sse"} => Seen(v, t) = [v EXCEPT !.overflow = e]
<1>1. SeenRegs \in Nat /\ SSEN \in Nat
  BY CallAssumption
<1>2. v.overflow \in Nat /\ v.gp \in Nat /\ v.fp \in Nat
  BY <1>1, VaSetIs
<1>3. UpTo(v.overflow, TypeAlign(t)) + TypeSize(t) \in Nat
  <2>1. UpTo(v.overflow, TypeAlign(t)) \in Nat
    BY <1>2, UpToIs DEF TypeGood
  <2> QED
    BY <2>1 DEF TypeGood
<1>4. PICK w : w = [v EXCEPT !.gp = SeenRegs]
  OBVIOUS
<1>5. PICK x : x = [v EXCEPT !.fp = SSEN]
  OBVIOUS
<1>6. w.overflow = v.overflow /\ x.overflow = v.overflow
  BY <1>1, <1>4, <1>5, VaSetIs
<1>7. PICK a, s : a = TypeAlign(t) /\ s = TypeSize(t)
  OBVIOUS
<1>8. /\ Mode(t) = "integer" /\ v.gp + RegCount(t) <= SeenRegs =>
            Seen(v, t) = [v EXCEPT !.gp = v.gp + RegCount(t)]
      /\ Mode(t) = "sse" /\ v.fp + RegCount(t) <= SSEN =>
            Seen(v, t) = [v EXCEPT !.fp = v.fp + RegCount(t)]
  BY DEF Seen
<1>9. Mode(t) = "integer" /\ ~ (v.gp + RegCount(t) <= SeenRegs) =>
            Seen(v, t) = [w EXCEPT !.overflow = UpTo(w.overflow, a) + s]
  BY <1>4, <1>7 DEF Seen
<1>10. Mode(t) = "sse" /\ ~ (v.fp + RegCount(t) <= SSEN) =>
            Seen(v, t) = [x EXCEPT !.overflow = UpTo(x.overflow, a) + s]
  BY <1>5, <1>7 DEF Seen
<1>11. Mode(t) \notin {"integer", "sse"} => Seen(v, t) = [v EXCEPT !.overflow = UpTo(v.overflow, a) + s]
  BY <1>7 DEF Seen
<1> QED
  BY <1>3, <1>4, <1>5, <1>6, <1>7, <1>8, <1>9, <1>10, <1>11

LEMMA SeenSet ==
    ASSUME NEW v \in VaSet, NEW t, TypeGood(t)
    PROVE  Seen(v, t) \in VaSet
<1>1. PICK e \in Nat : e = UpTo(v.overflow, TypeAlign(t)) + TypeSize(t)
  BY SeenIs
<1>2. PICK c \in Nat : c = RegCount(t)
  BY DEF TypeGood
<1>3. SeenRegs \in Nat /\ SSEN \in Nat
  BY CallAssumption
<1>4. v.gp + c \in Nat /\ v.fp + c \in Nat
  <2>1. v.gp \in Nat /\ v.fp \in Nat
    BY DEF VaSet
  <2> QED
    BY <2>1
<1>5. /\ [v EXCEPT !.gp = v.gp + c] \in VaSet /\ [v EXCEPT !.fp = v.fp + c] \in VaSet
      /\ [v EXCEPT !.gp = SeenRegs] \in VaSet /\ [v EXCEPT !.fp = SSEN] \in VaSet
      /\ [v EXCEPT !.overflow = e] \in VaSet
  BY <1>3, <1>4, VaSetIs
<1>6. /\ [[v EXCEPT !.gp = SeenRegs] EXCEPT !.overflow = e] \in VaSet
      /\ [[v EXCEPT !.fp = SSEN] EXCEPT !.overflow = e] \in VaSet
  BY <1>5, VaSetIs
<1> QED
  BY <1>1, <1>2, <1>5, <1>6, SeenIs

\* What the prologue counts, when the registers for integers suffice.
LEMMA SeenMarks ==
    ASSUME NEW ts, NEW P, Situation(ts, P), NEW a \in 1 .. Len(ts), NEW v, VaCounters(P, a - 1, v),
           P[a].int <= REGN
    PROVE  VaCounters(P, a, Seen(v, ts[a]))
<1>1. PICK t : t = ts[a]
  OBVIOUS
<1>2. TypeGood(t)
  BY <1>1 DEF Situation
<1>3. v \in VaSet /\ v.gp = Smaller(P[a - 1].int, REGN) /\ v.fp = Smaller(P[a - 1].sse, SSEN)
      /\ v.overflow = P[a - 1].end
  BY DEF VaCounters
<1>4. PICK i \in Nat, s \in Nat, j \in Nat, u \in Nat, c \in Nat, g \in Nat, f \in Nat, r \in Nat :
         /\ i = P[a - 1].int /\ s = P[a - 1].sse /\ j = P[a].int /\ u = P[a].sse /\ c = RegCount(t)
         /\ g = REGN /\ f = SSEN /\ r = SeenRegs /\ g <= r /\ c >= 1
  <2>1. a - 1 \in 0 .. Len(ts) /\ a \in 0 .. Len(ts)
    BY DEF Situation
  <2>2. PICK i \in Nat, s \in Nat, j \in Nat, u \in Nat :
           i = P[a - 1].int /\ s = P[a - 1].sse /\ j = P[a].int /\ u = P[a].sse
    BY <2>1, MarksAre
  <2>3. PICK c \in Nat : c = RegCount(t) /\ c >= 1
    BY <1>2 DEF TypeGood
  <2>4. PICK g \in Nat, f \in Nat, r \in Nat : g = REGN /\ f = SSEN /\ r = SeenRegs /\ g <= r
    BY CallAssumption
  <2> QED
    BY <2>2, <2>3, <2>4
<1>5. j <= g
  BY <1>4
<1>6. PICK e \in Nat : e = UpTo(v.overflow, TypeAlign(t)) + TypeSize(t)
  BY <1>2, <1>3, SeenIs
<1>7. PICK w : w = Seen(v, t)
  OBVIOUS
<1>8. In(ts, P, a) => P[a].end = P[a - 1].end
  BY NextMarks
<1>9. ~ In(ts, P, a) => P[a].end = e
  BY <1>1, <1>3, <1>6, NextMarks
<1>10. CASE Mode(t) = "integer"
  <2>1. j = i + c /\ u = s /\ (In(ts, P, a) <=> i + c <= g)
    BY <1>1, <1>4, <1>10, NextMarks
  <2>2. In(ts, P, a) /\ i <= g /\ i + c <= r
    BY <1>4, <1>5, <2>1, SMTT(30)
  <2>3. v.gp = i
    <3>1. Smaller(i, g) = i
      BY <2>2 DEF Smaller
    <3> QED
      BY <1>3, <1>4, <3>1
  <2>4. w = [v EXCEPT !.gp = j]
    <3>1. v.gp + RegCount(t) = j /\ v.gp + RegCount(t) <= SeenRegs
      BY <1>4, <2>1, <2>2, <2>3
    <3>2. w = [v EXCEPT !.gp = v.gp + RegCount(t)]
      BY <1>2, <1>3, <1>7, <1>10, <3>1, SeenIs
    <3> QED
      BY <3>1, <3>2
  <2>5. w \in VaSet /\ w.gp = j /\ w.fp = v.fp /\ w.overflow = v.overflow
    BY <1>3, <2>4, VaSetIs
  <2>6. Smaller(j, g) = j
    BY <1>5 DEF Smaller
  <2> QED
    BY <1>1, <1>3, <1>4, <1>7, <1>8, <2>1, <2>2, <2>5, <2>6 DEF VaCounters
<1>11. CASE Mode(t) = "sse"
  <2>1. u = s + c /\ j = i /\ (In(ts, P, a) <=> s + c <= f)
    BY <1>1, <1>4, <1>11, NextMarks
  <2>2. PICK x \in Nat : x = Smaller(s, f) /\ x = v.fp
    BY <1>3, <1>4 DEF Smaller
  <2>3. CASE s + c <= f
    <3>1. x = s /\ x + c <= f /\ Smaller(u, f) = u
      <4>1. c >= 1
        BY <1>4
      <4>2. s < f /\ u <= f
        BY <2>1, <2>3, <4>1
      <4>3. Smaller(s, f) = s /\ Smaller(u, f) = u
        BY <4>2 DEF Smaller
      <4>4. x = s
        BY <2>2, <4>3
      <4> QED
        BY <2>3, <4>3, <4>4
    <3>2. w = [v EXCEPT !.fp = u]
      <4>1. v.fp + RegCount(t) = u /\ v.fp + RegCount(t) <= SSEN
        BY <1>4, <2>1, <2>2, <3>1
      <4>2. w = [v EXCEPT !.fp = v.fp + RegCount(t)]
        BY <1>2, <1>3, <1>7, <1>11, <4>1, SeenIs
      <4> QED
        BY <4>1, <4>2
    <3>3. w \in VaSet /\ w.fp = u /\ w.gp = v.gp /\ w.overflow = v.overflow
      BY <1>3, <3>2, VaSetIs
    <3> QED
      BY <1>1, <1>3, <1>4, <1>7, <1>8, <2>1, <2>3, <3>1, <3>3 DEF VaCounters
  <2>4. CASE ~ (s + c <= f)
    <3>1. ~ (x + c <= f) /\ Smaller(u, f) = f
      BY <1>4, <2>1, <2>2, <2>4 DEF Smaller
    <3>2. w = [[v EXCEPT !.fp = f] EXCEPT !.overflow = e]
      BY <1>2, <1>3, <1>4, <1>6, <1>7, <1>11, <2>2, <3>1, SeenIs
    <3>3. w \in VaSet /\ w.fp = f /\ w.gp = v.gp /\ w.overflow = e
      <4>1. PICK y : y = [v EXCEPT !.fp = f]
        OBVIOUS
      <4>2. y \in VaSet /\ y.fp = f /\ y.gp = v.gp
        BY <1>3, <4>1, VaSetIs
      <4>3. w = [y EXCEPT !.overflow = e]
        BY <3>2, <4>1
      <4>4. /\ [y EXCEPT !.overflow = e] \in VaSet /\ [y EXCEPT !.overflow = e].overflow = e
            /\ [y EXCEPT !.overflow = e].fp = y.fp /\ [y EXCEPT !.overflow = e].gp = y.gp
        BY <4>2 DEF VaSet
      <4> QED
        BY <4>2, <4>3, <4>4
    <3> QED
      BY <1>1, <1>3, <1>4, <1>7, <1>9, <2>1, <2>4, <3>1, <3>3 DEF VaCounters
  <2> QED
    BY <2>3, <2>4
<1>12. CASE Mode(t) \notin {"integer", "sse"}
  <2>1. j = i /\ u = s /\ ~ In(ts, P, a)
    BY <1>1, <1>4, <1>12, NextMarks
  <2>2. w = [v EXCEPT !.overflow = e]
    BY <1>2, <1>3, <1>6, <1>7, <1>12, SeenIs
  <2>3. w \in VaSet /\ w.fp = v.fp /\ w.gp = v.gp /\ w.overflow = e
    BY <1>3, <2>2, VaSetIs
  <2> QED
    BY <1>1, <1>3, <1>4, <1>7, <1>9, <2>1, <2>3 DEF VaCounters
<1> QED
  BY <1>10, <1>11, <1>12

\* The prologue of a variadic function counts its named parameters.
LEMMA AllSeen ==
    ASSUME NEW ts, NEW P, Situation(ts, P), NEW n \in 0 .. Len(ts), NEW ps \in [1 .. n -> CTypes],
           \A k \in 1 .. n : ps[k] = ts[k], P[n].int <= REGN
    PROVE  VaCounters(P, n, SeenAll(ps))
<1> DEFINE Is(U) == U = [k \in 0 .. Len(ps) |-> IF k = 0 THEN [gp |-> 0, fp |-> 0, overflow |-> 0]
                                                ELSE Seen(U[k - 1], ps[k])]
<1>1. PICK N \in Nat : N = Len(ts) /\ n \in Nat /\ n <= N
  BY DEF Situation
<1>2. Len(ps) = n
  BY <1>1
<1>3. PICK b : b = [gp |-> 0, fp |-> 0, overflow |-> 0]
  OBVIOUS
<1>4. b \in VaSet /\ b.gp = 0 /\ b.fp = 0 /\ b.overflow = 0
  BY <1>3 DEF VaSet
<1>5. ASSUME NEW k \in 1 .. n PROVE TypeGood(ps[k])
  BY <1>5, TypesAreGood
<1>6. PICK g : g = [k \in 1 .. n |-> [x \in VaSet |-> Seen(x, ps[k])]]
  OBVIOUS
<1>7. \A k \in 1 .. n : \A x \in VaSet : Seen(x, ps[k]) \in VaSet
  BY <1>5, SeenSet
<1>8. g \in [1 .. n -> [VaSet -> VaSet]]
  BY <1>6, <1>7
<1>9. PICK F : MadeBy(F, VaSet, b, n, g)
  BY <1>1, <1>4, <1>8, FoldExists
<1>10. F \in [0 .. n -> VaSet] /\ F[0] = b /\ \A k \in 1 .. n : F[k] = g[k][F[k - 1]]
  BY <1>9 DEF MadeBy
<1>11. ASSUME NEW k \in 0 .. n, k # 0 PROVE F[k] = Seen(F[k - 1], ps[k])
  <2>1. k \in 1 .. n /\ k - 1 \in 0 .. n
    BY <1>1, <1>11
  <2>2. F[k - 1] \in VaSet
    BY <1>10, <2>1
  <2> QED
    BY <1>6, <1>10, <2>1, <2>2
<1>12. Is(F)
  <2>1. F = [k \in 0 .. n |-> F[k]]
    BY <1>10
  <2>2. \A k \in 0 .. n : F[k] = IF k = 0 THEN b ELSE Seen(F[k - 1], ps[k])
    BY <1>10, <1>11
  <2> QED
    BY <1>2, <1>3, <2>1, <2>2
<1>13. PICK T : T = CHOOSE U : Is(U)
  OBVIOUS
<1>14. Is(T)
  BY <1>12, <1>13
<1>15. SeenAll(ps) = T[n]
  BY <1>2, <1>13 DEF SeenAll
<1>16. T[0] = b /\ \A k \in 1 .. n : T[k] = Seen(T[k - 1], ps[k])
  BY <1>1, <1>2, <1>3, <1>14
<1> HIDE DEF Is
<1>17. PICK A : A = {k \in 0 .. n : VaCounters(P, k, T[k])}
  OBVIOUS
<1>18. 0 \in A
  <2>1. P[0].int = 0 /\ P[0].sse = 0 /\ P[0].end = 0
    BY NoMarkIs
  <2>2. Smaller(0, REGN) = 0 /\ Smaller(0, SSEN) = 0
    BY CallAssumption DEF Smaller
  <2>3. VaCounters(P, 0, T[0])
    BY <1>4, <1>16, <2>1, <2>2 DEF VaCounters
  <2> QED
    BY <1>1, <1>17, <2>3
<1>19. ASSUME NEW k \in 0 + 1 .. n, k - 1 \in A PROVE k \in A
  <2>1. k \in 1 .. n /\ k \in 1 .. Len(ts) /\ k \in 0 .. n /\ k \in 0 .. Len(ts) /\ n \in k .. Len(ts)
    BY <1>1
  <2>2. VaCounters(P, k - 1, T[k - 1])
    BY <1>17, <1>19
  <2>3. P[k].int <= REGN
    <3>1. P[k].int <= P[n].int
      BY <2>1, Growing
    <3>2. PICK x \in Nat, y \in Nat, z \in Nat : x = P[k].int /\ y = P[n].int /\ z = REGN
      BY <2>1, CallAssumption, MarksAre
    <3> QED
      BY <3>1, <3>2
  <2>4. VaCounters(P, k, Seen(T[k - 1], ts[k]))
    BY <2>1, <2>2, <2>3, SeenMarks
  <2> QED
    BY <1>16, <1>17, <2>1, <2>4
<1>20. n \in A
  <2>1. \A k \in 0 .. n : k \in A
    BY <1>1, <1>18, <1>19, Upwards
  <2> QED
    BY <1>1, <2>1
<1> QED
  BY <1>15, <1>17, <1>20

\* What is read from registers is there, and the counters go on.
LEMMA VaInteger ==
    ASSUME NEW ts, NEW P, Situation(ts, P), NEW ps, NEW rs, NEW xs, Passed(ts, P, 1, ps, rs, xs),
           NEW a \in 1 .. Len(ts), NEW v, VaCounters(P, a - 1, v), Mode(ts[a]) = "integer", TypeSize(ts[a]) = 1
    PROVE  /\ v.gp < REGN =>
                 VaCounters(P, a, [v EXCEPT !.gp = v.gp + 1]) /\ rs[arg_regs(v.gp)] = <<a, 1>>
           /\ ~ (v.gp < REGN) => ~ In(ts, P, a) /\ VaCounters(P, a, [v EXCEPT !.overflow = P[a].end])
<1>1. /\ v \in VaSet /\ v.gp = Smaller(P[a - 1].int, REGN) /\ v.fp = Smaller(P[a - 1].sse, SSEN)
      /\ v.overflow = P[a - 1].end
  BY DEF VaCounters
<1>2. PICK i \in Nat, j \in Nat, g \in Nat, e \in Nat :
         i = P[a - 1].int /\ j = P[a].int /\ g = REGN /\ e = P[a].end /\ g <= 6
  <2>1. a - 1 \in 0 .. Len(ts) /\ a \in 0 .. Len(ts)
    BY DEF Situation
  <2>2. PICK i \in Nat, j \in Nat, e \in Nat : i = P[a - 1].int /\ j = P[a].int /\ e = P[a].end
    BY <2>1, MarksAre
  <2>3. PICK g \in Nat : g = REGN /\ g <= 6
    BY CallAssumption
  <2> QED
    BY <2>2, <2>3
<1>3. RegCount(ts[a]) = 1
  BY TypeFacts
<1>4. j = i + 1 /\ P[a].sse = P[a - 1].sse /\ (In(ts, P, a) <=> i + 1 <= g)
  BY <1>2, <1>3, NextMarks
<1>5. PICK x \in Nat : x = v.gp /\ x = Smaller(i, g)
  BY <1>1, <1>2 DEF Smaller
<1>6. CASE x < g
  <2>1. i = x /\ i + 1 <= g /\ Smaller(j, g) = x + 1
    BY <1>2, <1>4, <1>5, <1>6, SMTT(30) DEF Smaller
  <2>2. In(ts, P, a) /\ P[a].end = P[a - 1].end
    BY <1>4, <2>1, NextMarks
  <2>3. PICK w : w = [v EXCEPT !.gp = v.gp + 1]
    OBVIOUS
  <2>4. x + 1 \in Nat
    OBVIOUS
  <2>5. w = [v EXCEPT !.gp = x + 1]
    BY <1>5, <2>3
  <2>6. w \in VaSet /\ w.gp = x + 1 /\ w.fp = v.fp /\ w.overflow = v.overflow
    BY <1>1, <2>4, <2>5, VaSetIs
  <2>7. VaCounters(P, a, w)
    BY <1>1, <1>2, <1>4, <2>1, <2>2, <2>6 DEF VaCounters
  <2>8. rs[arg_regs(x)] = <<a, 1>>
    <3>1. Placed(ts, P, 1, rs, xs, ArgReg, a)
      BY <2>2 DEF Passed, AllPlaced
    <3>2. rs[ArgReg[P[a - 1].int + 1 - 1]] = <<1 + a - 1, 1>>
      BY <1>3, <3>1 DEF Placed
    <3>3. P[a - 1].int + 1 - 1 = x /\ 1 + a - 1 = a
      BY <1>2, <2>1
    <3>4. x \in 0 .. 5
      BY <1>2, <1>6
    <3>5. ArgReg[x] = arg_regs(x)
      BY <3>4 DEF ArgReg
    <3> QED
      BY <3>2, <3>3, <3>5
  <2>9. v.gp < REGN
    BY <1>2, <1>5, <1>6
  <2> QED
    BY <1>5, <2>3, <2>7, <2>8, <2>9
<1>7. CASE ~ (x < g)
  <2>1. ~ (i + 1 <= g) /\ Smaller(j, g) = x
    BY <1>2, <1>4, <1>5, <1>7 DEF Smaller
  <2>2. PICK w : w = [v EXCEPT !.overflow = e]
    OBVIOUS
  <2>3. w \in VaSet /\ w.gp = v.gp /\ w.fp = v.fp /\ w.overflow = e
    BY <1>1, <2>2, VaSetIs
  <2>4. VaCounters(P, a, w)
    BY <1>1, <1>2, <1>4, <1>5, <2>1, <2>3 DEF VaCounters
  <2>5. ~ (v.gp < REGN)
    BY <1>2, <1>5, <1>7
  <2> QED
    BY <1>2, <1>4, <2>1, <2>2, <2>4, <2>5
<1> QED
  BY <1>6, <1>7

LEMMA VaFloat ==
    ASSUME NEW ts, NEW P, Situation(ts, P), NEW ps, NEW rs, NEW xs, Passed(ts, P, 1, ps, rs, xs),
           NEW a \in 1 .. Len(ts), NEW v, VaCounters(P, a - 1, v), Mode(ts[a]) = "sse", TypeSize(ts[a]) = 1
    PROVE  /\ v.fp < SSEN =>
                 VaCounters(P, a, [v EXCEPT !.fp = v.fp + 1]) /\ xs[v.fp] = <<a, 1>>
           /\ ~ (v.fp < SSEN) => ~ In(ts, P, a) /\ VaCounters(P, a, [v EXCEPT !.overflow = P[a].end])
<1>1. /\ v \in VaSet /\ v.gp = Smaller(P[a - 1].int, REGN) /\ v.fp = Smaller(P[a - 1].sse, SSEN)
      /\ v.overflow = P[a - 1].end
  BY DEF VaCounters
<1>2. PICK i \in Nat, j \in Nat, g \in Nat, e \in Nat :
         i = P[a - 1].sse /\ j = P[a].sse /\ g = SSEN /\ e = P[a].end
  <2>1. a - 1 \in 0 .. Len(ts) /\ a \in 0 .. Len(ts)
    BY DEF Situation
  <2>2. PICK i \in Nat, j \in Nat, e \in Nat : i = P[a - 1].sse /\ j = P[a].sse /\ e = P[a].end
    BY <2>1, MarksAre
  <2>3. SSEN \in Nat
    BY CallAssumption
  <2> QED
    BY <2>2, <2>3
<1>3. RegCount(ts[a]) = 1
  <2>1. RegCount(ts[a]) \in {1, 2} /\ (RegCount(ts[a]) = 2 <=> TypeSize(ts[a]) > 1)
    BY TypeFacts
  <2> QED
    BY <2>1
<1>4. j = i + 1 /\ P[a].int = P[a - 1].int /\ (In(ts, P, a) <=> i + 1 <= g)
  BY <1>2, <1>3, NextMarks
<1>5. PICK x \in Nat : x = v.fp /\ x = Smaller(i, g)
  BY <1>1, <1>2 DEF Smaller
<1>6. CASE x < g
  <2>1. i = x /\ i + 1 <= g /\ Smaller(j, g) = x + 1
    BY <1>2, <1>4, <1>5, <1>6, SMTT(30) DEF Smaller
  <2>2. In(ts, P, a) /\ P[a].end = P[a - 1].end
    BY <1>4, <2>1, NextMarks
  <2>3. PICK w : w = [v EXCEPT !.fp = v.fp + 1]
    OBVIOUS
  <2>4. x + 1 \in Nat
    OBVIOUS
  <2>5. w = [v EXCEPT !.fp = x + 1]
    BY <1>5, <2>3
  <2>6. w \in VaSet /\ w.fp = x + 1 /\ w.gp = v.gp /\ w.overflow = v.overflow
    BY <1>1, <2>4, <2>5, VaSetIs
  <2>7. VaCounters(P, a, w)
    BY <1>1, <1>2, <1>4, <2>1, <2>2, <2>6 DEF VaCounters
  <2>8. xs[x] = <<a, 1>>
    <3>1. Placed(ts, P, 1, rs, xs, ArgReg, a)
      BY <2>2 DEF Passed, AllPlaced
    <3>2. xs[P[a - 1].sse + 1 - 1] = <<1 + a - 1, 1>>
      BY <3>1 DEF Placed
    <3>3. P[a - 1].sse + 1 - 1 = x /\ 1 + a - 1 = a
      BY <1>2, <2>1
    <3> QED
      BY <3>2, <3>3
  <2>9. v.fp < SSEN
    BY <1>2, <1>5, <1>6
  <2> QED
    BY <1>5, <2>3, <2>7, <2>8, <2>9
<1>7. CASE ~ (x < g)
  <2>1. ~ (i + 1 <= g) /\ Smaller(j, g) = x
    BY <1>2, <1>4, <1>5, <1>7 DEF Smaller
  <2>2. PICK w : w = [v EXCEPT !.overflow = e]
    OBVIOUS
  <2>3. w \in VaSet /\ w.gp = v.gp /\ w.fp = v.fp /\ w.overflow = e
    BY <1>1, <2>2, VaSetIs
  <2>4. VaCounters(P, a, w)
    BY <1>1, <1>2, <1>4, <1>5, <2>1, <2>3 DEF VaCounters
  <2>5. ~ (v.fp < SSEN)
    BY <1>2, <1>5, <1>7
  <2> QED
    BY <1>2, <1>4, <2>1, <2>2, <2>4, <2>5
<1> QED
  BY <1>6, <1>7

LEMMA VaMemory ==
    ASSUME NEW ts, NEW P, Situation(ts, P), NEW a \in 1 .. Len(ts), NEW v, VaCounters(P, a - 1, v),
           Mode(ts[a]) \notin {"integer", "sse"}
    PROVE  ~ In(ts, P, a) /\ VaCounters(P, a, [v EXCEPT !.overflow = P[a].end])
<1>1. /\ v \in VaSet /\ v.gp = Smaller(P[a - 1].int, REGN) /\ v.fp = Smaller(P[a - 1].sse, SSEN)
      /\ v.overflow = P[a - 1].end
  BY DEF VaCounters
<1>2. PICK e \in Nat : e = P[a].end
  <2>1. a \in 0 .. Len(ts)
    BY DEF Situation
  <2> QED
    BY <2>1, MarksAre
<1>3. ~ In(ts, P, a) /\ P[a].int = P[a - 1].int /\ P[a].sse = P[a - 1].sse
  BY NextMarks
<1>4. PICK w : w = [v EXCEPT !.overflow = e]
  OBVIOUS
<1>5. w \in VaSet /\ w.gp = v.gp /\ w.fp = v.fp /\ w.overflow = e
  BY <1>1, <1>4, VaSetIs
<1> QED
  BY <1>1, <1>2, <1>3, <1>4, <1>5 DEF VaCounters

\* The end of an argument is aligned as its start is, as its size is a multiple of
\* its alignment.
Multiple(z, al) == al = 2 => z % 2 = 0

LEMMA AlignedSum ==
    ASSUME NEW n \in Nat, NEW z \in Nat, NEW al \in {1, 2}, Multiple(z, al)
    PROVE  UpTo(n + z, al) = UpTo(n, al) + z /\ UpTo(n + z, al) - z = UpTo(n, al)
<1>1. PICK m \in Nat : m = n + z
  OBVIOUS
<1>2. CASE al = 1
  <2>1. UpTo(m, 1) = m /\ UpTo(n, 1) = n
    BY UpToIs
  <2> QED
    BY <1>1, <1>2, <2>1
<1>3. CASE al = 2
  <2>1. z % 2 = 0
    BY <1>3 DEF Multiple
  <2>2. PICK h \in Nat : z = 2 * h
    <3>1. z = 2 * (z \div 2) /\ z \div 2 \in Nat
      BY <2>1
    <3> QED
      BY <3>1
  <2>3. m % 2 = n % 2
    BY <1>1, <2>2
  <2>4. /\ UpTo(m, 2) = (IF m % 2 = 1 THEN m + 1 ELSE m)
        /\ UpTo(n, 2) = (IF n % 2 = 1 THEN n + 1 ELSE n)
    BY UpToIs
  <2>5. UpTo(m, 2) = UpTo(n, 2) + z /\ UpTo(m, 2) - z = UpTo(n, 2)
    BY <1>1, <2>3, <2>4
  <2> QED
    BY <1>1, <1>3, <2>5
<1> QED
  BY <1>2, <1>3

LEMMA VaOverflow ==
    ASSUME NEW ts, NEW P, Situation(ts, P), NEW ps, NEW rs, NEW xs, Passed(ts, P, 1, ps, rs, xs),
           NEW a \in 1 .. Len(ts), ~ In(ts, P, a)
    PROVE  /\ UpTo(P[a - 1].end + TypeSize(ts[a]), TypeAlign(ts[a])) = P[a].end
           /\ WordsAt(ps, P[a].end - TypeSize(ts[a]), TypeSize(ts[a])) = Words(a, ts[a])
<1>1. PICK z \in Nat, al \in {1, 2} : z = TypeSize(ts[a]) /\ al = TypeAlign(ts[a]) /\ (al = 2 => z % 2 = 0)
  BY TypeFacts
<1>2. PICK n \in Nat, e \in Nat : n = P[a - 1].end /\ e = P[a].end
  <2>1. a - 1 \in 0 .. Len(ts) /\ a \in 0 .. Len(ts)
    BY DEF Situation
  <2> QED
    BY <2>1, MarksAre
<1>3. PICK o \in Nat : o = Start(ts, P, a) /\ o = UpTo(n, al) /\ e = o + z
  BY <1>1, <1>2, NextMarks
<1>4. UpTo(n + z, al) = e
  <2>1. UpTo(n + z, al) = UpTo(n, al) + z
    <3>1. Multiple(z, al)
      BY <1>1 DEF Multiple
    <3> QED
      BY <3>1, AlignedSum
  <2> QED
    BY <1>3, <2>1
<1>5. e - z = o
  BY <1>3
<1>6. PICK q : q = WordsAt(ps, o, z)
  OBVIOUS
<1>7. q \in [1 .. z -> WordSet] /\ \A k \in 1 .. z : q[k] = <<1 + a - 1, k>>
  <2>1. HasWords(ts, 1, a, WordsAt(ps, Start(ts, P, a), TypeSize(ts[a])))
    <3>1. 1 \in Nat
      OBVIOUS
    <3> QED
      BY <3>1, StackIs
  <2>2. q = WordsAt(ps, Start(ts, P, a), TypeSize(ts[a]))
    BY <1>1, <1>3, <1>6
  <2> QED
    BY <1>1, <2>1, <2>2 DEF HasWords
<1>8. q = [k \in 1 .. z |-> <<a, k>>]
  <2>1. 1 + a - 1 = a
    OBVIOUS
  <2>2. q = [k \in 1 .. z |-> q[k]]
    BY <1>7
  <2> QED
    BY <1>7, <2>1, <2>2
<1>9. q = Words(a, ts[a])
  BY <1>1, <1>8 DEF Words
<1> QED
  BY <1>1, <1>2, <1>3, <1>4, <1>5, <1>6, <1>9

\* The calls that VaArgsExact is about
GoodVa == ~ (\/ PairOverwritten(call) \/ UnionAsInteger(call) \/ SeenInRegisters(call)
             \/ PlaceNotSeen(call) \/ OneWordRead(call))

\* va_arg has read rd, of m arguments beyond the n named ones.
VaState(ts, P, n, m, v, rd) ==
    /\ rd \in Seq(Seq(WordSet)) /\ Len(rd) <= m
    /\ VaCounters(P, n + Len(rd), v)
    /\ \A k \in 1 .. Len(rd) : rd[k] = Words(n + k, ts[n + k])

\* The inductive invariant of TheVaArgsExact, beside IInv
VaInv ==
    /\ at # "params" \/ call.more = <<>> => read = <<>>
    /\ at = "params" /\ GoodVa /\ call.more # <<>> =>
          VaState(ArgTypes(call), Plan(ArgTypes(call)), Len(call.params), Len(call.more), va, read)

\* The arguments of a variadic function
VaCall(ts, P, n, m) ==
    /\ Situation(ts, P) /\ n \in Nat /\ m \in Nat /\ n + m = Len(ts) /\ P[n].int <= REGN
    /\ \A k \in 1 .. m : Mode(ts[n + k]) \in {"integer", "sse"} => TypeSize(ts[n + k]) = 1

LEMMA VaGiven ==
    ASSUME IInv, GoodVa, call.more # <<>>
    PROVE  /\ call.variadic /\ Good /\ FirstArg(call) = 1
           /\ VaCall(ArgTypes(call), Plan(ArgTypes(call)), Len(call.params), Len(call.more))
           /\ call.params \in [1 .. Len(call.params) -> CTypes]
           /\ \A k \in 1 .. Len(call.params) : call.params[k] = ArgTypes(call)[k]
           /\ \A k \in 1 .. Len(call.more) : call.more[k] = ArgTypes(call)[Len(call.params) + k]
<1>1. PICK ts : ts = ArgTypes(call)
  OBVIOUS
<1>2. PICK P : P = Plan(ts)
  OBVIOUS
<1>3. call \in Call /\ call.variadic
  BY CallAssumption DEF IInv
<1>4. Good
  BY DEF GoodVa, Good
<1>5. ~ ReturnsInMemory(call)
  BY <1>3 DEF GoodVa, PlaceNotSeen
<1>6. FirstArg(call) = 1
  BY <1>5 DEF FirstArg
<1>7. Situation(ts, P)
  BY <1>1, <1>2, <1>4, Given
<1>8. PICK n \in Nat, m \in Nat : n = Len(call.params) /\ m = Len(call.more)
  BY <1>3 DEF Call
<1>9. call.params \in [1 .. n -> CTypes]
  <2>1. call.params \in Seq(CTypes)
    BY <1>3 DEF Call
  <2> QED
    BY <1>8, <2>1
<1>10. \A k \in 1 .. n : call.params[k] = ts[k]
  <2>1. \A k \in 1 .. n : ts[1 - 1 + k] = call.params[k]
    BY <1>1, <1>3, <1>6, <1>8, ArgTypesAre
  <2> QED
    BY <2>1
<1>11. \A k \in 1 .. m : call.more[k] = ts[n + k]
  <2>1. \A k \in 1 .. m : ts[1 - 1 + n + k] = call.more[k]
    BY <1>1, <1>3, <1>6, <1>8, ArgTypesAre
  <2>2. 1 - 1 + n = n
    BY <1>8
  <2> QED
    BY <2>1, <2>2
<1>12. n + m = Len(ts)
  <2>1. Len(ts) = 1 - 1 + n + m
    BY <1>1, <1>3, <1>6, <1>8, ArgTypesAre
  <2> QED
    BY <1>8, <2>1
<1>13. P[n].int <= REGN
  <2>1. ~ (Needed("integer", call.params) > REGN)
    BY <1>3 DEF GoodVa, SeenInRegisters
  <2>2. n \in 0 .. Len(ts)
    <3>1. \A x \in Nat, y \in Nat : x \in 0 .. x + y
      OBVIOUS
    <3>2. n \in Nat /\ m \in Nat
      BY <1>8
    <3>3. n \in 0 .. n + m
      BY <3>1, <3>2
    <3> QED
      BY <1>12, <3>3
  <2>3. Needed("integer", call.params) = P[n].int
    BY <1>7, <1>9, <1>10, <2>2, NeededFront
  <2>4. PICK x \in Nat, g \in Nat : x = P[n].int /\ g = REGN
    BY <1>7, <2>2, MarksAre, CallAssumption
  <2> QED
    BY <2>1, <2>3, <2>4
<1>14. ASSUME NEW k \in 1 .. m, Mode(ts[n + k]) \in {"integer", "sse"} PROVE TypeSize(ts[n + k]) = 1
  <2>1. DOMAIN call.more = 1 .. m
    BY <1>3, <1>8 DEF Call
  <2>2. ~ (Mode(call.more[k]) \in {"integer", "sse"} /\ TypeSize(call.more[k]) # 1)
    BY <2>1 DEF GoodVa, OneWordRead
  <2> QED
    BY <1>11, <1>14, <2>2
<1>15. VaCall(ts, P, n, m)
  BY <1>7, <1>8, <1>12, <1>13, <1>14 DEF VaCall
<1> QED
  BY <1>1, <1>2, <1>3, <1>4, <1>6, <1>8, <1>9, <1>10, <1>11, <1>15

LEMMA VaStart == Init => VaInv
BY DEF Init, VaInv

LEMMA VaCaller ==
    ASSUME VaInv, UNCHANGED <<call, read>>, at # "params", at' # "params"
    PROVE  VaInv'
BY DEF VaInv

LEMMA VaProlog == IInv /\ VaInv /\ Prolog => VaInv'
<1> SUFFICES ASSUME IInv, VaInv, Prolog PROVE VaInv'
  OBVIOUS
<1>1. /\ at = "prolog" /\ at' = "params" /\ read' = read /\ call' = call
      /\ va' = IF call.variadic THEN SeenAll(call.params) ELSE va
  BY DEF Prolog, CallerDone
<1>2. read = <<>> /\ read' = <<>>
  BY <1>1 DEF VaInv
<1>3. ASSUME GoodVa, call.more # <<>>
      PROVE  VaState(ArgTypes(call), Plan(ArgTypes(call)), Len(call.params), Len(call.more), va', read')
  <2>1. PICK ts, P, n, m : ts = ArgTypes(call) /\ P = Plan(ts) /\ n = Len(call.params) /\ m = Len(call.more)
    OBVIOUS
  <2>2. /\ call.variadic /\ VaCall(ts, P, n, m) /\ call.params \in [1 .. n -> CTypes]
        /\ \A k \in 1 .. n : call.params[k] = ts[k]
    BY <1>3, <2>1, VaGiven
  <2>3. Situation(ts, P) /\ n \in Nat /\ m \in Nat /\ n + m = Len(ts) /\ P[n].int <= REGN
    BY <2>2 DEF VaCall
  <2>4. n \in 0 .. Len(ts)
    BY <2>3
  <2>5. VaCounters(P, n, va')
    BY <1>1, <2>2, <2>3, <2>4, AllSeen
  <2>6. PICK S : S = Seq(WordSet)
    OBVIOUS
  <2>7. <<>> \in Seq(S) /\ Len(<<>>) = 0 /\ n + 0 = n /\ 0 <= m
    BY <2>3
  <2>8. VaState(ts, P, n, m, va', <<>>)
    BY <2>5, <2>6, <2>7 DEF VaState
  <2> QED
    BY <1>2, <2>1, <2>8
<1>4. GoodVa' <=> GoodVa
  BY <1>1 DEF GoodVa
<1> QED
  BY <1>1, <1>2, <1>3, <1>4 DEF VaInv

LEMMA VaUnchanged ==
    ASSUME VaInv, UNCHANGED <<call, at, va, read>>
    PROVE  VaInv'
<1>1. GoodVa' <=> GoodVa
  BY DEF GoodVa
<1> QED
  BY <1>1 DEF VaInv

\* va_arg has read one more.
LEMMA VaRead ==
    ASSUME NEW ts, NEW P, NEW n, NEW m, VaCall(ts, P, n, m), NEW v, NEW rd, VaState(ts, P, n, m, v, rd),
           Len(rd) < m, NEW a, a = n + Len(rd) + 1, NEW w, VaCounters(P, a, w), NEW q, q = Words(a, ts[a])
    PROVE  VaState(ts, P, n, m, w, Append(rd, q))
<1>1. PICK S : S = Seq(WordSet)
  OBVIOUS
<1>2. n \in Nat /\ m \in Nat /\ Situation(ts, P) /\ n + m = Len(ts)
  BY DEF VaCall
<1>3. rd \in Seq(S)
  BY <1>1 DEF VaState
<1>4. PICK k0 \in Nat : k0 = Len(rd)
  BY <1>3
<1>5. a = n + (k0 + 1) /\ a \in 1 .. Len(ts) /\ k0 + 1 <= m
  BY <1>2, <1>4
<1>6. q \in S
  <2>1. PICK z \in Nat : z = TypeSize(ts[a])
    BY <1>2, <1>5, TypeFacts
  <2>2. q = [k \in 1 .. z |-> <<a, k>>]
    BY <2>1 DEF Words
  <2>3. \A k \in 1 .. z : <<a, k>> \in WordSet
    BY <1>2, <1>5 DEF WordSet
  <2>4. PICK V : V = WordSet
    OBVIOUS
  <2>5. q \in Seq(V)
    BY <2>1, <2>2, <2>3, <2>4
  <2> QED
    BY <1>1, <2>4, <2>5
<1>7. PICK r : r = Append(rd, q)
  OBVIOUS
<1>8. r \in Seq(S) /\ Len(r) = k0 + 1 /\ r[k0 + 1] = q /\ \A k \in 1 .. k0 : r[k] = rd[k]
  BY <1>3, <1>4, <1>6, <1>7, AppendProperties
<1>9. ASSUME NEW k \in 1 .. k0 + 1 PROVE r[k] = Words(n + k, ts[n + k])
  <2>1. CASE k = k0 + 1
    BY <1>5, <1>8, <2>1
  <2>2. CASE k # k0 + 1
    <3>1. k \in 1 .. k0
      BY <2>2
    <3> QED
      BY <1>4, <1>8, <3>1 DEF VaState
  <2> QED
    BY <2>1, <2>2
<1>10. VaCounters(P, n + Len(r), w)
  BY <1>5, <1>8
<1> QED
  BY <1>1, <1>5, <1>7, <1>8, <1>9, <1>10 DEF VaState

\* The branches of va_arg: q is read, and w is left.
ReadBy(q, w) == va' = w /\ read' = Append(read, q)

SavedWords(k, n) == [i \in 1 .. n |-> SavedWord(k + i - 1)]

LEMMA Branches ==
    ASSUME VaArg, NEW t, t = call.more[Len(read) + 1], NEW z, z = TypeSize(t)
    PROVE  /\ Mode(t) = "integer" /\ va.gp < REGN =>
                 ReadBy(SavedWords(va.gp, z), [va EXCEPT !.gp = va.gp + 1])
           /\ Mode(t) = "sse" /\ va.fp < SSEN =>
                 ReadBy(SavedWords(REGN + 2 * va.fp, z), [va EXCEPT !.fp = va.fp + 1])
           /\ Mode(t) \in {"memory", "x87"} =>
                 LET e == UpTo(va.overflow + z, TypeAlign(t))
                 IN  ReadBy(StackWords(e - z, z), [va EXCEPT !.overflow = e])
           /\ (Mode(t) = "integer" /\ ~ (va.gp < REGN)) \/ (Mode(t) = "sse" /\ ~ (va.fp < SSEN)) =>
                 LET e == UpTo(va.overflow + 1, TypeAlign(t))
                 IN  ReadBy(StackWords(e - 1, z), [va EXCEPT !.overflow = e])
BY DEF VaArg, ReadBy, SavedWords, OverflowAlign

\* The words of an argument in a register
LEMMA SavedIs ==
    ASSUME NEW a, NEW t, TypeSize(t) = 1
    PROVE  /\ \A k \in Nat : k < REGN /\ regs[arg_regs(k)] = <<a, 1>> =>
                 SavedWords(k, TypeSize(t)) = Words(a, t)
           /\ \A k \in Nat : k < SSEN /\ xmm[k] = <<a, 1>> =>
                 SavedWords(REGN + 2 * k, TypeSize(t)) = Words(a, t)
<1>1. Words(a, t) = [i \in 1 .. 1 |-> <<a, 1>>]
  BY DEF Words
<1>2. ASSUME NEW k \in Nat, SavedWord(k) = <<a, 1>> PROVE SavedWords(k, TypeSize(t)) = Words(a, t)
  <2>1. SavedWords(k, TypeSize(t)) = [i \in 1 .. 1 |-> SavedWord(k + i - 1)]
    BY DEF SavedWords
  <2>2. k + 1 - 1 = k
    OBVIOUS
  <2> QED
    BY <1>1, <1>2, <2>1, <2>2
<1>3. ASSUME NEW k \in Nat, k < REGN, regs[arg_regs(k)] = <<a, 1>>
      PROVE  SavedWords(k, TypeSize(t)) = Words(a, t)
  <2>1. SavedWord(k) = <<a, 1>>
    BY <1>3 DEF SavedWord
  <2> QED
    BY <1>2, <2>1
<1>4. ASSUME NEW k \in Nat, k < SSEN, xmm[k] = <<a, 1>>
      PROVE  SavedWords(REGN + 2 * k, TypeSize(t)) = Words(a, t)
  <2>1. PICK g \in Nat : g = REGN
    BY CallAssumption
  <2>2. PICK m \in Nat : m = g + 2 * k
    BY <2>1
  <2>3. ~ (m < g) /\ (m - g) % 2 = 0 /\ (m - g) \div 2 = k
    BY <2>1, <2>2
  <2>4. SavedWord(m) = <<a, 1>>
    BY <1>4, <2>1, <2>3 DEF SavedWord
  <2>5. SavedWords(m, TypeSize(t)) = Words(a, t)
    BY <1>2, <2>4
  <2> QED
    BY <2>1, <2>2, <2>5
<1> QED
  BY <1>3, <1>4

\* One more argument is read where the caller has put it.
LEMMA VaArgStep == IInv /\ VaInv /\ VaArg => VaInv'
<1> SUFFICES ASSUME IInv, VaInv, VaArg PROVE VaInv'
  OBVIOUS
<1>1. at = "params" /\ at' = "params" /\ call' = call /\ Len(read) < Len(call.more)
  BY DEF VaArg, CallerDone
<1>2. call.more # <<>>
  <2>1. SUFFICES ASSUME call.more = <<>> PROVE FALSE
    OBVIOUS
  <2>2. read = <<>>
    BY <2>1 DEF VaInv
  <2> QED
    BY <1>1, <2>1, <2>2
<1>3. ASSUME GoodVa
      PROVE  VaState(ArgTypes(call), Plan(ArgTypes(call)), Len(call.params), Len(call.more), va', read')
  <2>1. PICK ts, P, n, m : ts = ArgTypes(call) /\ P = Plan(ts) /\ n = Len(call.params) /\ m = Len(call.more)
    OBVIOUS
  <2>2. /\ VaCall(ts, P, n, m) /\ Good /\ FirstArg(call) = 1
        /\ \A k \in 1 .. m : call.more[k] = ts[n + k]
    BY <1>2, <1>3, <2>1, VaGiven
  <2>3. /\ Situation(ts, P) /\ n \in Nat /\ m \in Nat /\ n + m = Len(ts)
        /\ \A k \in 1 .. m : Mode(ts[n + k]) \in {"integer", "sse"} => TypeSize(ts[n + k]) = 1
    BY <2>2 DEF VaCall
  <2>4. VaState(ts, P, n, m, va, read)
    BY <1>1, <1>2, <1>3, <2>1 DEF VaInv
  <2>5. PICK l \in Nat : l = Len(read) /\ l < m
    BY <1>1, <2>1, <2>4 DEF VaState
  <2>6. PICK a \in 1 .. Len(ts) : a = n + (l + 1) /\ a = n + l + 1 /\ a - 1 = n + l /\ l + 1 \in 1 .. m
    BY <2>3, <2>5
  <2>7. PICK t : t = ts[a] /\ t = call.more[Len(read) + 1]
    BY <2>2, <2>5, <2>6
  <2>8. Mode(t) \in {"integer", "sse"} => TypeSize(t) = 1
    BY <2>3, <2>6, <2>7
  <2>9. VaCounters(P, a - 1, va)
    BY <2>4, <2>5, <2>6 DEF VaState
  <2>10. va \in VaSet /\ va.gp \in Nat /\ va.fp \in Nat /\ va.overflow = P[a - 1].end
    <3>1. va \in VaSet /\ va.overflow = P[a - 1].end
      BY <2>9 DEF VaCounters
    <3> QED
      BY <3>1 DEF VaSet
  <2>11. Passed(ts, P, 1, pushed, regs, xmm)
    <3>1. CallerState(ts, P, 1, at, args, run_start, run_end, arg, gen_reg, sse_reg, pushed, regs, xmm)
      BY <2>1, <2>2 DEF IInv
    <3> QED
      BY <1>1, <3>1 DEF CallerState
  <2> DEFINE Ok(q, w) == VaCounters(P, a, w) /\ q = Words(a, t) /\ ReadBy(q, w)
  <2>12. Mode(t) \in {"integer", "sse", "x87", "memory"}
    BY <2>3, <2>7, TypeFacts DEF ModeSet
  <2>13. ASSUME ~ In(ts, P, a), VaCounters(P, a, [va EXCEPT !.overflow = P[a].end]), NEW z, z = TypeSize(t),
                LET e == UpTo(va.overflow + z, TypeAlign(t))
                IN  ReadBy(StackWords(e - z, z), [va EXCEPT !.overflow = e])
         PROVE  \E q, w : Ok(q, w)
    <3>1. PICK e : e = UpTo(va.overflow + z, TypeAlign(t))
      OBVIOUS
    <3>2. /\ UpTo(P[a - 1].end + TypeSize(ts[a]), TypeAlign(ts[a])) = P[a].end
          /\ WordsAt(pushed, P[a].end - TypeSize(ts[a]), TypeSize(ts[a])) = Words(a, ts[a])
      BY <2>3, <2>11, <2>13, VaOverflow
    <3>3. e = P[a].end
      BY <2>7, <2>10, <2>13, <3>1, <3>2
    <3>4. StackWords(e - z, z) = WordsAt(pushed, e - z, z)
      BY DEF StackWords, WordsAt
    <3>5. StackWords(e - z, z) = Words(a, t)
      BY <2>7, <2>13, <3>2, <3>3, <3>4
    <3>6. Ok(StackWords(e - z, z), [va EXCEPT !.overflow = e])
      BY <2>13, <3>1, <3>3, <3>5
    <3> QED
      BY <3>6
  <2>14. \E q, w : Ok(q, w)
    <3>1. CASE Mode(t) = "integer"
      <4>1. TypeSize(t) = 1
        BY <2>8, <3>1
      <4>2. /\ va.gp < REGN =>
                  VaCounters(P, a, [va EXCEPT !.gp = va.gp + 1]) /\ regs[arg_regs(va.gp)] = <<a, 1>>
            /\ ~ (va.gp < REGN) => ~ In(ts, P, a) /\ VaCounters(P, a, [va EXCEPT !.overflow = P[a].end])
        <5>1. Situation(ts, P) /\ Mode(ts[a]) = "integer" /\ TypeSize(ts[a]) = 1
          BY <2>3, <2>7, <3>1, <4>1
        <5> QED
          BY <2>9, <2>11, <5>1, VaInteger
      <4>3. CASE va.gp < REGN
        <5>1. SavedWords(va.gp, TypeSize(t)) = Words(a, t)
          BY <2>10, <4>1, <4>2, <4>3, SavedIs
        <5>2. ReadBy(SavedWords(va.gp, TypeSize(t)), [va EXCEPT !.gp = va.gp + 1])
          BY <2>7, <3>1, <4>3, Branches
        <5>3. Ok(SavedWords(va.gp, TypeSize(t)), [va EXCEPT !.gp = va.gp + 1])
          BY <4>2, <4>3, <5>1, <5>2
        <5> QED
          BY <5>3
      <4>4. CASE ~ (va.gp < REGN)
        <5>1. PICK z : z = TypeSize(t) /\ z = 1
          BY <4>1
        <5>2. LET e == UpTo(va.overflow + 1, TypeAlign(t))
              IN  ReadBy(StackWords(e - 1, z), [va EXCEPT !.overflow = e])
          BY <2>7, <3>1, <4>4, <5>1, Branches
        <5> QED
          BY <2>13, <4>2, <4>4, <5>1, <5>2
      <4> QED
        BY <4>3, <4>4
    <3>2. CASE Mode(t) = "sse"
      <4>1. TypeSize(t) = 1
        BY <2>8, <3>2
      <4>2. /\ va.fp < SSEN =>
                  VaCounters(P, a, [va EXCEPT !.fp = va.fp + 1]) /\ xmm[va.fp] = <<a, 1>>
            /\ ~ (va.fp < SSEN) => ~ In(ts, P, a) /\ VaCounters(P, a, [va EXCEPT !.overflow = P[a].end])
        <5>1. Situation(ts, P) /\ Mode(ts[a]) = "sse" /\ TypeSize(ts[a]) = 1
          BY <2>3, <2>7, <3>2, <4>1
        <5> QED
          BY <2>9, <2>11, <5>1, VaFloat
      <4>3. CASE va.fp < SSEN
        <5>1. SavedWords(REGN + 2 * va.fp, TypeSize(t)) = Words(a, t)
          BY <2>10, <4>1, <4>2, <4>3, SavedIs
        <5>2. ReadBy(SavedWords(REGN + 2 * va.fp, TypeSize(t)), [va EXCEPT !.fp = va.fp + 1])
          BY <2>7, <3>2, <4>3, Branches
        <5>3. Ok(SavedWords(REGN + 2 * va.fp, TypeSize(t)), [va EXCEPT !.fp = va.fp + 1])
          BY <4>2, <4>3, <5>1, <5>2
        <5> QED
          BY <5>3
      <4>4. CASE ~ (va.fp < SSEN)
        <5>1. PICK z : z = TypeSize(t) /\ z = 1
          BY <4>1
        <5>2. LET e == UpTo(va.overflow + 1, TypeAlign(t))
              IN  ReadBy(StackWords(e - 1, z), [va EXCEPT !.overflow = e])
          BY <2>7, <3>2, <4>4, <5>1, Branches
        <5> QED
          BY <2>13, <4>2, <4>4, <5>1, <5>2
      <4> QED
        BY <4>3, <4>4
    <3>3. CASE Mode(t) \in {"memory", "x87"}
      <4>1. ~ In(ts, P, a) /\ VaCounters(P, a, [va EXCEPT !.overflow = P[a].end])
        BY <2>3, <2>7, <2>9, <3>3, VaMemory
      <4>2. PICK z : z = TypeSize(t)
        OBVIOUS
      <4>3. LET e == UpTo(va.overflow + z, TypeAlign(t))
            IN  ReadBy(StackWords(e - z, z), [va EXCEPT !.overflow = e])
        BY <2>7, <3>3, <4>2, Branches
      <4> QED
        BY <2>13, <4>1, <4>2, <4>3
    <3> QED
      BY <2>12, <3>1, <3>2, <3>3
  <2>15. PICK q, w : Ok(q, w)
    BY <2>14
  <2>16. VaState(ts, P, n, m, w, Append(read, q))
    <3>1. a = n + Len(read) + 1 /\ Len(read) < m
      BY <2>5, <2>6
    <3>2. q = Words(a, ts[a]) /\ VaCounters(P, a, w)
      BY <2>7, <2>15
    <3> QED
      BY <2>2, <2>4, <3>1, <3>2, VaRead
  <2>17. va' = w /\ read' = Append(read, q)
    BY <2>15 DEF ReadBy
  <2> QED
    BY <2>1, <2>16, <2>17
<1>4. GoodVa' <=> GoodVa
  BY <1>1 DEF GoodVa
<1> QED
  BY <1>1, <1>2, <1>3, <1>4 DEF VaInv

LEMMA VaInductive == IInv /\ VaInv /\ [Next]_vars => VaInv'
<1> SUFFICES ASSUME IInv, VaInv, [Next]_vars PROVE VaInv'
  OBVIOUS
<1>1. ASSUME CountArgs PROVE VaInv'
  BY <1>1, VaCaller DEF CountArgs, CalleeUntouched
<1>2. ASSUME MeasureRun PROVE VaInv'
  BY <1>2, VaCaller DEF MeasureRun, CalleeUntouched
<1>3. ASSUME StoreArg PROVE VaInv'
  BY <1>3, VaCaller DEF StoreArg, CalleeUntouched
<1>4. ASSUME StoreAligned PROVE VaInv'
  BY <1>4, VaCaller DEF StoreAligned, AlignedNext, Fails, CalleeUntouched
<1>5. ASSUME EndOfRun PROVE VaInv'
  BY <1>5, VaCaller DEF EndOfRun, CalleeUntouched
<1>6. ASSUME PrepareRegs PROVE VaInv'
  BY <1>6, VaCaller DEF PrepareRegs, Fails, CalleeUntouched
<1>7. ASSUME LoadFloat PROVE VaInv'
  BY <1>7, VaCaller DEF LoadFloat, CalleeUntouched
<1>8. ASSUME LoadInteger PROVE VaInv'
  BY <1>8, VaCaller DEF LoadInteger, CalleeUntouched
<1>9. ASSUME DoCall PROVE VaInv'
  BY <1>9, VaCaller DEF DoCall, Fails, CalleeUntouched
<1>10. ASSUME DefineParam PROVE VaInv'
  BY <1>10, VaUnchanged DEF DefineParam, CallerDone
<1>11. ASSUME Returned \/ UNCHANGED vars PROVE VaInv'
  BY <1>11, VaUnchanged DEF Returned, vars
<1> QED
  BY <1>1, <1>2, <1>3, <1>4, <1>5, <1>6, <1>7, <1>8, <1>9, <1>10, <1>11, VaProlog, VaArgStep DEF Next

LEMMA VaArgsFollow == IInv /\ VaInv => VaArgsExact
<1> SUFFICES ASSUME IInv, VaInv, GoodVa, NEW k \in DOMAIN read
             PROVE  read[k] = Words(Len(call.params) + k, call.more[k])
  BY DEF VaArgsExact, GoodVa
<1>1. at = "params" /\ call.more # <<>>
  <2>1. read # <<>>
    OBVIOUS
  <2> QED
    BY <2>1 DEF VaInv
<1>2. PICK ts, n, m : ts = ArgTypes(call) /\ n = Len(call.params) /\ m = Len(call.more)
  OBVIOUS
<1>3. VaState(ts, Plan(ts), n, m, va, read)
  BY <1>1, <1>2 DEF VaInv
<1>4. VaCall(ts, Plan(ts), n, m) /\ \A j \in 1 .. m : call.more[j] = ts[n + j]
  BY <1>1, <1>2, VaGiven
<1>5. PICK l \in Nat : l = Len(read) /\ l <= m /\ DOMAIN read = 1 .. l
  BY <1>3 DEF VaState
<1>6. m \in Nat
  BY <1>4 DEF VaCall
<1>7. k \in 1 .. l /\ k \in 1 .. m
  BY <1>5, <1>6
<1>8. read[k] = Words(n + k, ts[n + k])
  BY <1>3, <1>5, <1>7 DEF VaState
<1> QED
  BY <1>2, <1>4, <1>7, <1>8

\* For every number of registers, and for every call but those named in the property:
\* each va_arg returns the next argument beyond the named ones, wherever these have
\* left the registers and the stack.
THEOREM TheVaArgsExact == Spec => []VaArgsExact
<1>1. Init => IInv /\ VaInv
  BY Start0, VaStart
<1>2. IInv /\ VaInv /\ [Next]_vars => (IInv /\ VaInv)'
  BY Inductive, VaInductive
<1>3. IInv /\ VaInv => VaArgsExact
  BY VaArgsFollow
<1> QED
  BY <1>1, <1>2, <1>3, PTL DEF Spec
=============================================================================
