-------------------------- MODULE BoundCheck_proofs --------------------------
(***************************************************************************)
(* Proofs about BoundCheck: whatever a program allocates, frees, calls and *)
(* checks, in whatever order, the cells of the table hold its regions and  *)
(* nothing else, every pointer is checked against its own region, and free *)
(* stops the program exactly when it must.                                 *)
(***************************************************************************)
EXTENDS BoundCheck, FiniteSetTheorems, WellFoundedInduction, TLAPS

-----------------------------------------------------------------------------
(* Addresses, cells and pages                                              *)

LEMMA Rounding ==
    ASSUME NEW a \in Nat, NEW b \in Nat \ {0}
    PROVE  a \div b \in Nat /\ (a \div b) * b <= a /\ a < (a \div b) * b + b
  OBVIOUS

LEMMA RoundingOrder ==
    ASSUME NEW a \in Nat, NEW c \in Nat, NEW b \in Nat \ {0}, a <= c
    PROVE  a \div b <= c \div b
<1>1. PICK x \in Nat, y \in Nat : x = a \div b /\ y = c \div b /\ x * b <= a /\ c < y * b + b
  BY Rounding
<1>2. x * b < (y + 1) * b
  BY <1>1
<1>3. x < y + 1
  <2> SUFFICES ASSUME x >= y + 1 PROVE FALSE
    BY <1>1
  <2>1. PICK z \in Nat : x = y + 1 + z
    BY <1>1
  <2>2. x * b = (y + 1) * b + z * b /\ z * b >= 0
    BY <2>1
  <2> QED
    BY <1>2, <2>2
<1> QED
  BY <1>1, <1>3

LEMMA RoundingBound ==
    ASSUME NEW a \in Nat, NEW m \in Nat, NEW b \in Nat \ {0}, a < m * b
    PROVE  a \div b < m
<1>1. PICK x \in Nat : x = a \div b /\ x * b <= a
  BY Rounding
<1> SUFFICES ASSUME x >= m PROVE FALSE
  BY <1>1
<1>2. PICK z \in Nat : x = m + z
  BY <1>1
<1>3. x * b = m * b + z * b /\ z * b >= 0
  BY <1>2
<1> QED
  BY <1>1, <1>3

LEMMA Constants ==
    /\ BOUND_T1_SIZE \in Nat \ {0} /\ BOUND_T2_SIZE \in Nat \ {0}
    /\ BOUND_T3_SIZE \in Nat \ {0, 1}
    /\ BOUND_T1_SIZE * BOUND_T2_SIZE \in Nat
    /\ BOUND_T23_SIZE \in Nat /\ BOUND_T23_SIZE >= 2
    /\ Space \in Nat /\ LastPage \in Nat /\ LastPage + BOUND_T23_SIZE = Space
    /\ Space = (BOUND_T1_SIZE * BOUND_T2_SIZE) * BOUND_T3_SIZE
    /\ LastPage = ((BOUND_T1_SIZE - 1) * BOUND_T2_SIZE) * BOUND_T3_SIZE
<1>1. /\ BOUND_T1_SIZE \in Nat \ {0} /\ BOUND_T2_SIZE \in Nat \ {0}
      /\ BOUND_T3_SIZE \in Nat \ {0, 1}
  BY BoundCheckAssumption
<1>2. BOUND_T2_SIZE * BOUND_T3_SIZE >= 2
  <2>1. PICK z \in Nat : BOUND_T2_SIZE = z + 1
    BY <1>1
  <2>2. BOUND_T2_SIZE * BOUND_T3_SIZE = z * BOUND_T3_SIZE + BOUND_T3_SIZE
    BY <1>1, <2>1
  <2>3. z * BOUND_T3_SIZE \in Nat
    BY <1>1
  <2> QED
    BY <1>1, <2>2, <2>3
<1>3. /\ BOUND_T1_SIZE * BOUND_T2_SIZE \in Nat /\ BOUND_T23_SIZE \in Nat
      /\ BOUND_T1_SIZE - 1 \in Nat
  BY <1>1 DEF BOUND_T23_SIZE
<1>4. Space \in Nat /\ LastPage \in Nat
  BY <1>1, <1>3 DEF Space, LastPage
<1>5. LastPage + BOUND_T23_SIZE = Space
  BY <1>1, <1>3 DEF Space, LastPage
<1>6. /\ Space = (BOUND_T1_SIZE * BOUND_T2_SIZE) * BOUND_T3_SIZE
      /\ LastPage = ((BOUND_T1_SIZE - 1) * BOUND_T2_SIZE) * BOUND_T3_SIZE
  BY <1>1, <1>3 DEF Space, LastPage, BOUND_T23_SIZE
<1> QED
  BY <1>1, <1>2, <1>3, <1>4, <1>5, <1>6 DEF BOUND_T23_SIZE

\* The cell of an address and the page of a cell.
LEMMA CellIs ==
    ASSUME NEW p \in Nat
    PROVE  /\ CellOf(p) \in Nat
           /\ p < Space => CellOf(p) \in Cells
           /\ p < LastPage => PageOf(CellOf(p)) < BOUND_T1_SIZE - 1
<1>1. CellOf(p) \in Nat
  BY Constants, Rounding DEF CellOf
<1>2. ASSUME p < Space PROVE CellOf(p) \in Cells
  <2>1. CellOf(p) < BOUND_T1_SIZE * BOUND_T2_SIZE
    BY <1>2, Constants, RoundingBound DEF CellOf
  <2> QED
    BY <1>1, <2>1, Constants DEF Cells
<1>3. ASSUME p < LastPage PROVE PageOf(CellOf(p)) < BOUND_T1_SIZE - 1
  <2>1. BOUND_T1_SIZE - 1 \in Nat /\ (BOUND_T1_SIZE - 1) * BOUND_T2_SIZE \in Nat
    BY Constants
  <2>2. CellOf(p) < (BOUND_T1_SIZE - 1) * BOUND_T2_SIZE
    BY <1>3, <2>1, Constants, RoundingBound DEF CellOf
  <2> QED
    BY <1>1, <2>1, <2>2, Constants, RoundingBound DEF PageOf
<1> QED
  BY <1>1, <1>2, <1>3

LEMMA PageIs ==
    ASSUME NEW c \in Cells
    PROVE  c \in Nat /\ PageOf(c) \in Pages
<1>1. c \in Nat /\ c < BOUND_T1_SIZE * BOUND_T2_SIZE
  BY Constants DEF Cells
<1>2. PageOf(c) \in Nat /\ PageOf(c) < BOUND_T1_SIZE
  BY <1>1, Constants, Rounding, RoundingBound DEF PageOf
<1> QED
  BY <1>1, <1>2, Constants DEF Pages

LEMMA CellOrder ==
    ASSUME NEW p \in Nat, NEW q \in Nat, p <= q
    PROVE  CellOf(p) <= CellOf(q)
  BY Constants, RoundingOrder DEF CellOf

LEMMA PageOrder ==
    ASSUME NEW c \in Nat, NEW d \in Nat, c <= d
    PROVE  PageOf(c) <= PageOf(d)
  BY Constants, RoundingOrder DEF PageOf

-----------------------------------------------------------------------------
(***************************************************************************)
(* The invariant: a table T for the regions R.                             *)
(***************************************************************************)

Entries == [start : Nat, size : Nat]

Tables == [t1 : [Pages -> {"own", "empty", "invalid"}],
           t2 : [Cells -> [list : Seq(Entries), is_invalid : BOOLEAN]]]

RegionSet == [start : Nat \ {0}, size : Nat, heap : BOOLEAN]

\* The memory of the program: its regions are apart, below the last page.
RegionsOK(R) ==
    /\ R \subseteq RegionSet
    /\ \A r \in R : r.start + r.size < LastPage
    /\ Abs!AllApart(R)

\* The regions that a cell has to know.
Of(R, c) == {r \in R : CellOf(r.start) <= c /\ c <= CellOf(r.start + r.size)}

EntryOf(r) == Entry(r.start, r.size)

\* The list of a cell of no region.
IsBlank(q) == \E n \in {EMPTY_SIZE, INVALID_SIZE} : q = <<Entry(0, n)>>

\* The entries of S, each once.
Lists(q, S) ==
    /\ \A k \in DOMAIN q : \E r \in S : q[k] = EntryOf(r)
    /\ \A r \in S : \E k \in DOMAIN q : q[k] = EntryOf(r)
    /\ \A j, k \in DOMAIN q : q[j] = q[k] => j = k

CellOK(T, c, S) ==
    IF S = {} THEN IsBlank(At(T, c).list)
    ELSE T.t1[PageOf(c)] = "own" /\ Lists(T.t2[c].list, S)

\* The cells hold the regions.  The last page has no table of its own, so that
\* INVALID_POINTER stays one.
TableOK(T, R) ==
    /\ T \in Tables
    /\ T.t1[BOUND_T1_SIZE - 1] = "invalid"
    /\ \A c \in Cells : CellOK(T, c, Of(R, c))

-----------------------------------------------------------------------------
(* Lists of entries                                                        *)

LEMMA SeqIs ==
    ASSUME NEW q \in Seq(Entries)
    PROVE  Len(q) \in Nat /\ DOMAIN q = 1..Len(q) /\ \A k \in DOMAIN q : q[k] \in Entries
  OBVIOUS

LEMMA Concatenation ==
    ASSUME NEW a \in Seq(Entries), NEW b \in Seq(Entries), NEW i \in Nat, Len(a) = i,
           NEW j \in Nat, Len(b) = j
    PROVE  /\ a \o b \in Seq(Entries) /\ Len(a \o b) = i + j /\ DOMAIN (a \o b) = 1..i + j
           /\ \A x \in 1..i : (a \o b)[x] = a[x]
           /\ \A x \in 1..j : (a \o b)[i + x] = b[x]
  OBVIOUS

LEMMA RemoveAtIs ==
    ASSUME NEW q \in Seq(Entries), NEW n \in Nat, Len(q) = n, NEW k \in 1..n
    PROVE  /\ RemoveAt(q, k) \in Seq(Entries) /\ DOMAIN RemoveAt(q, k) = 1..n - 1
           /\ \A j \in 1..n - 1 : RemoveAt(q, k)[j] = q[IF j < k THEN j ELSE j + 1]
<1>1. PICK u \in Nat, v \in Nat : u = k - 1 /\ v = n - k
  OBVIOUS
<1>2. k = u + 1 /\ n = u + 1 + v /\ k \in Nat
  BY <1>1
<1>3. PICK a : a = SubSeq(q, 1, u)
  OBVIOUS
<1>4. /\ a \in Seq(Entries) /\ Len(a) = u /\ \A j \in 1..u : a[j] = q[j]
  BY <1>2, <1>3
<1>5. PICK b : b = SubSeq(q, k + 1, n)
  OBVIOUS
<1>6. /\ b \in Seq(Entries) /\ Len(b) = v /\ \A j \in 1..v : b[j] = q[k + j]
  BY <1>2, <1>5
<1>7. RemoveAt(q, k) = a \o b
  BY <1>1, <1>3, <1>5 DEF RemoveAt
<1>8. /\ a \o b \in Seq(Entries) /\ DOMAIN (a \o b) = 1..u + v
      /\ \A x \in 1..u : (a \o b)[x] = a[x]
      /\ \A x \in 1..v : (a \o b)[u + x] = b[x]
  BY <1>4, <1>6, Concatenation
<1>9. ASSUME NEW j \in 1..n - 1
      PROVE  (a \o b)[j] = q[IF j < k THEN j ELSE j + 1]
  <2>1. CASE j <= u
    <3>1. j \in 1..u /\ j < k
      BY <1>2, <2>1
    <3> QED
      BY <1>4, <1>8, <3>1
  <2>2. CASE j > u
    <3>1. j - u \in 1..v
      BY <1>2, <2>2
    <3>2. PICK y \in 1..v : y = j - u
      BY <3>1
    <3>3. j = u + y /\ k + y = j + 1 /\ ~ (j < k)
      BY <1>2, <3>2
    <3> QED
      BY <1>6, <1>8, <3>3
  <2>3. j <= u \/ j > u
    OBVIOUS
  <2> QED
    BY <2>1, <2>2, <2>3
<1>10. n - 1 = u + v
  BY <1>2
<1> QED
  BY <1>7, <1>8, <1>9, <1>10

LEMMA ListsMoved ==
    ASSUME NEW S, NEW q \in Seq(Entries), Lists(q, S), NEW k \in DOMAIN q, k # 1
    PROVE  MovedToHead(q, k) \in Seq(Entries) /\ Lists(MovedToHead(q, k), S)
<1>1. PICK n \in Nat : DOMAIN q = 1..n /\ Len(q) = n
  BY SeqIs
<1>2. PICK m : m = MovedToHead(q, k)
  OBVIOUS
<1>3. 1 \in 1..n /\ q[1] \in Entries /\ q[k] \in Entries /\ k \in 1..n
  BY <1>1
<1>4. /\ m \in Seq(Entries) /\ DOMAIN m = 1..n
      /\ m[1] = q[k] /\ m[k] = q[1] /\ \A j \in 1..n : j # 1 /\ j # k => m[j] = q[j]
  BY <1>1, <1>2, <1>3 DEF MovedToHead
<1>5. \A j \in 1..n : \E r \in S : m[j] = EntryOf(r)
  <2> TAKE j \in 1..n
  <2>1. PICK i \in 1..n : m[j] = q[i]
    BY <1>3, <1>4
  <2> QED
    BY <1>1, <2>1 DEF Lists
<1>6. \A r \in S : \E j \in 1..n : m[j] = EntryOf(r)
  <2> TAKE r \in S
  <2>1. PICK i \in 1..n : q[i] = EntryOf(r)
    BY <1>1 DEF Lists
  <2>2. PICK j \in 1..n : m[j] = q[i]
    <3>1. i = 1 \/ i = k \/ (i # 1 /\ i # k)
      OBVIOUS
    <3> QED
      BY <1>3, <1>4, <2>1, <3>1
  <2> QED
    BY <2>1, <2>2
<1>7. \A i, j \in 1..n : m[i] = m[j] => i = j
  <2>1. \A i, j \in 1..n : q[i] = q[j] => i = j
    BY <1>1 DEF Lists
  <2> TAKE i, j \in 1..n
  <2> QED
    BY <1>3, <1>4, <2>1
<1> QED
  BY <1>2, <1>4, <1>5, <1>6, <1>7 DEF Lists

LEMMA ListsOne ==
    ASSUME NEW r, EntryOf(r) \in Entries
    PROVE  <<EntryOf(r)>> \in Seq(Entries) /\ Lists(<<EntryOf(r)>>, {r})
<1>1. PICK e \in Entries : e = EntryOf(r)
  OBVIOUS
<1>2. PICK q : q = <<e>>
  OBVIOUS
<1>3. q \in Seq(Entries) /\ DOMAIN q = {1} /\ q[1] = e
  BY <1>2
<1>4. Lists(q, {r})
  BY <1>1, <1>3 DEF Lists
<1> QED
  BY <1>1, <1>2, <1>3, <1>4

LEMMA ListsFront ==
    ASSUME NEW S, NEW q \in Seq(Entries), Lists(q, S), NEW r, EntryOf(r) \in Entries,
           \A s \in S : EntryOf(s) # EntryOf(r)
    PROVE  /\ <<EntryOf(r)>> \o q \in Seq(Entries)
           /\ Lists(<<EntryOf(r)>> \o q, S \cup {r})
<1>1. PICK n \in Nat : DOMAIN q = 1..n /\ Len(q) = n
  BY SeqIs
<1>2. PICK e \in Entries : e = EntryOf(r)
  OBVIOUS
<1>3. PICK m : m = <<e>> \o q
  OBVIOUS
<1>4. /\ m \in Seq(Entries) /\ DOMAIN m = 1..n + 1
      /\ m[1] = e /\ \A j \in 2..n + 1 : m[j] = q[j - 1]
  <2>1. <<e>> \in Seq(Entries) /\ Len(<<e>>) = 1 /\ <<e>>[1] = e
    OBVIOUS
  <2> QED
    BY <1>1, <1>3, <2>1
<1>5. \A j \in 1..n : q[j] # e
  BY <1>1, <1>2 DEF Lists
<1>6. \A j \in 1..n + 1 : j = 1 \/ (j \in 2..n + 1 /\ j - 1 \in 1..n)
  OBVIOUS
<1>7. \A j \in 1..n + 1 : \E s \in S \cup {r} : m[j] = EntryOf(s)
  <2> TAKE j \in 1..n + 1
  <2>1. CASE j = 1
    BY <1>2, <1>4, <2>1
  <2>2. CASE j \in 2..n + 1 /\ j - 1 \in 1..n
    <3>1. \E s \in S : q[j - 1] = EntryOf(s)
      BY <1>1, <2>2 DEF Lists
    <3> QED
      BY <1>4, <2>2, <3>1
  <2> QED
    BY <1>6, <2>1, <2>2
<1>8. \A s \in S \cup {r} : \E j \in 1..n + 1 : m[j] = EntryOf(s)
  <2> TAKE s \in S \cup {r}
  <2>1. CASE s = r
    BY <1>2, <1>4, <2>1
  <2>2. CASE s \in S
    <3>1. PICK i \in 1..n : q[i] = EntryOf(s)
      BY <1>1, <2>2 DEF Lists
    <3>2. i + 1 \in 2..n + 1 /\ i + 1 \in 1..n + 1 /\ (i + 1) - 1 = i
      OBVIOUS
    <3>3. m[i + 1] = q[i]
      BY <1>4, <3>2
    <3> QED
      BY <3>1, <3>2, <3>3
  <2> QED
    BY <2>1, <2>2
<1>9. \A i, j \in 1..n + 1 : m[i] = m[j] => i = j
  <2>1. \A i, j \in 1..n : q[i] = q[j] => i = j
    BY <1>1 DEF Lists
  <2> TAKE i, j \in 1..n + 1
  <2>2. CASE i = 1 /\ j # 1
    BY <1>4, <1>5, <1>6, <2>2
  <2>3. CASE i # 1 /\ j = 1
    BY <1>4, <1>5, <1>6, <2>3
  <2>4. CASE i # 1 /\ j # 1
    <3>1. m[i] = q[i - 1] /\ m[j] = q[j - 1] /\ i - 1 \in 1..n /\ j - 1 \in 1..n
      BY <1>4, <1>6, <2>4
    <3>2. m[i] = m[j] => i - 1 = j - 1
      BY <2>1, <3>1
    <3> QED
      BY <3>2
  <2> QED
    BY <2>2, <2>3, <2>4
<1> QED
  BY <1>2, <1>3, <1>4, <1>7, <1>8, <1>9 DEF Lists

LEMMA ListsRemoved ==
    ASSUME NEW S, NEW q \in Seq(Entries), Lists(q, S), NEW k \in DOMAIN q, NEW r \in S,
           q[k] = EntryOf(r), \A s \in S : EntryOf(s) = EntryOf(r) => s = r
    PROVE  /\ RemoveAt(q, k) \in Seq(Entries)
           /\ Lists(RemoveAt(q, k), S \ {r})
<1>1. PICK n \in Nat : DOMAIN q = 1..n /\ Len(q) = n
  BY SeqIs
<1>2. PICK m : m = RemoveAt(q, k)
  OBVIOUS
<1>3. k \in 1..n /\ n - 1 \in Nat /\ k - 1 \in Nat
  BY <1>1
<1>4. /\ m \in Seq(Entries) /\ DOMAIN m = 1..n - 1
      /\ \A j \in 1..n - 1 : m[j] = q[IF j < k THEN j ELSE j + 1]
  BY <1>1, <1>2, <1>3, RemoveAtIs
<1>5. \A j \in 1..n - 1 : (IF j < k THEN j ELSE j + 1) \in 1..n \ {k}
  BY <1>3
<1>6. \A i, j \in 1..n : q[i] = q[j] => i = j
  BY <1>1 DEF Lists
<1>7. \A j \in 1..n - 1 : \E s \in S \ {r} : m[j] = EntryOf(s)
  <2> TAKE j \in 1..n - 1
  <2>1. PICK i \in 1..n \ {k} : m[j] = q[i]
    BY <1>4, <1>5
  <2>2. PICK s \in S : q[i] = EntryOf(s)
    BY <1>1, <2>1 DEF Lists
  <2>3. s # r
    BY <1>3, <1>6, <2>1, <2>2
  <2> QED
    BY <2>1, <2>2, <2>3
<1>8. \A s \in S \ {r} : \E j \in 1..n - 1 : m[j] = EntryOf(s)
  <2> TAKE s \in S \ {r}
  <2>1. PICK i \in 1..n : q[i] = EntryOf(s)
    BY <1>1 DEF Lists
  <2>2. i # k
    BY <2>1
  <2>3. CASE i < k
    <3>1. i \in 1..n - 1
      BY <1>3, <2>3
    <3> QED
      BY <1>4, <2>1, <2>3, <3>1
  <2>4. CASE i > k
    <3>1. i - 1 \in 1..n - 1 /\ ~ (i - 1 < k) /\ (i - 1) + 1 = i
      BY <1>3, <2>4
    <3>2. m[i - 1] = q[i]
      BY <1>4, <3>1
    <3> QED
      BY <2>1, <3>1, <3>2
  <2> QED
    BY <1>3, <2>2, <2>3, <2>4
<1>9. \A i, j \in 1..n - 1 : m[i] = m[j] => i = j
  <2> TAKE i, j \in 1..n - 1
  <2>1. PICK x \in 1..n, y \in 1..n : /\ x = IF i < k THEN i ELSE i + 1
                                      /\ y = IF j < k THEN j ELSE j + 1
    BY <1>5
  <2>2. x = y => i = j
    BY <1>3, <2>1
  <2>3. m[i] = q[x] /\ m[j] = q[y]
    BY <1>4, <2>1
  <2> QED
    BY <1>6, <2>2, <2>3
<1> QED
  BY <1>2, <1>4, <1>7, <1>8, <1>9 DEF Lists

\* The first entry for p, where there is one or none.
LEMMA PositionIs ==
    ASSUME NEW q, NEW n \in Nat, DOMAIN q = 1..n, NEW p, NEW k \in 1..n, Matches(q[k], p),
           \A j \in 1..n : Matches(q[j], p) => j = k
    PROVE  Position(q, p) = k
<1> DEFINE found == {j \in DOMAIN q : Matches(q[j], p)}
<1>1. found = {k}
  OBVIOUS
<1>2. k <= k
  OBVIOUS
<1> HIDE DEF found
<1>3. (CHOOSE x \in found : \A j \in found : x <= j) = k
  BY <1>1, <1>2
<1> QED
  BY <1>1, <1>3 DEF Position, found

LEMMA NoPosition ==
    ASSUME NEW q, NEW p, \A j \in DOMAIN q : ~ Matches(q[j], p)
    PROVE  Position(q, p) = 0
  BY DEF Position

-----------------------------------------------------------------------------
(* Regions, and which entries a pointer matches                            *)

LEMMA Modulus ==
    ASSUME NEW n \in Nat \ {0}, NEW x \in Int
    PROVE  /\ x % n \in 0..n - 1
           /\ 0 <= x /\ x < n => x % n = x
           /\ -n <= x /\ x < 0 => x % n = x + n
  OBVIOUS

LEMMA MatchesIs ==
    ASSUME NEW r \in RegionSet, r.start + r.size < LastPage, NEW p \in Address
    PROVE  /\ Matches(EntryOf(r), p) <=> p \in Bytes(r.start, r.size)
           /\ EntryOf(r) \in Entries /\ EntryOf(r).start = r.start /\ EntryOf(r).size = r.size
<1>1. PICK s \in Nat, n \in Nat : s = r.start /\ n = r.size
  BY DEF RegionSet
<1>2. /\ EntryOf(r) = [start |-> s, size |-> n]
      /\ EntryOf(r).start = s /\ EntryOf(r).size = n /\ EntryOf(r) \in Entries
  BY <1>1 DEF EntryOf, Entry, Entries
<1>3. p \in Nat /\ p < Space /\ s + n < Space /\ Space \in Nat \ {0}
  BY <1>1, Constants DEF Address
<1>4. PICK x \in Int, m \in Nat \ {0} :
         x = p - s /\ m = Space /\ -m <= x /\ x < m /\ s + n < m /\ p < m
  BY <1>3
<1>5. x % m <= n <=> s <= p /\ p <= s + n
  <2>1. CASE x >= 0
    <3>1. x % m = x
      BY <1>4, <2>1, Modulus
    <3> QED
      BY <1>3, <1>4, <2>1, <3>1
  <2>2. CASE x < 0
    <3>1. x % m = x + m
      BY <1>4, <2>2, Modulus
    <3>2. x + m > n
      BY <1>3, <1>4
    <3> QED
      BY <1>3, <1>4, <2>2, <3>1, <3>2
  <2> QED
    BY <1>4, <2>1, <2>2
<1>6. p \in Bytes(s, n) <=> s <= p /\ p <= s + n
  BY <1>3 DEF Bytes
<1> QED
  BY <1>1, <1>2, <1>4, <1>5, <1>6 DEF Matches, Minus

LEMMA ApartBytes ==
    ASSUME NEW r \in RegionSet, NEW s \in RegionSet
    PROVE  Abs!Apart(r, s) <=> Bytes(r.start, r.size) \cap Bytes(s.start, s.size) = {}
<1>1. PICK a \in Nat, m \in Nat, b \in Nat, n \in Nat :
         a = r.start /\ m = r.size /\ b = s.start /\ n = s.size
  BY DEF RegionSet
<1>2. a + m < b \/ b + n < a <=> (a..a + m) \cap (b..b + n) = {}
  <2>1. ASSUME a + m < b \/ b + n < a
        PROVE  (a..a + m) \cap (b..b + n) = {}
    BY <2>1
  <2>2. ASSUME a + m >= b, b + n >= a
        PROVE  (a..a + m) \cap (b..b + n) # {}
    <3>1. CASE a >= b
      <4>1. a \in a..a + m /\ a \in b..b + n
        BY <2>2, <3>1
      <4> QED
        BY <4>1
    <3>2. CASE a < b
      <4>1. b \in a..a + m /\ b \in b..b + n
        BY <2>2, <3>2
      <4> QED
        BY <4>1
    <3> QED
      BY <3>1, <3>2
  <2> QED
    BY <2>1, <2>2
<1> QED
  BY <1>1, <1>2 DEF Abs!Apart, Bytes

LEMMA OneRegion ==
    ASSUME NEW R, RegionsOK(R), NEW r \in R, NEW s \in R, NEW p,
           p \in Bytes(r.start, r.size), p \in Bytes(s.start, s.size)
    PROVE  r = s
<1>1. r \in RegionSet /\ s \in RegionSet /\ (r = s \/ Abs!Apart(r, s))
  BY DEF RegionsOK, Abs!AllApart
<1> QED
  BY <1>1, ApartBytes

\* The bytes of a region are below the last page.
LEMMA RegionIs ==
    ASSUME NEW R, RegionsOK(R), NEW r \in R
    PROVE  /\ r \in RegionSet /\ r.start \in Nat \ {0} /\ r.size \in Nat
           /\ r.start + r.size \in Nat /\ r.start + r.size < LastPage
           /\ \A p \in Bytes(r.start, r.size) : p \in Address /\ p < LastPage
           /\ r.start \in Bytes(r.start, r.size) /\ r.start + r.size \in Bytes(r.start, r.size)
<1>1. r \in RegionSet /\ r.start + r.size < LastPage
  BY DEF RegionsOK
<1>2. PICK s \in Nat, n \in Nat : s = r.start /\ n = r.size /\ s # 0
  BY <1>1 DEF RegionSet
<1>3. \A p \in s..s + n : p \in Address /\ p < LastPage
  BY <1>1, <1>2, Constants DEF Address
<1> QED
  BY <1>1, <1>2, <1>3 DEF Bytes

LEMMA SameEntry ==
    ASSUME NEW R, RegionsOK(R), NEW r \in R, NEW s \in R, EntryOf(r) = EntryOf(s)
    PROVE  r = s
<1>1. r.start = s.start /\ r.size = s.size
  BY DEF EntryOf, Entry
<1> QED
  BY <1>1, RegionIs, OneRegion

\* A pointer into a region leads to a cell that has to know it.
LEMMA OfPointer ==
    ASSUME NEW R, RegionsOK(R), NEW r \in R, NEW p, p \in Bytes(r.start, r.size)
    PROVE  p \in Address /\ CellOf(p) \in Cells /\ r \in Of(R, CellOf(p))
<1>1. PICK s \in Nat, n \in Nat : s = r.start /\ n = r.size /\ p \in s..s + n
  BY RegionIs DEF Bytes
<1>2. p \in Nat /\ p \in Address /\ p < Space /\ s <= p /\ p <= s + n /\ s + n \in Nat
  BY <1>1, RegionIs, Constants DEF Address
<1>3. CellOf(s) <= CellOf(p) /\ CellOf(p) <= CellOf(s + n) /\ CellOf(p) \in Cells
  BY <1>1, <1>2, CellOrder, CellIs
<1> QED
  BY <1>1, <1>2, <1>3 DEF Of

\* The cells of a region, and their pages.
LEMMA OfIs ==
    ASSUME NEW R, RegionsOK(R), NEW r \in R, NEW c \in Cells, r \in Of(R, c)
    PROVE  /\ CellOf(r.start) <= c /\ c <= CellOf(r.start + r.size)
           /\ PageOf(c) \in PageOf(CellOf(r.start)) .. PageOf(CellOf(r.start + r.size))
           /\ PageOf(c) # BOUND_T1_SIZE - 1
<1>1. PICK s \in Nat, e \in Nat : /\ s = r.start /\ e = r.start + r.size /\ e < LastPage
                                  /\ CellOf(s) <= c /\ c <= CellOf(e)
  BY RegionIs DEF Of
<1>2. c \in Nat /\ CellOf(s) \in Nat /\ CellOf(e) \in Nat /\ PageOf(CellOf(e)) < BOUND_T1_SIZE - 1
  BY <1>1, CellIs, PageIs
<1>3. /\ PageOf(CellOf(s)) \in Nat /\ PageOf(c) \in Nat /\ PageOf(CellOf(e)) \in Nat
  BY <1>2, Constants, Rounding DEF PageOf
<1>4. PageOf(CellOf(s)) <= PageOf(c) /\ PageOf(c) <= PageOf(CellOf(e))
  BY <1>1, <1>2, PageOrder
<1> QED
  BY <1>1, <1>2, <1>3, <1>4, Constants

\* A cell between the first and the last one of a region is no other one's.
LEMMA InnerCell ==
    ASSUME NEW R, RegionsOK(R), NEW r \in R, NEW c \in Cells,
           CellOf(r.start) < c, c < CellOf(r.start + r.size)
    PROVE  Of(R, c) = {r}
<1>1. PICK a \in Nat, e \in Nat : a = r.start /\ e = r.start + r.size /\ r.size \in Nat
  BY RegionIs
<1>2. c \in Nat /\ CellOf(a) \in Nat /\ CellOf(e) \in Nat /\ r \in Of(R, c)
  BY <1>1, CellIs, PageIs DEF Of
<1>3. ASSUME NEW s \in Of(R, c), s # r PROVE FALSE
  <2>1. s \in R /\ CellOf(s.start) <= c /\ c <= CellOf(s.start + s.size)
    BY DEF Of
  <2>2. PICK b \in Nat, f \in Nat : b = s.start /\ f = s.start + s.size /\ s.size \in Nat
    BY <2>1, RegionIs
  <2>3. Abs!Apart(r, s)
    BY <1>3, <2>1 DEF RegionsOK, Abs!AllApart
  <2>4. e < b \/ f < a
    BY <1>1, <2>2, <2>3 DEF Abs!Apart
  <2>5. CellOf(b) \in Nat /\ CellOf(f) \in Nat
    BY CellIs
  <2>6. CASE e < b
    <3>1. CellOf(e) <= CellOf(b)
      BY <2>6, CellOrder
    <3> QED
      BY <1>1, <1>2, <2>1, <2>2, <2>5, <3>1
  <2>7. CASE f < a
    <3>1. CellOf(f) <= CellOf(a)
      BY <2>7, CellOrder
    <3> QED
      BY <1>1, <1>2, <2>1, <2>2, <2>5, <3>1
  <2> QED
    BY <2>4, <2>6, <2>7
<1> QED
  BY <1>2, <1>3

\* Where a pointer into a region is found in a list with its entry.
LEMMA InList ==
    ASSUME NEW R, RegionsOK(R), NEW S \in SUBSET R, NEW q \in Seq(Entries), Lists(q, S),
           NEW r \in S, NEW p, p \in Bytes(r.start, r.size)
    PROVE  Position(q, p) \in DOMAIN q /\ q[Position(q, p)] = EntryOf(r)
<1>1. PICK n \in Nat : DOMAIN q = 1..n /\ Len(q) = n
  BY SeqIs
<1>2. PICK k \in 1..n : q[k] = EntryOf(r)
  BY <1>1 DEF Lists
<1>3. p \in Address
  BY OfPointer
<1>4. Matches(q[k], p)
  BY <1>2, <1>3, RegionIs, MatchesIs
<1>5. ASSUME NEW j \in 1..n, Matches(q[j], p) PROVE j = k
  <2>1. PICK s \in S : q[j] = EntryOf(s)
    BY <1>1 DEF Lists
  <2>2. p \in Bytes(s.start, s.size)
    BY <1>3, <1>5, <2>1, RegionIs, MatchesIs
  <2>3. s = r
    BY <2>2, OneRegion
  <2> QED
    BY <1>1, <1>2, <2>1, <2>3 DEF Lists
<1>6. Position(q, p) = k
  BY <1>1, <1>4, <1>5, PositionIs
<1> QED
  BY <1>1, <1>2, <1>6

LEMMA NotInList ==
    ASSUME NEW R, RegionsOK(R), NEW S \in SUBSET R, NEW q \in Seq(Entries), Lists(q, S),
           NEW p \in Address, \A r \in S : p \notin Bytes(r.start, r.size)
    PROVE  Position(q, p) = 0
<1>1. ASSUME NEW j \in DOMAIN q, Matches(q[j], p) PROVE FALSE
  <2>1. PICK s \in S : q[j] = EntryOf(s)
    BY DEF Lists
  <2> QED
    BY <1>1, <2>1, RegionIs, MatchesIs
<1> QED
  BY <1>1, NoPosition

-----------------------------------------------------------------------------
(* Lookups                                                                 *)

CellRecords == [list : Seq(Entries), is_invalid : BOOLEAN]

LEMMA AtIs ==
    ASSUME NEW T \in Tables, NEW c \in Cells
    PROVE  /\ T.t1[PageOf(c)] = "own" => At(T, c) = T.t2[c]
           /\ T.t1[PageOf(c)] = "empty" => At(T, c) = EmptyCell
           /\ T.t1[PageOf(c)] = "invalid" => At(T, c) = InvalidCell
           /\ T.t1[PageOf(c)] \in {"own", "empty", "invalid"}
           /\ T.t2[c] \in CellRecords
<1>1. T.t1[PageOf(c)] \in {"own", "empty", "invalid"} /\ T.t2[c] \in CellRecords
  BY PageIs DEF Tables, CellRecords
<1> QED
  BY <1>1 DEF At

LEMMA BlankIs ==
    ASSUME NEW n \in {EMPTY_SIZE, INVALID_SIZE}
    PROVE  /\ Entry(0, n) \in Entries /\ Entry(0, n).start = 0
           /\ <<Entry(0, n)>> \in Seq(Entries) /\ IsBlank(<<Entry(0, n)>>)
<1>1. n \in Nat
  BY Constants DEF EMPTY_SIZE, INVALID_SIZE
<1>2. Entry(0, n) \in Entries /\ Entry(0, n).start = 0
  BY <1>1 DEF Entry, Entries
<1>3. <<Entry(0, n)>> \in Seq(Entries)
  BY <1>2
<1> QED
  BY <1>2, <1>3 DEF IsBlank

\* A list of no region has one entry, and a lookup in it finds that or nothing.
LEMMA Blank ==
    ASSUME NEW q, IsBlank(q), NEW p
    PROVE  /\ q \in Seq(Entries) /\ DOMAIN q = {1} /\ Len(q) = 1
           /\ q[1] \in {Entry(0, EMPTY_SIZE), Entry(0, INVALID_SIZE)} /\ q[1].start = 0
           /\ Position(q, p) \in {0, 1}
<1>1. PICK n \in {EMPTY_SIZE, INVALID_SIZE} : q = <<Entry(0, n)>>
  BY DEF IsBlank
<1>2. PICK e \in Entries : e = Entry(0, n) /\ q = <<e>> /\ e.start = 0
  BY <1>1, BlankIs
<1>3. q \in Seq(Entries) /\ DOMAIN q = {1} /\ Len(q) = 1 /\ q[1] = e
  BY <1>2
<1>4. Position(q, p) \in {0, 1}
  <2>1. CASE Matches(q[1], p)
    <3>1. PICK m \in Nat : m = 1
      OBVIOUS
    <3>2. DOMAIN q = 1..m /\ m \in 1..m /\ Matches(q[m], p) /\ \A j \in 1..m : j = m
      BY <1>3, <2>1, <3>1
    <3>3. Position(q, p) = m
      BY <3>2, PositionIs
    <3> QED
      BY <3>1, <3>3
  <2>2. CASE ~ Matches(q[1], p)
    <3>1. Position(q, p) = 0
      BY <1>3, <2>2, NoPosition
    <3> QED
      BY <3>1
  <2> QED
    BY <2>1, <2>2
<1>5. e \in {Entry(0, EMPTY_SIZE), Entry(0, INVALID_SIZE)}
  BY <1>1, <1>2
<1> QED
  BY <1>2, <1>3, <1>4, <1>5

LEMMA ConstantCells ==
    /\ EmptyCell \in CellRecords /\ IsBlank(EmptyCell.list)
    /\ EmptyCell.list[1] = Entry(0, EMPTY_SIZE)
    /\ InvalidCell \in CellRecords /\ IsBlank(InvalidCell.list)
    /\ InvalidCell.list[1] = Entry(0, INVALID_SIZE) /\ InvalidCell.is_invalid
<1>1. ASSUME NEW n \in {EMPTY_SIZE, INVALID_SIZE}, NEW b \in BOOLEAN
      PROVE  /\ Cell(n, b) \in CellRecords /\ IsBlank(Cell(n, b).list)
             /\ Cell(n, b).list[1] = Entry(0, n) /\ Cell(n, b).is_invalid = b
  <2>1. PICK q \in Seq(Entries) : q = <<Entry(0, n)>> /\ IsBlank(q)
    BY BlankIs
  <2>2. Cell(n, b) = [list |-> q, is_invalid |-> b]
    BY <2>1 DEF Cell
  <2>3. q[1] = Entry(0, n)
    BY <2>1
  <2>4. Cell(n, b).list = q /\ Cell(n, b).is_invalid = b
    BY <2>2
  <2>5. Cell(n, b) \in CellRecords
    <3>1. [list |-> q, is_invalid |-> b] \in [list : Seq(Entries), is_invalid : BOOLEAN]
      BY Zenon
    <3> QED
      BY <2>2, <3>1, Zenon DEF CellRecords
  <2> QED
    BY <2>1, <2>3, <2>4, <2>5
<1>2. EMPTY_SIZE \in {EMPTY_SIZE, INVALID_SIZE} /\ INVALID_SIZE \in {EMPTY_SIZE, INVALID_SIZE}
  OBVIOUS
<1>3. /\ EmptyCell \in CellRecords /\ IsBlank(EmptyCell.list)
      /\ EmptyCell.list[1] = Entry(0, EMPTY_SIZE)
  BY <1>1, <1>2, Zenon DEF EmptyCell
<1>4. /\ InvalidCell \in CellRecords /\ IsBlank(InvalidCell.list)
      /\ InvalidCell.list[1] = Entry(0, INVALID_SIZE) /\ InvalidCell.is_invalid
  <2>1. InvalidCell.is_invalid = TRUE
    BY <1>1, <1>2, Zenon DEF InvalidCell
  <2> QED
    BY <1>1, <1>2, <2>1, Zenon DEF InvalidCell
<1> QED
  BY <1>3, <1>4

\* What a cell holds.
LEMMA CellHolds ==
    ASSUME NEW T, NEW R, TableOK(T, R), NEW c \in Cells
    PROVE  /\ Of(R, c) = {} => IsBlank(At(T, c).list)
           /\ Of(R, c) # {} => /\ T.t1[PageOf(c)] = "own" /\ At(T, c) = T.t2[c]
                               /\ T.t2[c].list \in Seq(Entries) /\ Lists(T.t2[c].list, Of(R, c))
           /\ T \in Tables
<1>1. T \in Tables /\ CellOK(T, c, Of(R, c))
  BY DEF TableOK
<1>2. T.t2[c].list \in Seq(Entries)
  BY <1>1, AtIs DEF CellRecords
<1> QED
  BY <1>1, <1>2, AtIs DEF CellOK

Blanks == {Entry(0, EMPTY_SIZE), Entry(0, INVALID_SIZE)}

\* A lookup finds the region that the pointer is in, wherever its entry is.
LEMMA FoundIs ==
    ASSUME NEW T, NEW R, TableOK(T, R), RegionsOK(R), NEW p \in Address
    PROVE  /\ \A r \in R : p \in Bytes(r.start, r.size) => Found(T, p) = EntryOf(r)
           /\ (\A r \in R : p \notin Bytes(r.start, r.size)) => Found(T, p) \in Blanks
<1>1. PICK c \in Cells : c = CellOf(p)
  BY CellIs, Constants DEF Address
<1>2. Of(R, c) \subseteq R
  BY DEF Of
<1>3. ASSUME NEW r \in R, p \in Bytes(r.start, r.size) PROVE Found(T, p) = EntryOf(r)
  <2>1. r \in Of(R, c)
    BY <1>1, <1>3, OfPointer
  <2>2. PICK q \in Seq(Entries) : q = At(T, c).list /\ Lists(q, Of(R, c))
    BY <2>1, CellHolds
  <2>3. Position(q, p) \in DOMAIN q /\ q[Position(q, p)] = EntryOf(r)
    BY <1>2, <1>3, <2>1, <2>2, InList
  <2>4. PICK k \in DOMAIN q : k = Position(q, p) /\ q[k] = EntryOf(r)
    BY <2>3
  <2>5. k > 0
    BY <2>4, SeqIs
  <2> QED
    BY <1>1, <2>2, <2>4, <2>5 DEF Found
<1>4. ASSUME \A r \in R : p \notin Bytes(r.start, r.size) PROVE Found(T, p) \in Blanks
  <2>1. PICK q, b : q = At(T, c).list /\ b = At(T, c).is_invalid
    OBVIOUS
  <2>2. Position(q, p) = 0 \/ (Position(q, p) = 1 /\ q[1] \in Blanks)
    <3>1. CASE Of(R, c) = {}
      BY <2>1, <3>1, CellHolds, Blank DEF Blanks
    <3>2. CASE Of(R, c) # {}
      BY <1>2, <1>4, <2>1, <3>2, CellHolds, NotInList
    <3> QED
      BY <3>1, <3>2
  <2>3. CASE Position(q, p) = 0
    <3>1. Found(T, p) = IF b THEN InvalidCell.list[1] ELSE EmptyCell.list[1]
      BY <1>1, <2>1, <2>3 DEF Found
    <3> QED
      BY <3>1, ConstantCells DEF Blanks
  <2>4. CASE Position(q, p) = 1 /\ q[1] \in Blanks
    BY <1>1, <2>1, <2>4 DEF Found
  <2> QED
    BY <2>2, <2>3, <2>4
<1> QED
  BY <1>3, <1>4

\* A lookup moves entries within one list.
LEMMA LookedOK ==
    ASSUME NEW T, NEW R, TableOK(T, R), RegionsOK(R), NEW p \in Address
    PROVE  TableOK(Looked(T, p), R)
<1>1. PICK c \in Cells : c = CellOf(p)
  BY CellIs, Constants DEF Address
<1>2. PICK k : k = Position(At(T, c).list, p)
  OBVIOUS
<1>3. CASE k <= 1
  <2>1. Looked(T, p) = T
    BY <1>1, <1>2, <1>3 DEF Looked
  <2> QED
    BY <2>1
<1>4. CASE ~ (k <= 1)
  <2>1. Of(R, c) # {}
    <3> SUFFICES ASSUME Of(R, c) = {} PROVE FALSE
      OBVIOUS
    <3>1. k \in {0, 1}
      BY <1>2, CellHolds, Blank
    <3> QED
      BY <1>4, <3>1
  <2>2. PICK q \in Seq(Entries) :
           q = T.t2[c].list /\ Lists(q, Of(R, c)) /\ k = Position(q, p)
    BY <1>2, <2>1, CellHolds
  <2>3. Of(R, c) \subseteq R /\ T \in Tables /\ T.t1[PageOf(c)] = "own"
    BY <2>1, CellHolds DEF Of
  <2>4. k \in DOMAIN q /\ k # 1
    <3>1. CASE \E r \in Of(R, c) : p \in Bytes(r.start, r.size)
      BY <1>4, <2>2, <2>3, <3>1, InList
    <3>2. CASE ~ \E r \in Of(R, c) : p \in Bytes(r.start, r.size)
      BY <1>4, <2>2, <2>3, <3>2, NotInList
    <3> QED
      BY <3>1, <3>2
  <2>5. PICK m \in Seq(Entries) : m = MovedToHead(q, k) /\ Lists(m, Of(R, c))
    BY <2>2, <2>4, ListsMoved
  <2>6. Looked(T, p) = [T EXCEPT !.t2[c].list = m]
    BY <1>1, <1>2, <1>4, <2>2, <2>5 DEF Looked
  <2>7. PICK L : L = [T EXCEPT !.t2[c].list = m]
    OBVIOUS
  <2>8. L \in Tables
    BY <2>3, <2>7 DEF Tables
  <2>9. L.t1 = T.t1 /\ L.t2[c].list = m /\ \A d \in Cells \ {c} : L.t2[d] = T.t2[d]
    BY <2>3, <2>7 DEF Tables
  <2>10. ASSUME NEW d \in Cells PROVE CellOK(L, d, Of(R, d))
    <3>1. CASE d = c
      BY <2>1, <2>3, <2>5, <2>9, <3>1 DEF CellOK
    <3>2. CASE d # c
      <4>1. At(L, d) = At(T, d)
        BY <2>9, <3>2 DEF At
      <4> QED
        BY <2>9, <3>2, <4>1 DEF CellOK, TableOK
    <3> QED
      BY <3>1, <3>2
  <2> QED
    BY <2>6, <2>7, <2>8, <2>9, <2>10 DEF TableOK
<1> QED
  BY <1>3, <1>4

-----------------------------------------------------------------------------
(* The tables of new regions and of deleted ones                           *)

LEMMA OwnedIs ==
    ASSUME NEW T \in Tables, NEW i \in Int, NEW j \in Int
    PROVE  /\ Owned(T, i, j) \in Tables
           /\ \A g \in Pages : Owned(T, i, j).t1[g] =
                 IF g \in i..j THEN "own" ELSE T.t1[g]
           /\ \A c \in Cells : Owned(T, i, j).t2[c] =
                 IF PageOf(c) \in i..j /\ T.t1[PageOf(c)] # "own" THEN EmptyCell ELSE T.t2[c]
<1> DEFINE new == {g \in i..j : T.t1[g] # "own"}
           f == [g \in Pages |-> IF g \in new THEN "own" ELSE T.t1[g]]
           h == [c \in Cells |-> IF PageOf(c) \in new THEN EmptyCell ELSE T.t2[c]]
<1>1. Owned(T, i, j) = [t1 |-> f, t2 |-> h]
  BY DEF Owned
<1>2. f \in [Pages -> {"own", "empty", "invalid"}]
  BY DEF Tables
<1>3. h \in [Cells -> CellRecords]
  BY ConstantCells DEF Tables, CellRecords
<1>4. \A g \in Pages : f[g] = IF g \in i..j THEN "own" ELSE T.t1[g]
  OBVIOUS
<1>5. \A c \in Cells :
         h[c] = IF PageOf(c) \in i..j /\ T.t1[PageOf(c)] # "own" THEN EmptyCell ELSE T.t2[c]
  OBVIOUS
<1> HIDE DEF f, h
<1>6. PICK u, v : u = f /\ v = h
  OBVIOUS
<1>7. [t1 |-> u, t2 |-> v] \in Tables
  BY <1>2, <1>3, <1>6 DEF Tables, CellRecords
<1> QED
  BY <1>1, <1>4, <1>5, <1>6, <1>7

\* Pages are made without a change to what the cells hold.
LEMMA OwnedOK ==
    ASSUME NEW T, NEW R, TableOK(T, R), NEW i \in Int, NEW j \in Int, j < BOUND_T1_SIZE - 1
    PROVE  TableOK(Owned(T, i, j), R)
<1>1. T \in Tables
  BY DEF TableOK
<1>2. PICK O \in Tables : O = Owned(T, i, j)
  BY <1>1, OwnedIs
<1>3. /\ \A g \in Pages : O.t1[g] = IF g \in i..j THEN "own" ELSE T.t1[g]
      /\ \A c \in Cells : O.t2[c] =
            IF PageOf(c) \in i..j /\ T.t1[PageOf(c)] # "own" THEN EmptyCell ELSE T.t2[c]
  BY <1>1, <1>2, OwnedIs
<1>4. O.t1[BOUND_T1_SIZE - 1] = "invalid"
  <2>1. BOUND_T1_SIZE - 1 \in Pages /\ BOUND_T1_SIZE - 1 \notin i..j
    BY Constants DEF Pages
  <2> QED
    BY <1>3, <2>1 DEF TableOK
<1>5. ASSUME NEW c \in Cells PROVE CellOK(O, c, Of(R, c))
  <2>1. PICK S : S = Of(R, c)
    OBVIOUS
  <2>2. CellOK(T, c, S) /\ PageOf(c) \in Pages
    BY <2>1, PageIs DEF TableOK
  <2>3. CASE S # {}
    <3>1. T.t1[PageOf(c)] = "own" /\ O.t1[PageOf(c)] = "own" /\ O.t2[c] = T.t2[c]
      BY <1>3, <2>2, <2>3 DEF CellOK
    <3> QED
      BY <2>1, <2>2, <2>3, <3>1 DEF CellOK
  <2>4. CASE S = {}
    <3>1. CASE O.t1[PageOf(c)] = T.t1[PageOf(c)]
      <4>1. O.t2[c] = T.t2[c] \/ T.t1[PageOf(c)] # "own"
        BY <1>3
      <4>2. At(O, c) = At(T, c)
        BY <1>1, <1>2, <3>1, <4>1, AtIs
      <4> QED
        BY <2>1, <2>2, <2>4, <4>2 DEF CellOK
    <3>2. CASE O.t1[PageOf(c)] # T.t1[PageOf(c)]
      <4>1. O.t1[PageOf(c)] = "own" /\ O.t2[c] = EmptyCell
        BY <1>3, <2>2, <3>2
      <4>2. At(O, c) = EmptyCell
        BY <1>2, <4>1, AtIs
      <4> QED
        BY <2>1, <2>4, <4>2, ConstantCells DEF CellOK
    <3> QED
      BY <3>1, <3>2
  <2> QED
    BY <2>1, <2>3, <2>4
<1> QED
  BY <1>2, <1>4, <1>5 DEF TableOK

\* In a cell with one entry, the assignment to it is an assignment of the list.
LEMMA CellSet ==
    ASSUME NEW cell \in CellRecords, DOMAIN cell.list = {1}, NEW e \in Entries
    PROVE  /\ [cell EXCEPT !.list[1] = e] \in CellRecords
           /\ [cell EXCEPT !.list[1] = e].list = <<e>>
<1>1. PICK q, b : cell = [list |-> q, is_invalid |-> b] /\ q = cell.list
                  /\ q \in Seq(Entries) /\ b \in BOOLEAN
  BY Zenon DEF CellRecords
<1>2. [q EXCEPT ![1] = e] = <<e>> /\ <<e>> \in Seq(Entries)
  BY <1>1
<1>3. PICK m : m = [cell EXCEPT !.list[1] = e]
  OBVIOUS
<1>4. m = [list |-> <<e>>, is_invalid |-> b]
  BY <1>1, <1>2, <1>3
<1>5. m.list = <<e>>
  BY <1>4
<1>6. [list |-> <<e>>, is_invalid |-> b] \in [list : Seq(Entries), is_invalid : BOOLEAN]
  BY <1>1, <1>2, Zenon
<1>7. m \in CellRecords
  BY <1>4, <1>6, Zenon DEF CellRecords
<1> QED
  BY <1>3, <1>5, <1>7

LEMMA CellList ==
    ASSUME NEW cell \in CellRecords, NEW q \in Seq(Entries)
    PROVE  /\ [cell EXCEPT !.list = q] \in CellRecords
           /\ [cell EXCEPT !.list = q].list = q
<1>1. PICK l, b : cell = [list |-> l, is_invalid |-> b] /\ b \in BOOLEAN
  BY Zenon DEF CellRecords
<1>2. PICK m : m = [cell EXCEPT !.list = q]
  OBVIOUS
<1>3. m = [list |-> q, is_invalid |-> b]
  BY <1>1, <1>2
<1>4. m.list = q
  BY <1>3
<1>5. [list |-> q, is_invalid |-> b] \in [list : Seq(Entries), is_invalid : BOOLEAN]
  BY <1>1, Zenon
<1>6. m \in CellRecords
  BY <1>3, <1>5, Zenon DEF CellRecords
<1> QED
  BY <1>2, <1>4, <1>6

\* What a cell of its own holds.
Holds(cell, S) ==
    /\ cell \in CellRecords
    /\ IF S = {} THEN IsBlank(cell.list) ELSE Lists(cell.list, S)

LEMMA OwnCell ==
    ASSUME NEW T \in Tables, NEW c \in Cells, T.t1[PageOf(c)] = "own", NEW S
    PROVE  CellOK(T, c, S) <=> Holds(T.t2[c], S)
  BY AtIs DEF CellOK, Holds

LEMMA add_regionIs ==
    ASSUME NEW R, RegionsOK(R), NEW S \in SUBSET R, NEW cell, Holds(cell, S),
           NEW r, EntryOf(r) \in Entries, \A s \in S : EntryOf(s) # EntryOf(r)
    PROVE  Holds(add_region(cell, EntryOf(r)), S \cup {r})
<1>1. PICK e \in Entries : e = EntryOf(r)
  OBVIOUS
<1>2. PICK q : q = cell.list
  OBVIOUS
<1>3. cell \in CellRecords /\ q \in Seq(Entries)
  BY <1>2, Zenon DEF Holds, CellRecords
<1>4. CASE S = {}
  <2>1. DOMAIN q = {1} /\ q[1].start = 0
    BY <1>2, <1>4, Blank DEF Holds
  <2>2. add_region(cell, e) = [cell EXCEPT !.list[1] = e]
    BY <1>2, <2>1 DEF add_region
  <2>3. add_region(cell, e) \in CellRecords /\ add_region(cell, e).list = <<e>>
    BY <1>2, <1>3, <2>1, <2>2, CellSet
  <2>4. Lists(<<e>>, {r})
    BY <1>1, ListsOne
  <2>5. S \cup {r} = {r} /\ {r} # {}
    BY <1>4
  <2> QED
    BY <1>1, <2>3, <2>4, <2>5 DEF Holds
<1>5. CASE S # {}
  <2>1. Lists(q, S)
    BY <1>2, <1>5 DEF Holds
  <2>2. PICK n \in Nat : DOMAIN q = 1..n /\ Len(q) = n
    BY <1>3, SeqIs
  <2>3. 1 \in DOMAIN q
    <3>1. PICK s \in S, k \in DOMAIN q : q[k] = EntryOf(s)
      BY <1>5, <2>1 DEF Lists
    <3> QED
      BY <2>2, <3>1
  <2>4. q[1].start # 0
    <3>1. PICK s \in S : q[1] = EntryOf(s)
      BY <2>1, <2>3 DEF Lists
    <3>2. s.start # 0
      BY RegionIs
    <3> QED
      BY <3>1, <3>2 DEF EntryOf, Entry
  <2>5. add_region(cell, e) = [cell EXCEPT !.list = <<e>> \o q]
    BY <1>2, <2>4 DEF add_region
  <2>6. PICK m \in Seq(Entries) : m = <<e>> \o q /\ Lists(m, S \cup {r})
    BY <1>1, <1>3, <2>1, ListsFront
  <2>7. add_region(cell, e) \in CellRecords /\ add_region(cell, e).list = m
    BY <1>3, <2>5, <2>6, CellList
  <2>8. S \cup {r} # {}
    OBVIOUS
  <2> QED
    BY <1>1, <2>6, <2>7, <2>8 DEF Holds
<1> QED
  BY <1>4, <1>5

LEMMA OfNew ==
    ASSUME NEW R, NEW r, NEW c
    PROVE  Of(R \cup {r}, c) =
              IF CellOf(r.start) <= c /\ c <= CellOf(r.start + r.size)
              THEN Of(R, c) \cup {r} ELSE Of(R, c)
  BY DEF Of

LEMMA FewerOK ==
    ASSUME NEW R, RegionsOK(R), NEW Q, Q \subseteq R
    PROVE  RegionsOK(Q)
  BY DEF RegionsOK, Abs!AllApart

\* The cells from the first to the last one of a region, and their pages.
LEMMA CellsOf ==
    ASSUME NEW r \in RegionSet, r.start + r.size < LastPage
    PROVE  /\ CellOf(r.start) \in Cells /\ CellOf(r.start + r.size) \in Cells
           /\ CellOf(r.start) <= CellOf(r.start + r.size)
           /\ PageOf(CellOf(r.start)) \in Int /\ PageOf(CellOf(r.start + r.size)) \in Int
           /\ PageOf(CellOf(r.start + r.size)) < BOUND_T1_SIZE - 1
           /\ \A c \in Cells : CellOf(r.start) <= c /\ c <= CellOf(r.start + r.size) =>
                 PageOf(c) \in PageOf(CellOf(r.start)) .. PageOf(CellOf(r.start + r.size))
<1>1. PICK a \in Nat, e \in Nat : a = r.start /\ e = r.start + r.size /\ a <= e /\ e < LastPage
  BY DEF RegionSet
<1>2. a < Space /\ e < Space
  BY <1>1, Constants
<1>3. CellOf(a) \in Cells /\ CellOf(e) \in Cells /\ CellOf(a) <= CellOf(e)
  BY <1>1, <1>2, CellIs, CellOrder
<1>4. PICK u \in Cells, v \in Cells : u = CellOf(a) /\ v = CellOf(e)
  BY <1>3
<1>5. PageOf(u) \in Nat /\ PageOf(v) \in Nat /\ PageOf(v) < BOUND_T1_SIZE - 1
  <2>1. PageOf(v) < BOUND_T1_SIZE - 1
    BY <1>1, <1>4, CellIs
  <2> QED
    BY <2>1, PageIs DEF Pages
<1>6. ASSUME NEW c \in Cells, u <= c, c <= v PROVE PageOf(c) \in PageOf(u)..PageOf(v)
  <2>1. u \in Nat /\ v \in Nat /\ c \in Nat /\ PageOf(c) \in Nat
    BY PageIs DEF Pages
  <2>2. PageOf(u) <= PageOf(c) /\ PageOf(c) <= PageOf(v)
    BY <1>6, <2>1, PageOrder
  <2> QED
    BY <1>5, <2>1, <2>2
<1> QED
  BY <1>1, <1>3, <1>4, <1>5, <1>6

LEMMA NewRegionOK ==
    ASSUME NEW T, NEW R, TableOK(T, R), NEW r, r \notin R, RegionsOK(R \cup {r})
    PROVE  TableOK(NewRegion(T, r.start, r.size), R \cup {r})
<1> DEFINE first == CellOf(r.start)
           last  == CellOf(r.start + r.size)
           e     == EntryOf(r)
<1>1. r \in RegionSet /\ r.start + r.size < LastPage /\ RegionsOK(R)
  BY FewerOK DEF RegionsOK
<1>2. /\ first \in Cells /\ last \in Cells /\ first <= last
      /\ PageOf(first) \in Int /\ PageOf(last) \in Int /\ PageOf(last) < BOUND_T1_SIZE - 1
      /\ \A c \in Cells : first <= c /\ c <= last => PageOf(c) \in PageOf(first)..PageOf(last)
  BY <1>1, CellsOf
<1>3. e \in Entries /\ \A s \in R : EntryOf(s) # e
  <2>1. e \in Entries
    BY <1>1 DEF RegionSet, EntryOf, Entry, Entries
  <2>2. ASSUME NEW s \in R, EntryOf(s) = e PROVE FALSE
    BY <2>2, SameEntry
  <2> QED
    BY <2>1, <2>2
<1>4. e = Entry(r.start, r.size)
  BY DEF EntryOf
<1> HIDE DEF first, last, e
<1>5. PICK O : O = Owned(T, PageOf(first), PageOf(last)) /\ TableOK(O, R) /\ O \in Tables
  BY <1>2, OwnedOK DEF TableOK
<1>6. \A g \in Pages : g \in PageOf(first)..PageOf(last) => O.t1[g] = "own"
  BY <1>2, <1>5, OwnedIs DEF TableOK
<1>7. PICK h : h = [c \in Cells |->
            IF c \in {first, last} THEN add_region(O.t2[c], e)
            ELSE IF first < c /\ c < last THEN [O.t2[c] EXCEPT !.list[1] = e]
            ELSE O.t2[c]]
  OBVIOUS
<1>8. NewRegion(T, r.start, r.size) = [O EXCEPT !.t2 = h]
  BY <1>4, <1>5, <1>7 DEF NewRegion, first, last
<1>9. ASSUME NEW c \in Cells
      PROVE  /\ h[c] \in CellRecords
             /\ O.t1[PageOf(c)] = "own" => Holds(h[c], Of(R \cup {r}, c))
             /\ O.t1[PageOf(c)] # "own" => h[c] = O.t2[c] /\ Of(R \cup {r}, c) = Of(R, c)
  <2>1. PICK S \in SUBSET R : S = Of(R, c)
    BY DEF Of
  <2>2. CellOK(O, c, S) /\ O.t2[c] \in CellRecords /\ PageOf(c) \in Pages
    BY <1>5, <2>1, AtIs, PageIs DEF TableOK
  <2>3. O.t1[PageOf(c)] = "own" => Holds(O.t2[c], S)
    BY <1>5, <2>2, OwnCell
  <2>4. first \in Int /\ last \in Int /\ c \in Int
    BY <1>2, PageIs
  <2>5. CASE first <= c /\ c <= last
    <3>1. O.t1[PageOf(c)] = "own" /\ Of(R \cup {r}, c) = S \cup {r}
      BY <1>2, <1>6, <2>1, <2>2, <2>5, OfNew DEF first, last
    <3>2. CASE c \in {first, last}
      <4>1. h[c] = add_region(O.t2[c], e)
        BY <1>7, <3>2
      <4>2. Holds(add_region(O.t2[c], e), S \cup {r})
        BY <1>1, <1>3, <2>3, <3>1, add_regionIs DEF e
      <4> QED
        BY <3>1, <4>1, <4>2 DEF Holds
    <3>3. CASE c \notin {first, last}
      <4>1. first < c /\ c < last
        BY <2>4, <2>5, <3>3
      <4>2. h[c] = [O.t2[c] EXCEPT !.list[1] = e]
        BY <1>7, <3>3, <4>1
      <4>3. S \cup {r} = {r}
        BY <3>1, <4>1, InnerCell DEF first, last
      <4>4. S = {}
        BY <4>3
      <4>5. DOMAIN O.t2[c].list = {1}
        BY <2>3, <3>1, <4>4, Blank DEF Holds
      <4>6. h[c] \in CellRecords /\ h[c].list = <<e>>
        BY <1>3, <2>2, <4>2, <4>5, CellSet
      <4>7. Lists(<<e>>, {r})
        BY <1>3, ListsOne DEF e
      <4>8. Holds(h[c], {r})
        BY <4>6, <4>7 DEF Holds
      <4> QED
        BY <3>1, <4>3, <4>6, <4>8
    <3> QED
      BY <3>2, <3>3
  <2>6. CASE ~ (first <= c /\ c <= last)
    <3>1. c \notin {first, last} /\ ~ (first < c /\ c < last)
      BY <1>2, <2>4, <2>6
    <3>2. h[c] = O.t2[c]
      BY <1>7, <3>1
    <3>3. Of(R \cup {r}, c) = S
      BY <2>1, <2>6, OfNew DEF first, last
    <3> QED
      BY <2>1, <2>2, <2>3, <3>2, <3>3
  <2> QED
    BY <2>5, <2>6
<1>10. PICK N : N = [O EXCEPT !.t2 = h]
  OBVIOUS
<1>11. N.t1 = O.t1 /\ N.t2 = h /\ N \in Tables
  <2>1. h \in [Cells -> CellRecords]
    BY <1>7, <1>9
  <2>2. N.t1 = O.t1 /\ N.t2 = h
    BY <1>5, <1>10 DEF Tables
  <2> QED
    BY <1>5, <1>10, <2>1 DEF Tables, CellRecords
<1>12. ASSUME NEW c \in Cells PROVE CellOK(N, c, Of(R \cup {r}, c))
  <2>1. CASE O.t1[PageOf(c)] = "own"
    BY <1>9, <1>11, <2>1, OwnCell
  <2>2. CASE O.t1[PageOf(c)] # "own"
    <3>1. N.t1[PageOf(c)] = O.t1[PageOf(c)] /\ N.t2[c] = O.t2[c]
      BY <1>9, <1>11, <2>2
    <3>2. At(N, c) = At(O, c)
      BY <3>1 DEF At
    <3> QED
      BY <1>5, <1>9, <2>2, <3>1, <3>2 DEF TableOK, CellOK
  <2> QED
    BY <2>1, <2>2
<1> QED
  BY <1>5, <1>8, <1>10, <1>11, <1>12 DEF TableOK

LEMMA delete_regionIs ==
    ASSUME NEW R, RegionsOK(R), NEW S \in SUBSET R, NEW cell, Holds(cell, S), NEW r \in S,
           NEW n \in {EMPTY_SIZE, INVALID_SIZE}
    PROVE  Holds(delete_region(cell, r.start, n), S \ {r})
<1>1. PICK q : q = cell.list
  OBVIOUS
<1>2. cell \in CellRecords /\ q \in Seq(Entries)
  BY <1>1, Zenon DEF Holds, CellRecords
<1>3. Lists(q, S)
  BY <1>1 DEF Holds
<1>4. PICK p : p = r.start /\ p \in Bytes(r.start, r.size)
  BY RegionIs
<1>5. PICK k \in DOMAIN q : k = Position(q, p) /\ q[k] = EntryOf(r)
  BY <1>2, <1>3, <1>4, InList
<1>6. PICK m \in Nat : DOMAIN q = 1..m /\ Len(q) = m
  BY <1>2, SeqIs
<1>7. k # 0
  BY <1>5, <1>6
<1>8. \A s \in S : EntryOf(s) = EntryOf(r) => s = r
  BY SameEntry
<1>9. CASE m = 1
  <2>1. S \ {r} = {}
    <3> SUFFICES ASSUME NEW s \in S PROVE s = r
      OBVIOUS
    <3>1. PICK j \in DOMAIN q : q[j] = EntryOf(s)
      BY <1>3 DEF Lists
    <3>2. j = k
      BY <1>5, <1>6, <1>9, <3>1
    <3> QED
      BY <1>5, <1>8, <3>1, <3>2
  <2>2. delete_region(cell, p, n) = [cell EXCEPT !.list = <<Entry(0, n)>>]
    BY <1>1, <1>5, <1>6, <1>7, <1>9 DEF delete_region
  <2>3. PICK b \in Seq(Entries) : b = <<Entry(0, n)>> /\ IsBlank(b)
    BY BlankIs
  <2>4. delete_region(cell, p, n) \in CellRecords /\ delete_region(cell, p, n).list = b
    BY <1>2, <2>2, <2>3, CellList
  <2> QED
    BY <1>4, <2>1, <2>3, <2>4 DEF Holds
<1>10. CASE m # 1
  <2>1. S \ {r} # {}
    <3>1. PICK j \in DOMAIN q : j # k
      <4>1. 1 \in DOMAIN q /\ 2 \in DOMAIN q
        BY <1>5, <1>6, <1>10
      <4> QED
        BY <4>1
    <3>2. PICK s \in S : q[j] = EntryOf(s)
      BY <1>3 DEF Lists
    <3>3. q[j] # q[k]
      BY <1>3, <3>1 DEF Lists
    <3> QED
      BY <1>5, <3>2, <3>3
  <2>2. delete_region(cell, p, n) = [cell EXCEPT !.list = RemoveAt(q, k)]
    <3>1. delete_region(cell, p, n) = [cell EXCEPT !.list = RemoveAt(@, k)]
      BY <1>1, <1>5, <1>6, <1>7, <1>10 DEF delete_region
    <3> QED
      BY <1>1, <3>1
  <2>3. PICK b \in Seq(Entries) : b = RemoveAt(q, k) /\ Lists(b, S \ {r})
    BY <1>2, <1>3, <1>5, <1>8, ListsRemoved
  <2>4. delete_region(cell, p, n) \in CellRecords /\ delete_region(cell, p, n).list = b
    BY <1>2, <2>2, <2>3, CellList
  <2> QED
    BY <1>4, <2>1, <2>3, <2>4 DEF Holds
<1> QED
  BY <1>9, <1>10

LEMMA OfGone ==
    ASSUME NEW R, NEW r, NEW c
    PROVE  Of(R \ {r}, c) = Of(R, c) \ {r}
  BY DEF Of

LEMMA BlankEntry ==
    ASSUME NEW e \in Blanks
    PROVE  e.start = 0
  BY BlankIs DEF Blanks

\* The start of a region is known as one.
LEMMA RegionAt ==
    ASSUME NEW T, NEW R, TableOK(T, R), RegionsOK(R), NEW r \in R
    PROVE  /\ r.start \in Address /\ Found(T, r.start) = EntryOf(r)
           /\ Found(T, r.start).start = r.start /\ Found(T, r.start).size = r.size
           /\ ~ NoRegionAt(T, r.start)
<1>1. PICK a \in Nat, n \in Nat : a = r.start /\ n = r.size
  BY RegionIs
<1>2. a \in Address /\ a \in Bytes(r.start, r.size) /\ a + n < LastPage
  BY <1>1, RegionIs
<1>3. Found(T, a) = EntryOf(r)
  BY <1>2, FoundIs
<1>4. EntryOf(r).start = a /\ EntryOf(r).size = n
  BY <1>1 DEF EntryOf, Entry
<1>5. n # EMPTY_SIZE
  BY <1>1, <1>2, Constants DEF EMPTY_SIZE
<1> QED
  BY <1>1, <1>2, <1>3, <1>4, <1>5 DEF NoRegionAt

\* A pointer that is not the start of a region is refused.
LEMMA NoneAt ==
    ASSUME NEW T, NEW R, TableOK(T, R), RegionsOK(R), NEW p \in Address, p # 0,
           \A r \in R : r.start # p
    PROVE  Found(T, p).start # p /\ NoRegionAt(T, p)
<1>1. Found(T, p).start # p
  <2>1. CASE \E r \in R : p \in Bytes(r.start, r.size)
    <3>1. PICK r \in R : Found(T, p) = EntryOf(r)
      BY <2>1, FoundIs
    <3> QED
      BY <3>1 DEF EntryOf, Entry
  <2>2. CASE \A r \in R : p \notin Bytes(r.start, r.size)
    <3>1. Found(T, p) \in Blanks
      BY <2>2, FoundIs
    <3> QED
      BY <3>1, BlankEntry
  <2> QED
    BY <2>1, <2>2
<1> QED
  BY <1>1 DEF NoRegionAt

LEMMA DeletedOK ==
    ASSUME NEW T, NEW R, TableOK(T, R), RegionsOK(R), NEW r \in R
    PROVE  TableOK(Deleted(T, r.start), R \ {r})
<1>1. PICK p \in Address : p = r.start
  BY RegionIs
<1> DEFINE first == CellOf(p)
           last  == CellOf(r.start + r.size)
<1>2. r \in RegionSet /\ r.start + r.size < LastPage
  BY RegionIs
<1>3. /\ first \in Cells /\ last \in Cells /\ first <= last
      /\ \A c \in Cells : first <= c /\ c <= last => PageOf(c) \in PageOf(first)..PageOf(last)
  BY <1>1, <1>2, CellsOf
<1>4. PICK O : O = Looked(T, p) /\ TableOK(O, R) /\ O \in Tables
  BY LookedOK DEF TableOK
<1>5. last = LastCell(p, Found(T, p).size) /\ ~ NoRegionAt(T, p)
  BY <1>1, RegionAt DEF LastCell
<1> HIDE DEF first, last
<1>6. PICK n \in {EMPTY_SIZE, INVALID_SIZE} :
         n = IF At(O, first).is_invalid THEN INVALID_SIZE ELSE EMPTY_SIZE
  OBVIOUS
<1>7. PICK h : h = [c \in Cells |->
            IF c \in {first, last} THEN delete_region(O.t2[c], p, n)
            ELSE IF first < c /\ c < last THEN [O.t2[c] EXCEPT !.list[1] = Entry(0, n)]
            ELSE O.t2[c]]
  OBVIOUS
<1>8. Deleted(T, p) = [O EXCEPT !.t2 = h]
  BY <1>4, <1>5, <1>6, <1>7 DEF Deleted, first
<1>9. ASSUME NEW c \in Cells
      PROVE  /\ h[c] \in CellRecords
             /\ O.t1[PageOf(c)] = "own" => Holds(h[c], Of(R \ {r}, c))
             /\ O.t1[PageOf(c)] # "own" => h[c] = O.t2[c] /\ Of(R \ {r}, c) = Of(R, c)
  <2>1. PICK S \in SUBSET R : S = Of(R, c)
    BY DEF Of
  <2>2. CellOK(O, c, S) /\ O.t2[c] \in CellRecords /\ PageOf(c) \in Pages
    BY <1>4, <2>1, AtIs, PageIs DEF TableOK
  <2>3. O.t1[PageOf(c)] = "own" => Holds(O.t2[c], S)
    BY <1>4, <2>2, OwnCell
  <2>4. first \in Int /\ last \in Int /\ c \in Int
    BY <1>3, PageIs
  <2>5. Of(R \ {r}, c) = S \ {r}
    BY <2>1, OfGone
  <2>6. CASE first <= c /\ c <= last
    <3>1. r \in S
      BY <1>1, <2>1, <2>6 DEF Of, first, last
    <3>2. O.t1[PageOf(c)] = "own"
      BY <2>2, <3>1 DEF CellOK
    <3>3. CASE c \in {first, last}
      <4>1. h[c] = delete_region(O.t2[c], p, n)
        BY <1>7, <3>3
      <4>2. Holds(delete_region(O.t2[c], r.start, n), S \ {r})
        BY <2>3, <3>1, <3>2, delete_regionIs
      <4> QED
        BY <1>1, <2>5, <3>2, <4>1, <4>2 DEF Holds
    <3>4. CASE c \notin {first, last}
      <4>1. first < c /\ c < last
        BY <2>4, <2>6, <3>4
      <4>2. PICK e \in Entries : e = Entry(0, n) /\ IsBlank(<<e>>)
        BY BlankIs
      <4>3. h[c] = [O.t2[c] EXCEPT !.list[1] = e]
        BY <1>7, <3>4, <4>1, <4>2
      <4>4. S = {r} /\ S \ {r} = {}
        BY <1>1, <2>1, <4>1, InnerCell DEF first, last
      <4>5. DOMAIN O.t2[c].list = {1}
        <5>1. PICK q \in Seq(Entries) : q = O.t2[c].list /\ Lists(q, {r})
          BY <2>2, <2>3, <3>2, <4>4, Zenon DEF Holds, CellRecords
        <5>2. \A k \in DOMAIN q : q[k] = EntryOf(r)
          BY <5>1 DEF Lists
        <5>3. \A j, k \in DOMAIN q : j = k
          BY <5>1, <5>2 DEF Lists
        <5>4. PICK k \in DOMAIN q : TRUE
          BY <5>1 DEF Lists
        <5>5. PICK m \in Nat : DOMAIN q = 1..m
          BY SeqIs
        <5>6. 1 \in 1..m
          BY <5>4, <5>5
        <5> QED
          BY <5>1, <5>3, <5>5, <5>6
      <4>6. h[c] \in CellRecords /\ h[c].list = <<e>>
        BY <2>2, <4>2, <4>3, <4>5, CellSet
      <4>7. Holds(h[c], {})
        BY <4>2, <4>6 DEF Holds
      <4> QED
        BY <2>5, <3>2, <4>4, <4>6, <4>7
    <3> QED
      BY <3>3, <3>4
  <2>7. CASE ~ (first <= c /\ c <= last)
    <3>1. c \notin {first, last} /\ ~ (first < c /\ c < last)
      BY <1>3, <2>4, <2>7
    <3>2. h[c] = O.t2[c]
      BY <1>7, <3>1
    <3>3. r \notin S
      BY <1>1, <2>1, <2>7 DEF Of, first, last
    <3>4. S \ {r} = S
      BY <3>3
    <3> QED
      BY <2>1, <2>2, <2>3, <2>5, <3>2, <3>4
  <2> QED
    BY <2>6, <2>7
<1>10. PICK N : N = [O EXCEPT !.t2 = h]
  OBVIOUS
<1>11. N.t1 = O.t1 /\ N.t2 = h /\ N \in Tables
  <2>1. h \in [Cells -> CellRecords]
    BY <1>7, <1>9
  <2>2. N.t1 = O.t1 /\ N.t2 = h
    BY <1>4, <1>10 DEF Tables
  <2> QED
    BY <1>4, <1>10, <2>1 DEF Tables, CellRecords
<1>12. ASSUME NEW c \in Cells PROVE CellOK(N, c, Of(R \ {r}, c))
  <2>1. CASE O.t1[PageOf(c)] = "own"
    BY <1>9, <1>11, <2>1, OwnCell
  <2>2. CASE O.t1[PageOf(c)] # "own"
    <3>1. N.t1[PageOf(c)] = O.t1[PageOf(c)] /\ N.t2[c] = O.t2[c]
      BY <1>9, <1>11, <2>2
    <3>2. At(N, c) = At(O, c)
      BY <3>1 DEF At
    <3> QED
      BY <1>4, <1>9, <2>2, <3>1, <3>2 DEF TableOK, CellOK
  <2> QED
    BY <2>1, <2>2
<1> QED
  BY <1>1, <1>4, <1>8, <1>10, <1>11, <1>12 DEF TableOK

-----------------------------------------------------------------------------
(* The table that __bound_init makes                                       *)

LEMMA MarkedCell ==
    ASSUME NEW cell \in CellRecords, IsBlank(cell.list)
    PROVE  Holds([cell EXCEPT !.list[1].size = INVALID_SIZE, !.is_invalid = TRUE], {})
<1>1. PICK q, b : cell = [list |-> q, is_invalid |-> b] /\ q = cell.list
  BY Zenon DEF CellRecords
<1>2. PICK n \in {EMPTY_SIZE, INVALID_SIZE} : q = <<Entry(0, n)>>
  BY <1>1 DEF IsBlank
<1>3. INVALID_SIZE \in {EMPTY_SIZE, INVALID_SIZE}
  OBVIOUS
<1>4. PICK e : e = Entry(0, INVALID_SIZE)
  OBVIOUS
<1>5. <<e>> \in Seq(Entries) /\ IsBlank(<<e>>)
  BY <1>3, <1>4, BlankIs
<1>6. PICK f : f = Entry(0, n) /\ [f EXCEPT !.size = INVALID_SIZE] = e
  <2>1. [Entry(0, n) EXCEPT !.size = INVALID_SIZE] = e
    BY <1>4 DEF Entry
  <2> QED
    BY <2>1
<1>7. q = <<f>>
  BY <1>2, <1>6
<1>8. [q EXCEPT ![1].size = INVALID_SIZE] = <<e>>
  <2>1. [q EXCEPT ![1].size = INVALID_SIZE] = [q EXCEPT ![1] = [q[1] EXCEPT !.size = INVALID_SIZE]]
    OBVIOUS
  <2>2. q[1] = f
    BY <1>7
  <2>3. [q EXCEPT ![1] = e] = <<e>>
    BY <1>7
  <2> QED
    BY <1>6, <2>1, <2>2, <2>3
<1>9. PICK l : l = <<e>>
  OBVIOUS
<1>10. PICK m : m = [cell EXCEPT !.list[1].size = INVALID_SIZE, !.is_invalid = TRUE]
  OBVIOUS
<1>11. m = [list |-> l, is_invalid |-> TRUE]
  BY <1>1, <1>8, <1>9, <1>10
<1>12. m.list = l
  BY <1>11
<1>13. [list |-> l, is_invalid |-> TRUE] \in [list : Seq(Entries), is_invalid : BOOLEAN]
  BY <1>5, <1>9, Zenon
<1>14. m \in CellRecords
  BY <1>11, <1>13, Zenon DEF CellRecords
<1> QED
  BY <1>5, <1>9, <1>10, <1>12, <1>14 DEF Holds

\* A table without regions.
Bare(T) == T \in Tables /\ \A c \in Cells : IsBlank(T.t2[c].list)

LEMMA BareOwned ==
    ASSUME NEW T, Bare(T), NEW i \in Int, NEW j \in Int
    PROVE  Bare(Owned(T, i, j))
  BY OwnedIs, ConstantCells DEF Bare

LEMMA MarkedIs ==
    ASSUME NEW T, Bare(T), NEW i \in Nat, NEW j \in Nat
    PROVE  /\ Bare(Marked(T, i, j))
           /\ \A g \in Pages :
                 \/ Marked(T, i, j).t1[g] = T.t1[g]
                 \/ (i < j /\ g \in PageOf(i)..PageOf(j - 1))
<1>1. PICK O : O = IF i < j THEN Owned(T, PageOf(i), PageOf(j - 1)) ELSE T
  OBVIOUS
<1>2. i < j => PageOf(i) \in Int /\ PageOf(j - 1) \in Int
  <2> SUFFICES ASSUME i < j PROVE PageOf(i) \in Int /\ PageOf(j - 1) \in Int
    OBVIOUS
  <2>1. j - 1 \in Nat
    OBVIOUS
  <2> QED
    BY <2>1, Constants, Rounding DEF PageOf
<1>3. Bare(O)
  BY <1>1, <1>2, BareOwned
<1>4. \A g \in Pages : O.t1[g] = T.t1[g] \/ (i < j /\ g \in PageOf(i)..PageOf(j - 1))
  BY <1>1, <1>2, OwnedIs DEF Bare
<1>5. PICK h : h = [c \in Cells |->
            IF i <= c /\ c < j
            THEN [O.t2[c] EXCEPT !.list[1].size = INVALID_SIZE, !.is_invalid = TRUE]
            ELSE O.t2[c]]
  OBVIOUS
<1>6. Marked(T, i, j) = [O EXCEPT !.t2 = h]
  BY <1>1, <1>5 DEF Marked
<1>7. ASSUME NEW c \in Cells PROVE h[c] \in CellRecords /\ IsBlank(h[c].list)
  <2>1. O.t2[c] \in CellRecords /\ IsBlank(O.t2[c].list)
    BY <1>3, AtIs DEF Bare
  <2>2. Holds([O.t2[c] EXCEPT !.list[1].size = INVALID_SIZE, !.is_invalid = TRUE], {})
    BY <2>1, MarkedCell
  <2>3. \/ h[c] = [O.t2[c] EXCEPT !.list[1].size = INVALID_SIZE, !.is_invalid = TRUE]
        \/ h[c] = O.t2[c]
    BY <1>5
  <2> QED
    BY <2>1, <2>2, <2>3 DEF Holds
<1>8. PICK N : N = [O EXCEPT !.t2 = h]
  OBVIOUS
<1>9. N.t1 = O.t1 /\ N.t2 = h /\ N \in Tables
  <2>1. h \in [Cells -> CellRecords]
    BY <1>5, <1>7
  <2>2. N.t1 = O.t1 /\ N.t2 = h
    BY <1>3, <1>8 DEF Tables, Bare
  <2> QED
    BY <1>3, <1>8, <2>1 DEF Tables, CellRecords, Bare
<1>10. Bare(N)
  BY <1>7, <1>9 DEF Bare
<1> QED
  BY <1>4, <1>6, <1>8, <1>9, <1>10

LEMMA RoundedUp ==
    ASSUME NEW a \in Nat, NEW b \in Nat \ {0}, NEW m \in Nat, a <= m * b
    PROVE  (a + b - 1) \div b \in Nat /\ (a + b - 1) \div b <= m
<1>1. PICK z \in Nat : z = a + b - 1 /\ z < m * b + b
  OBVIOUS
<1>2. m * b + b = (m + 1) * b /\ m + 1 \in Nat
  OBVIOUS
<1>3. z \div b < m + 1 /\ z \div b \in Nat
  BY <1>1, <1>2, RoundingBound, Rounding
<1> QED
  BY <1>1, <1>3

LEMMA MarkInvalidIs ==
    ASSUME NEW T, Bare(T), NEW start \in Nat, NEW end \in Nat
    PROVE  Bare(MarkInvalid(T, start, end))
<1>1. PICK i, j : i = (start + BOUND_T3_SIZE - 1) \div BOUND_T3_SIZE /\ j = end \div BOUND_T3_SIZE
  OBVIOUS
<1>2. i \in Nat /\ j \in Nat
  <2>1. start + BOUND_T3_SIZE - 1 \in Nat
    BY Constants
  <2> QED
    BY <1>1, <2>1, Constants, Rounding
<1>3. PICK p, q : p = (i + BOUND_T2_SIZE - 1) \div BOUND_T2_SIZE /\ q = PageOf(j)
  OBVIOUS
<1>4. p \in Nat /\ q \in Nat
  <2>1. i + BOUND_T2_SIZE - 1 \in Nat
    BY <1>2, Constants
  <2> QED
    BY <1>2, <1>3, <2>1, Constants, Rounding DEF PageOf
<1>5. p * BOUND_T2_SIZE \in Nat /\ q * BOUND_T2_SIZE \in Nat
  BY <1>4, Constants
<1>6. PICK A : A = Marked(T, i, p * BOUND_T2_SIZE) /\ Bare(A)
  BY <1>2, <1>5, MarkedIs
<1>7. PICK ends : ends = Marked(A, q * BOUND_T2_SIZE, j) /\ Bare(ends)
  BY <1>2, <1>5, <1>6, MarkedIs
<1>8. PICK f : f = [g \in Pages |-> IF p <= g /\ g < q THEN "invalid" ELSE ends.t1[g]]
  OBVIOUS
<1>9. MarkInvalid(T, start, end) = [ends EXCEPT !.t1 = f]
  BY <1>1, <1>3, <1>6, <1>7, <1>8 DEF MarkInvalid
<1>10. f \in [Pages -> {"own", "empty", "invalid"}]
  BY <1>7, <1>8 DEF Bare, Tables
<1>11. PICK N : N = [ends EXCEPT !.t1 = f]
  OBVIOUS
<1>12. N \in Tables /\ N.t2 = ends.t2
  BY <1>7, <1>10, <1>11 DEF Bare, Tables
<1> QED
  BY <1>7, <1>9, <1>11, <1>12 DEF Bare

\* No cell of the last page is marked with the heap.
LEMMA HeapMark ==
    ASSUME NEW T, Bare(T), T.t1[BOUND_T1_SIZE - 1] = "invalid",
           NEW start \in Nat, NEW end \in Nat, start <= end, end <= LastPage
    PROVE  MarkInvalid(T, start, end).t1[BOUND_T1_SIZE - 1] = "invalid"
<1>1. PICK i, j : i = (start + BOUND_T3_SIZE - 1) \div BOUND_T3_SIZE /\ j = end \div BOUND_T3_SIZE
  OBVIOUS
<1>2. PICK top \in Nat : top = BOUND_T1_SIZE - 1 /\ top \in Pages
  BY Constants DEF Pages
<1>3. PICK cells \in Nat : cells = top * BOUND_T2_SIZE /\ LastPage = cells * BOUND_T3_SIZE
  BY <1>2, Constants
<1>4. i \in Nat /\ i <= cells
  <2>1. start <= cells * BOUND_T3_SIZE /\ BOUND_T3_SIZE \in Nat \ {0}
    BY <1>3, Constants
  <2> QED
    BY <1>1, <2>1, RoundedUp
<1>5. j \in Nat /\ j <= cells
  <2>1. end < cells * BOUND_T3_SIZE + BOUND_T3_SIZE
    BY <1>3, Constants
  <2>2. cells * BOUND_T3_SIZE + BOUND_T3_SIZE = (cells + 1) * BOUND_T3_SIZE /\ cells + 1 \in Nat
    BY Constants
  <2>3. j < cells + 1 /\ j \in Nat
    BY <1>1, <2>1, <2>2, Constants, RoundingBound, Rounding
  <2> QED
    BY <2>3
<1>6. PICK p, q : p = (i + BOUND_T2_SIZE - 1) \div BOUND_T2_SIZE /\ q = PageOf(j)
  OBVIOUS
<1>7. p \in Nat /\ p <= top
  BY <1>3, <1>4, <1>6, Constants, RoundedUp
<1>8. q \in Nat /\ q <= top
  <2>1. j < cells + BOUND_T2_SIZE /\ cells + BOUND_T2_SIZE = (top + 1) * BOUND_T2_SIZE /\ top + 1 \in Nat
    BY <1>3, <1>5, Constants
  <2>2. q < top + 1 /\ q \in Nat
    BY <1>5, <1>6, <2>1, Constants, RoundingBound, Rounding DEF PageOf
  <2> QED
    BY <2>2
<1>9. PICK pages \in Nat : pages = p * BOUND_T2_SIZE /\ pages <= cells
  <2>1. PICK z \in Nat : top = p + z
    BY <1>7
  <2>2. cells = p * BOUND_T2_SIZE + z * BOUND_T2_SIZE /\ z * BOUND_T2_SIZE >= 0
    BY <1>3, <1>7, <2>1, Constants
  <2> QED
    BY <1>7, <2>2, Constants
<1>10. q * BOUND_T2_SIZE \in Nat
  BY <1>8, Constants
<1>11. ASSUME NEW a \in Nat, NEW b \in Nat, a < b, b <= cells
       PROVE  top \notin PageOf(a)..PageOf(b - 1)
  <2>1. b - 1 \in Nat /\ b - 1 < top * BOUND_T2_SIZE
    BY <1>3, <1>11
  <2>2. PageOf(b - 1) \in Nat /\ PageOf(b - 1) < top
    BY <2>1, Constants, RoundingBound, Rounding DEF PageOf
  <2>3. PageOf(a) \in Nat
    BY Constants, Rounding DEF PageOf
  <2> QED
    BY <2>2, <2>3
<1>12. ASSUME NEW A, Bare(A), A.t1[top] = "invalid", NEW a \in Nat, NEW b \in Nat, b <= cells
       PROVE  Bare(Marked(A, a, b)) /\ Marked(A, a, b).t1[top] = "invalid"
  <2>1. PICK M : M = Marked(A, a, b)
    OBVIOUS
  <2>2. Bare(M) /\ (M.t1[top] = A.t1[top] \/ (a < b /\ top \in PageOf(a)..PageOf(b - 1)))
    BY <1>2, <1>12, <2>1, MarkedIs
  <2>3. ~ (a < b /\ top \in PageOf(a)..PageOf(b - 1))
    BY <1>11, <1>12
  <2> QED
    BY <1>12, <2>1, <2>2, <2>3
<1>13. PICK A : A = Marked(T, i, pages) /\ Bare(A) /\ A.t1[top] = "invalid"
  BY <1>2, <1>4, <1>9, <1>12
<1>14. PICK ends : ends = Marked(A, q * BOUND_T2_SIZE, j) /\ Bare(ends) /\ ends.t1[top] = "invalid"
  BY <1>5, <1>10, <1>13, <1>12
<1>15. PICK f : f = [g \in Pages |-> IF p <= g /\ g < q THEN "invalid" ELSE ends.t1[g]]
  OBVIOUS
<1>16. MarkInvalid(T, start, end) = [ends EXCEPT !.t1 = f]
  BY <1>1, <1>6, <1>9, <1>13, <1>14, <1>15 DEF MarkInvalid
<1>17. f[top] = "invalid"
  BY <1>2, <1>14, <1>15
<1>18. PICK N : N = [ends EXCEPT !.t1 = f]
  OBVIOUS
<1>19. N.t1 = f
  BY <1>14, <1>18 DEF Bare, Tables
<1> QED
  BY <1>2, <1>16, <1>17, <1>18, <1>19

\* The last page is marked.
LEMMA TopMark ==
    ASSUME NEW T, Bare(T)
    PROVE  MarkInvalid(T, LastPage, Space).t1[BOUND_T1_SIZE - 1] = "invalid"
<1>1. PICK top \in Nat : top = BOUND_T1_SIZE - 1 /\ top \in Pages
  BY Constants DEF Pages
<1>2. PICK cells \in Nat : cells = top * BOUND_T2_SIZE /\ LastPage = cells * BOUND_T3_SIZE
  BY <1>1, Constants
<1>3. PICK i, j : i = (LastPage + BOUND_T3_SIZE - 1) \div BOUND_T3_SIZE /\ j = Space \div BOUND_T3_SIZE
  OBVIOUS
<1>4. i \in Nat /\ i <= cells
  BY <1>2, <1>3, Constants, RoundedUp
<1>5. PICK all \in Nat : all = BOUND_T1_SIZE * BOUND_T2_SIZE /\ Space = all * BOUND_T3_SIZE
  BY Constants
<1>6. j \in Nat /\ j >= all
  <2>1. j \in Nat /\ Space < j * BOUND_T3_SIZE + BOUND_T3_SIZE
    BY <1>3, Constants, Rounding
  <2>2. all * BOUND_T3_SIZE < (j + 1) * BOUND_T3_SIZE
    BY <1>5, <2>1, Constants
  <2>3. ASSUME j < all PROVE FALSE
    <3>1. PICK z \in Nat : all = j + 1 + z
      BY <2>1, <2>3
    <3>2. all * BOUND_T3_SIZE = (j + 1) * BOUND_T3_SIZE + z * BOUND_T3_SIZE /\ z * BOUND_T3_SIZE >= 0
      BY <2>1, <3>1, Constants
    <3> QED
      BY <2>1, <2>2, <3>1, <3>2, Constants
  <2> QED
    BY <2>1, <2>3
<1>7. PICK p, q : p = (i + BOUND_T2_SIZE - 1) \div BOUND_T2_SIZE /\ q = PageOf(j)
  OBVIOUS
<1>8. p \in Nat /\ p <= top
  BY <1>1, <1>2, <1>4, <1>7, Constants, RoundedUp
<1>9. q \in Nat /\ top < q
  <2>1. q \in Nat /\ j < q * BOUND_T2_SIZE + BOUND_T2_SIZE
    BY <1>6, <1>7, Constants, Rounding DEF PageOf
  <2>2. BOUND_T1_SIZE * BOUND_T2_SIZE < (q + 1) * BOUND_T2_SIZE
    BY <1>5, <1>6, <2>1, Constants
  <2>3. ASSUME q < BOUND_T1_SIZE PROVE FALSE
    <3>1. PICK z \in Nat : BOUND_T1_SIZE = q + 1 + z
      BY <2>1, <2>3, Constants
    <3>2. /\ BOUND_T1_SIZE * BOUND_T2_SIZE = (q + 1) * BOUND_T2_SIZE + z * BOUND_T2_SIZE
          /\ z * BOUND_T2_SIZE >= 0
      BY <2>1, <3>1, Constants
    <3> QED
      BY <2>1, <2>2, <3>1, <3>2, Constants
  <2> QED
    BY <1>1, <2>1, <2>3, Constants
<1>10. PICK A : A = Marked(T, i, p * BOUND_T2_SIZE) /\ Bare(A)
  BY <1>4, <1>8, Constants, MarkedIs
<1>11. PICK ends : ends = Marked(A, q * BOUND_T2_SIZE, j) /\ Bare(ends)
  BY <1>6, <1>9, <1>10, Constants, MarkedIs
<1>12. PICK f : f = [g \in Pages |-> IF p <= g /\ g < q THEN "invalid" ELSE ends.t1[g]]
  OBVIOUS
<1>13. MarkInvalid(T, LastPage, Space) = [ends EXCEPT !.t1 = f]
  BY <1>3, <1>7, <1>10, <1>11, <1>12 DEF MarkInvalid
<1>14. f[top] = "invalid"
  BY <1>1, <1>8, <1>9, <1>12
<1>15. PICK N : N = [ends EXCEPT !.t1 = f]
  OBVIOUS
<1>16. N.t1 = f
  BY <1>11, <1>15 DEF Bare, Tables
<1> QED
  BY <1>1, <1>13, <1>14, <1>15, <1>16

LEMMA NoRegions == RegionsOK({}) /\ \A c : Of({}, c) = {}
  BY DEF RegionsOK, Abs!AllApart, Of

LEMMA BareOK ==
    ASSUME NEW T, Bare(T), T.t1[BOUND_T1_SIZE - 1] = "invalid"
    PROVE  TableOK(T, {})
<1>1. ASSUME NEW c \in Cells PROVE CellOK(T, c, {})
  <2>1. T \in Tables /\ IsBlank(T.t2[c].list)
    BY DEF Bare
  <2>2. IsBlank(At(T, c).list)
    BY <2>1, AtIs, ConstantCells
  <2> QED
    BY <2>2 DEF CellOK
<1> QED
  BY <1>1, NoRegions DEF TableOK, Bare

LEMMA InitOK ==
    ASSUME Init
    PROVE  TableOK(Table, {}) /\ regions = {} /\ frames = <<>> /\ stopped = None
<1>1. PICK f, h : f = [i \in Pages |-> "empty"] /\ h = [c \in Cells |-> EmptyCell]
  OBVIOUS
<1>2. PICK none : none = [t1 |-> f, t2 |-> h]
  OBVIOUS
<1>3. Bare(none)
  <2>1. f \in [Pages -> {"own", "empty", "invalid"}] /\ h \in [Cells -> CellRecords]
    BY <1>1, ConstantCells
  <2>2. none \in Tables
    BY <1>2, <2>1 DEF Tables, CellRecords
  <2>3. \A c \in Cells : none.t2[c] = EmptyCell
    BY <1>1, <1>2
  <2> QED
    BY <2>2, <2>3, ConstantCells DEF Bare
<1>4. PICK top : /\ top = MarkInvalid(none, LastPage, Space)
                 /\ Bare(top) /\ top.t1[BOUND_T1_SIZE - 1] = "invalid"
  BY <1>3, Constants, MarkInvalidIs, TopMark
<1>5. PICK from \in Nat, to \in Nat : /\ from = HeapStart /\ to = HeapStart + HeapSize
                                       /\ from <= to /\ to <= LastPage
  BY BoundCheckAssumption
<1>6. PICK table : /\ table = MarkInvalid(top, HeapStart, HeapStart + HeapSize)
                   /\ Bare(table) /\ table.t1[BOUND_T1_SIZE - 1] = "invalid"
  <2>1. PICK table : table = MarkInvalid(top, from, to)
    OBVIOUS
  <2>2. Bare(table)
    BY <1>4, <2>1, MarkInvalidIs
  <2>3. table.t1[BOUND_T1_SIZE - 1] = "invalid"
    BY <1>4, <1>5, <2>1, HeapMark
  <2> QED
    BY <1>5, <2>1, <2>2, <2>3
<1>7. /\ t1 = table.t1 /\ t2 = table.t2
      /\ regions = {} /\ frames = <<>> /\ stopped = None
  BY <1>1, <1>2, <1>4, <1>6 DEF Init
<1>8. table = [t1 |-> table.t1, t2 |-> table.t2]
  BY <1>6 DEF Bare, Tables
<1>9. Table = table
  BY <1>7, <1>8 DEF Table
<1> QED
  BY <1>6, <1>7, <1>9, BareOK

-----------------------------------------------------------------------------
(* The arrays of a function, one after the other                           *)

\* A set of naturals that no smallest number leaves is empty.
LEMMA NoLeast ==
    ASSUME NEW A \in SUBSET Nat, \A n \in A : \E m \in A : m < n
    PROVE  A = {}
<1> SUFFICES ASSUME A # {} PROVE FALSE
  OBVIOUS
<1>1. PICK n \in A : \A m \in A : ~ (<<m, n>> \in OpToRel(<, Nat))
  BY NatLessThanWellFounded, WFMin
<1>2. PICK m \in A : m < n
  OBVIOUS
<1>3. <<m, n>> \in OpToRel(<, Nat)
  BY <1>2 DEF OpToRel
<1> QED
  BY <1>1, <1>3

NewTables(F, f, T0, n) ==
    F = [k \in 0..n |-> IF k = 0 THEN T0 ELSE NewRegion(F[k - 1], f[k].start, f[k].size)]

DeletedTables(F, f, T0, n) ==
    F = [k \in 0..n |-> IF k = 0 THEN T0 ELSE Deleted(F[k - 1], f[k].start)]

\* The recursive functions of __bound_local_new and __bound_local_delete exist.
LEMMA LocalNewExists ==
    ASSUME NEW f, NEW T0, NEW n \in Nat
    PROVE  \E F : NewTables(F, f, T0, n)
<1> DEFINE E(m) == \E F : NewTables(F, f, T0, m)
<1>1. E(0)
  <2>1. PICK F : F = [k \in 0..0 |-> T0]
    OBVIOUS
  <2>2. F = [k \in 0..0 |-> IF k = 0 THEN T0 ELSE NewRegion(F[k - 1], f[k].start, f[k].size)]
    BY <2>1
  <2> QED
    BY <2>2 DEF NewTables
<1>2. ASSUME NEW m \in Nat, E(m) PROVE E(m + 1)
  <2>1. PICK F : F = [k \in 0..m |->
               IF k = 0 THEN T0 ELSE NewRegion(F[k - 1], f[k].start, f[k].size)]
    BY <1>2 DEF NewTables
  <2>2. PICK G : G = [k \in 0..m + 1 |->
               IF k = 0 THEN T0 ELSE NewRegion(F[k - 1], f[k].start, f[k].size)]
    OBVIOUS
  <2>3. \A k \in 0..m : G[k] = F[k]
    BY <2>1, <2>2
  <2>4. ASSUME NEW k \in 0..m + 1
        PROVE  (IF k = 0 THEN T0 ELSE NewRegion(F[k - 1], f[k].start, f[k].size))
                = (IF k = 0 THEN T0 ELSE NewRegion(G[k - 1], f[k].start, f[k].size))
    <3>1. k # 0 => k - 1 \in 0..m
      OBVIOUS
    <3> QED
      BY <2>3, <3>1
  <2>5. G = [k \in 0..m + 1 |->
               IF k = 0 THEN T0 ELSE NewRegion(G[k - 1], f[k].start, f[k].size)]
    BY <2>2, <2>4, Zenon
  <2> QED
    BY <2>5 DEF NewTables
<1> HIDE DEF E
<1>3. PICK A \in SUBSET Nat : A = {m \in Nat : ~ E(m)}
  OBVIOUS
<1>4. ASSUME NEW m \in A PROVE \E l \in A : l < m
  <2>1. m # 0 /\ m \in Nat
    BY <1>1, <1>3
  <2>2. PICK l \in Nat : m = l + 1
    BY <2>1
  <2>3. ~ E(l)
    BY <1>2, <1>3, <2>2
  <2> QED
    BY <1>3, <2>2, <2>3
<1>5. A = {}
  BY <1>4, NoLeast
<1>6. E(n)
  BY <1>3, <1>5
<1> QED
  BY <1>6 DEF E

LEMMA LocalDeleteExists ==
    ASSUME NEW f, NEW T0, NEW n \in Nat
    PROVE  \E F : DeletedTables(F, f, T0, n)
<1> DEFINE E(m) == \E F : DeletedTables(F, f, T0, m)
<1>1. E(0)
  <2>1. PICK F : F = [k \in 0..0 |-> T0]
    OBVIOUS
  <2>2. F = [k \in 0..0 |-> IF k = 0 THEN T0 ELSE Deleted(F[k - 1], f[k].start)]
    BY <2>1
  <2> QED
    BY <2>2 DEF DeletedTables
<1>2. ASSUME NEW m \in Nat, E(m) PROVE E(m + 1)
  <2>1. PICK F : F = [k \in 0..m |->
               IF k = 0 THEN T0 ELSE Deleted(F[k - 1], f[k].start)]
    BY <1>2 DEF DeletedTables
  <2>2. PICK G : G = [k \in 0..m + 1 |->
               IF k = 0 THEN T0 ELSE Deleted(F[k - 1], f[k].start)]
    OBVIOUS
  <2>3. \A k \in 0..m : G[k] = F[k]
    BY <2>1, <2>2
  <2>4. ASSUME NEW k \in 0..m + 1
        PROVE  (IF k = 0 THEN T0 ELSE Deleted(F[k - 1], f[k].start))
                = (IF k = 0 THEN T0 ELSE Deleted(G[k - 1], f[k].start))
    <3>1. k # 0 => k - 1 \in 0..m
      OBVIOUS
    <3> QED
      BY <2>3, <3>1
  <2>5. G = [k \in 0..m + 1 |->
               IF k = 0 THEN T0 ELSE Deleted(G[k - 1], f[k].start)]
    BY <2>2, <2>4, Zenon
  <2> QED
    BY <2>5 DEF DeletedTables
<1> HIDE DEF E
<1>3. PICK A \in SUBSET Nat : A = {m \in Nat : ~ E(m)}
  OBVIOUS
<1>4. ASSUME NEW m \in A PROVE \E l \in A : l < m
  <2>1. m # 0 /\ m \in Nat
    BY <1>1, <1>3
  <2>2. PICK l \in Nat : m = l + 1
    BY <2>1
  <2>3. ~ E(l)
    BY <1>2, <1>3, <2>2
  <2> QED
    BY <1>3, <2>2, <2>3
<1>5. A = {}
  BY <1>4, NoLeast
<1>6. E(n)
  BY <1>3, <1>5
<1> QED
  BY <1>6 DEF E

ArrayRegion(f, i) == Region(f[i].start, f[i].size, FALSE)

\* The regions of the first k arrays of f.
Arrays(f, k) == {ArrayRegion(f, i) : i \in 1..k}

LEMMA SeqElements ==
    ASSUME NEW S, NEW q \in Seq(S)
    PROVE  Len(q) \in Nat /\ DOMAIN q = 1..Len(q) /\ \A i \in 1..Len(q) : q[i] \in S
  OBVIOUS

LEMMA ArraysIs ==
    ASSUME NEW f \in Frames
    PROVE  /\ Len(f) \in Nat /\ DOMAIN f = 1..Len(f)
           /\ \A i \in 1..Len(f) :
                 /\ f[i].start \in Nat \ {0} /\ f[i].size \in Nat
                 /\ f[i].start + f[i].size < LastPage
                 /\ \A j \in 1..Len(f) : i = j \/
                       Bytes(f[i].start, f[i].size) \cap Bytes(f[j].start, f[j].size) = {}
<1>1. f \in Seq([start : Nat \ {0}, size : Nat])
  BY FramesAssumption
<1>2. /\ Len(f) \in Nat /\ DOMAIN f = 1..Len(f)
      /\ \A i \in 1..Len(f) : f[i] \in [start : Nat \ {0}, size : Nat]
  <2>1. PICK S : S = [start : Nat \ {0}, size : Nat] /\ f \in Seq(S)
    BY <1>1
  <2>2. Len(f) \in Nat /\ DOMAIN f = 1..Len(f) /\ \A i \in 1..Len(f) : f[i] \in S
    BY <2>1, SeqElements
  <2> QED
    BY <2>1, <2>2
<1>3. \A i \in 1..Len(f) : f[i].start \in Nat \ {0} /\ f[i].size \in Nat
  BY <1>2
<1>4. \A i \in 1..Len(f) :
         /\ f[i].start + f[i].size < LastPage
         /\ \A j \in 1..Len(f) : i = j \/
               Bytes(f[i].start, f[i].size) \cap Bytes(f[j].start, f[j].size) = {}
  BY <1>2, FramesAssumption
<1> QED
  BY <1>2, <1>3, <1>4

LEMMA RegionFields ==
    ASSUME NEW p, NEW n, NEW h
    PROVE  /\ Region(p, n, h).start = p /\ Region(p, n, h).size = n /\ Region(p, n, h).heap = h
           /\ p \in Nat \ {0} /\ n \in Nat /\ h \in BOOLEAN => Region(p, n, h) \in RegionSet
<1>1. Region(p, n, h).start = p /\ Region(p, n, h).size = n /\ Region(p, n, h).heap = h
  BY DEF Region
<1>2. ASSUME p \in Nat \ {0}, n \in Nat, h \in BOOLEAN PROVE Region(p, n, h) \in RegionSet
  BY <1>2, Zenon DEF Region, RegionSet
<1> QED
  BY <1>1, <1>2

LEMMA ArrayRegionIs ==
    ASSUME NEW f \in Frames, NEW i \in 1..Len(f)
    PROVE  /\ ArrayRegion(f, i) \in RegionSet /\ ArrayRegion(f, i).heap = FALSE
           /\ ArrayRegion(f, i).start = f[i].start /\ ArrayRegion(f, i).size = f[i].size
           /\ ArrayRegion(f, i).start + ArrayRegion(f, i).size < LastPage
           /\ ArrayRegion(f, i).start \in Bytes(f[i].start, f[i].size)
<1>1. PICK a \in Nat \ {0}, n \in Nat : a = f[i].start /\ n = f[i].size /\ a + n < LastPage
  BY ArraysIs
<1>2. PICK r : r = Region(a, n, FALSE)
  OBVIOUS
<1>3. r.start = a /\ r.size = n
  BY <1>2 DEF Region
<1>4. r.heap = FALSE
  BY <1>2, Zenon DEF Region
<1>5. r \in RegionSet
  BY <1>2, Zenon DEF Region, RegionSet
<1>6. ArrayRegion(f, i) = r
  BY <1>1, <1>2 DEF ArrayRegion
<1>7. a \in Bytes(a, n)
  BY DEF Bytes
<1> QED
  BY <1>1, <1>3, <1>4, <1>5, <1>6, <1>7

LEMMA ArraysApart ==
    ASSUME NEW R, RegionsOK(R), NEW f \in Frames,
           \A i \in DOMAIN f : \A r \in R :
              Bytes(r.start, r.size) \cap Bytes(f[i].start, f[i].size) = {}
    PROVE  RegionsOK(R \cup Arrays(f, Len(f)))
<1> DEFINE A == Arrays(f, Len(f))
<1>1. ASSUME NEW r \in R \cup A
      PROVE  /\ r \in RegionSet /\ r.start + r.size < LastPage
             /\ r \notin R => \E i \in 1..Len(f) : /\ r = ArrayRegion(f, i)
                                                   /\ r.start = f[i].start /\ r.size = f[i].size
  <2>1. CASE r \in R
    BY <2>1, RegionIs
  <2>2. CASE r \notin R
    <3>1. PICK i \in 1..Len(f) : r = ArrayRegion(f, i)
      BY <2>2 DEF Arrays
    <3> QED
      BY <3>1, ArrayRegionIs
  <2> QED
    BY <2>1, <2>2
<1>2. ASSUME NEW r \in R \cup A, NEW s \in R \cup A, r # s
      PROVE  Bytes(r.start, r.size) \cap Bytes(s.start, s.size) = {}
  <2>1. CASE r \in R /\ s \in R
    <3>1. Abs!Apart(r, s)
      BY <1>2, <2>1 DEF RegionsOK, Abs!AllApart
    <3> QED
      BY <1>1, <3>1, ApartBytes
  <2>2. CASE r \in R /\ s \notin R
    <3>1. PICK i \in 1..Len(f) : s.start = f[i].start /\ s.size = f[i].size
      BY <1>1, <2>2
    <3> QED
      BY <2>2, <3>1, ArraysIs
  <2>3. CASE r \notin R /\ s \in R
    <3>1. PICK i \in 1..Len(f) : r.start = f[i].start /\ r.size = f[i].size
      BY <1>1, <2>3
    <3>2. Bytes(s.start, s.size) \cap Bytes(r.start, r.size) = {}
      BY <2>3, <3>1, ArraysIs
    <3> QED
      BY <3>2
  <2>4. CASE r \notin R /\ s \notin R
    <3>1. PICK i \in 1..Len(f) : /\ r = ArrayRegion(f, i)
                                 /\ r.start = f[i].start /\ r.size = f[i].size
      BY <1>1, <2>4
    <3>2. PICK j \in 1..Len(f) : /\ s = ArrayRegion(f, j)
                                 /\ s.start = f[j].start /\ s.size = f[j].size
      BY <1>1, <2>4
    <3>3. i # j
      BY <1>2, <3>1, <3>2
    <3> QED
      BY <3>1, <3>2, <3>3, ArraysIs
  <2> QED
    BY <2>1, <2>2, <2>3, <2>4
<1>3. Abs!AllApart(R \cup A)
  BY <1>1, <1>2, ApartBytes DEF Abs!AllApart
<1> QED
  BY <1>1, <1>3 DEF RegionsOK

LEMMA ArraysGrow ==
    ASSUME NEW f, NEW k \in Nat
    PROVE  /\ Arrays(f, 0) = {}
           /\ Arrays(f, k + 1) = Arrays(f, k) \cup {ArrayRegion(f, k + 1)}
<1>1. 1..0 = {} /\ 1..k + 1 = (1..k) \cup {k + 1}
  OBVIOUS
<1>2. PICK A, B : A = 1..k + 1 /\ B = 1..k /\ A = B \cup {k + 1}
  BY <1>1
<1>3. {ArrayRegion(f, i) : i \in A} = {ArrayRegion(f, i) : i \in B} \cup {ArrayRegion(f, k + 1)}
  BY <1>2
<1> QED
  BY <1>1, <1>2, <1>3 DEF Arrays

\* An array is none of the earlier ones.
LEMMA ArrayIs ==
    ASSUME NEW f \in Frames, NEW k \in Nat, k + 1 <= Len(f)
    PROVE  /\ ArrayRegion(f, k + 1) \notin Arrays(f, k)
           /\ Arrays(f, k) \subseteq Arrays(f, Len(f))
           /\ ArrayRegion(f, k + 1) \in Arrays(f, Len(f))
<1>1. PICK n \in Nat : n = Len(f)
  BY ArraysIs
<1>2. k + 1 \in 1..n /\ 1..k \subseteq 1..n /\ k + 1 \notin 1..k
  BY <1>1
<1>3. ASSUME NEW i \in 1..k, ArrayRegion(f, k + 1) = ArrayRegion(f, i) PROVE FALSE
  <2>1. i # k + 1 /\ i \in 1..n
    BY <1>2
  <2>2. PICK j \in 1..n : j = k + 1
    BY <1>2
  <2>3. Bytes(f[i].start, f[i].size) \cap Bytes(f[j].start, f[j].size) = {}
    BY <1>1, <2>1, <2>2, ArraysIs
  <2>4. /\ ArrayRegion(f, i).start \in Bytes(f[i].start, f[i].size)
        /\ ArrayRegion(f, j).start \in Bytes(f[j].start, f[j].size)
    BY <1>1, <2>1, <2>2, ArrayRegionIs
  <2> QED
    BY <1>3, <2>2, <2>3, <2>4
<1>4. ArrayRegion(f, k + 1) \notin Arrays(f, k)
  BY <1>3 DEF Arrays
<1>5. Arrays(f, k) \subseteq Arrays(f, n) /\ ArrayRegion(f, k + 1) \in Arrays(f, n)
  BY <1>2 DEF Arrays
<1> QED
  BY <1>1, <1>4, <1>5

LEMMA LocalNewOK ==
    ASSUME NEW R, RegionsOK(R), NEW T0, TableOK(T0, R), NEW f \in Frames,
           \A i \in DOMAIN f : \A r \in R :
              Bytes(r.start, r.size) \cap Bytes(f[i].start, f[i].size) = {},
           NEW F, F = [k \in 0..Len(f) |->
               IF k = 0 THEN T0 ELSE NewRegion(F[k - 1], f[k].start, f[k].size)]
    PROVE  TableOK(F[Len(f)], R \cup Arrays(f, Len(f)))
<1>1. PICK n \in Nat : n = Len(f)
  BY ArraysIs
<1> DEFINE bad == {k \in 0..n : ~ TableOK(F[k], R \cup Arrays(f, k))}
<1>2. /\ bad \in SUBSET Nat
      /\ \A k : k \in bad <=> k \in 0..n /\ ~ TableOK(F[k], R \cup Arrays(f, k))
  OBVIOUS
<1> HIDE DEF bad
<1>3. ASSUME NEW k \in bad PROVE \E j \in bad : j < k
  <2>1. k \in 0..n /\ ~ TableOK(F[k], R \cup Arrays(f, k))
    BY <1>2
  <2>2. k # 0
    <3> SUFFICES ASSUME k = 0 PROVE FALSE
      OBVIOUS
    <3>1. F[0] = T0
      BY <1>1
    <3>2. R \cup Arrays(f, 0) = R
      BY ArraysGrow
    <3> QED
      BY <2>1, <3>1, <3>2
  <2>3. PICK j \in Nat : k = j + 1 /\ j \in 0..n /\ j + 1 <= n
    BY <2>1, <2>2
  <2>4. ASSUME j \notin bad PROVE FALSE
    <3>1. PICK Q : Q = R \cup Arrays(f, j) /\ TableOK(F[j], Q)
      BY <1>2, <2>3, <2>4
    <3>2. PICK r : r = ArrayRegion(f, j + 1)
      OBVIOUS
    <3>3. /\ r.start = f[j + 1].start /\ r.size = f[j + 1].size
          /\ r \notin Arrays(f, j) /\ r.start \in Bytes(r.start, r.size)
          /\ Arrays(f, j) \subseteq Arrays(f, n) /\ r \in Arrays(f, n)
      <4>1. j + 1 <= Len(f) /\ j + 1 \in 1..Len(f)
        BY <1>1, <2>3
      <4> QED
        BY <1>1, <3>2, <4>1, ArrayIs, ArrayRegionIs
    <3>4. r \notin R
      <4>1. j + 1 \in DOMAIN f
        BY <1>1, <2>3, ArraysIs
      <4> QED
        BY <3>3, <4>1
    <3>5. RegionsOK(R \cup Arrays(f, n))
      BY <1>1, ArraysApart
    <3>6. Q \cup {r} \subseteq R \cup Arrays(f, n)
      BY <3>1, <3>3
    <3>7. RegionsOK(Q \cup {r}) /\ r \notin Q
      BY <3>1, <3>3, <3>4, <3>5, <3>6, FewerOK
    <3>8. TableOK(NewRegion(F[j], r.start, r.size), Q \cup {r})
      BY <3>1, <3>7, NewRegionOK
    <3>9. F[k] = NewRegion(F[j], r.start, r.size)
      <4>1. k \in 0..Len(f) /\ k # 0 /\ k - 1 = j
        BY <1>1, <2>1, <2>2, <2>3
      <4>2. F[k] = NewRegion(F[k - 1], f[k].start, f[k].size)
        BY <4>1
      <4> QED
        BY <2>3, <3>3, <4>1, <4>2
    <3>10. R \cup Arrays(f, k) = Q \cup {r}
      BY <2>3, <3>1, <3>2, ArraysGrow
    <3> QED
      BY <2>1, <3>8, <3>9, <3>10
  <2> QED
    BY <2>3, <2>4
<1>4. bad = {}
  BY <1>2, <1>3, NoLeast
<1>5. n \in 0..n
  OBVIOUS
<1>6. TableOK(F[n], R \cup Arrays(f, n))
  BY <1>2, <1>4, <1>5
<1> QED
  BY <1>1, <1>6

\* A region of R is an array of f, or has no byte of it.
Aside(R, f) ==
    \A i \in DOMAIN f : \A r \in R :
        \/ r = ArrayRegion(f, i)
        \/ Bytes(r.start, r.size) \cap Bytes(f[i].start, f[i].size) = {}

\* The arrays that are still regions are deleted, the others not found.
LEMMA LocalDeleteOK ==
    ASSUME NEW R, RegionsOK(R), NEW T0, TableOK(T0, R), NEW f \in Frames,
           Aside(R, f),
           NEW F, F = [k \in 0..Len(f) |->
               IF k = 0 THEN T0 ELSE Deleted(F[k - 1], f[k].start)]
    PROVE  TableOK(F[Len(f)], R \ Arrays(f, Len(f)))
<1>1. PICK n \in Nat : n = Len(f)
  BY ArraysIs
<1> DEFINE bad == {k \in 0..n : ~ TableOK(F[k], R \ Arrays(f, k))}
<1>2. /\ bad \in SUBSET Nat
      /\ \A k : k \in bad <=> k \in 0..n /\ ~ TableOK(F[k], R \ Arrays(f, k))
  OBVIOUS
<1> HIDE DEF bad
<1>3. ASSUME NEW k \in bad PROVE \E j \in bad : j < k
  <2>1. k \in 0..n /\ ~ TableOK(F[k], R \ Arrays(f, k))
    BY <1>2
  <2>2. k # 0
    <3> SUFFICES ASSUME k = 0 PROVE FALSE
      OBVIOUS
    <3>1. F[0] = T0
      BY <1>1
    <3>2. R \ Arrays(f, 0) = R
      BY ArraysGrow
    <3> QED
      BY <2>1, <3>1, <3>2
  <2>3. PICK j \in Nat : k = j + 1 /\ j \in 0..n /\ j + 1 <= n
    BY <2>1, <2>2
  <2>4. ASSUME j \notin bad PROVE FALSE
    <3>1. PICK Q : Q = R \ Arrays(f, j) /\ TableOK(F[j], Q)
      BY <1>2, <2>3, <2>4
    <3>2. PICK r : r = ArrayRegion(f, j + 1)
      OBVIOUS
    <3>3. /\ r.start = f[j + 1].start /\ r.start \in Address \ {0}
          /\ r.start \in Bytes(f[j + 1].start, f[j + 1].size) /\ j + 1 \in DOMAIN f
      <4>1. j + 1 \in 1..Len(f) /\ j + 1 \in DOMAIN f
        BY <1>1, <2>3, ArraysIs
      <4>2. PICK x \in Nat \ {0}, y \in Nat : x = r.start /\ x + y < LastPage
        BY <3>2, <4>1, ArrayRegionIs DEF RegionSet
      <4>3. x \in Address \ {0}
        BY <4>2, Constants DEF Address
      <4> QED
        BY <3>2, <4>1, <4>2, <4>3, ArrayRegionIs
    <3>4. RegionsOK(Q)
      BY <3>1, FewerOK
    <3>5. TableOK(Deleted(F[j], r.start), Q \ {r})
      <4>1. CASE r \in Q
        BY <3>1, <3>4, <4>1, DeletedOK
      <4>2. CASE r \notin Q
        <5>1. ASSUME NEW s \in Q, s.start = r.start PROVE FALSE
          <6>1. s \in R /\ s # r /\ s.start \in Bytes(s.start, s.size)
            BY <3>1, <4>2, RegionIs
          <6>2. Bytes(s.start, s.size) \cap Bytes(f[j + 1].start, f[j + 1].size) = {}
            BY <3>2, <3>3, <6>1 DEF Aside
          <6> QED
            BY <3>3, <5>1, <6>1, <6>2
        <5>2. NoRegionAt(F[j], r.start)
          BY <3>1, <3>3, <3>4, <5>1, NoneAt
        <5>3. Deleted(F[j], r.start) = Looked(F[j], r.start)
          BY <5>2 DEF Deleted
        <5>4. Q \ {r} = Q
          BY <4>2
        <5>5. PICK p \in Address : p = r.start
          BY <3>3
        <5>6. TableOK(Looked(F[j], p), Q)
          BY <3>1, <3>4, LookedOK
        <5> QED
          BY <5>3, <5>4, <5>5, <5>6
      <4> QED
        BY <4>1, <4>2
    <3>6. F[k] = Deleted(F[j], r.start)
      <4>1. k \in 0..Len(f) /\ k # 0 /\ k - 1 = j
        BY <1>1, <2>1, <2>2, <2>3
      <4>2. F[k] = Deleted(F[k - 1], f[k].start)
        BY <4>1
      <4> QED
        BY <2>3, <3>3, <4>1, <4>2
    <3>7. R \ Arrays(f, k) = Q \ {r}
      <4>1. Arrays(f, k) = Arrays(f, j) \cup {r}
        BY <2>3, <3>2, ArraysGrow
      <4> QED
        BY <3>1, <4>1
    <3> QED
      BY <2>1, <3>5, <3>6, <3>7
  <2> QED
    BY <2>3, <2>4
<1>4. bad = {}
  BY <1>2, <1>3, NoLeast
<1>5. n \in 0..n
  OBVIOUS
<1>6. TableOK(F[n], R \ Arrays(f, n))
  BY <1>2, <1>4, <1>5
<1> QED
  BY <1>1, <1>6

-----------------------------------------------------------------------------
(* The invariant                                                           *)

FrameArrays(f) == Arrays(f, Len(f))

KnownSizes == Sizes \cup UNION {{f[i].size : i \in DOMAIN f} : f \in Frames}

FramesOK ==
    /\ frames \in Seq(Frames)
    /\ \A k \in DOMAIN frames : Aside(regions, frames[k])

\* The table is the one of the regions; nothing else lies in the arrays of a
\* frame that has not ended, which are regions as long as nobody frees them.
Inv ==
    /\ TableOK(Table, regions)
    /\ RegionsOK(regions)
    /\ \A r \in regions : r.size \in KnownSizes
    /\ FramesOK

LEMMA TableSet ==
    ASSUME NEW T, NEW R, TableOK(T, R), SetTable(T)
    PROVE  TableOK(Table', R)
<1>1. T \in Tables
  BY DEF TableOK
<1>2. T = [t1 |-> T.t1, t2 |-> T.t2]
  BY <1>1 DEF Tables
<1>3. Table' = [t1 |-> t1', t2 |-> t2']
  BY DEF Table
<1>4. t1' = T.t1 /\ t2' = T.t2
  BY DEF SetTable
<1>5. Table' = T
  BY <1>2, <1>3, <1>4
<1> QED
  BY <1>5

LEMMA SameStart ==
    ASSUME NEW R, RegionsOK(R), NEW r \in R, NEW s \in R, r.start = s.start
    PROVE  r = s
  BY RegionIs, OneRegion

HeapRegion(p, size) == Region(p, size, TRUE)

\* What malloc returns becomes a region.
LEMMA NewIs ==
    ASSUME Inv, NEW p \in Address, NEW size \in Sizes, Allocates(p, size),
           NEW r, r = HeapRegion(p, size)
    PROVE  /\ r.start = p /\ r.size = size /\ r.heap = TRUE /\ r \notin regions
           /\ RegionsOK(regions \cup {r})
           /\ TableOK(NewRegion(Table, p, size), regions \cup {r})
           /\ size \in KnownSizes
<1>1. PICK from \in Nat, to \in Nat : /\ from = HeapStart /\ to = HeapStart + HeapSize
                                      /\ from # 0 /\ to <= LastPage
  BY BoundCheckAssumption
<1>2. p \in Nat /\ size \in Nat
  BY Constants, BoundCheckAssumption DEF Address
<1>3. p # 0 /\ p + size < LastPage
  BY <1>1, <1>2, Constants DEF Allocates
<1>4. r.start = p /\ r.size = size
  BY DEF HeapRegion, Region
<1>5. r.heap = TRUE
  BY Zenon DEF HeapRegion, Region
<1>6. r \in RegionSet
  <2>1. PICK q : q = p /\ q \in Nat \ {0}
    BY <1>2, <1>3
  <2> QED
    BY <1>2, <2>1, Zenon DEF HeapRegion, Region, RegionSet
<1>7. \A s \in regions : Bytes(s.start, s.size) \cap Bytes(p, size) = {}
  BY DEF Allocates, Unused
<1>8. p \in Bytes(p, size)
  BY <1>2 DEF Bytes
<1>9. RegionsOK(regions)
  BY DEF Inv
<1>10. r \notin regions
  BY <1>4, <1>7, <1>8
<1>11. ASSUME NEW s \in regions PROVE Abs!Apart(r, s) /\ Abs!Apart(s, r)
  <2>1. s \in RegionSet
    BY <1>9, RegionIs
  <2>2. Bytes(s.start, s.size) \cap Bytes(r.start, r.size) = {}
    BY <1>4, <1>7
  <2>3. Bytes(r.start, r.size) \cap Bytes(s.start, s.size) = {}
    BY <2>2
  <2> QED
    BY <1>6, <2>1, <2>2, <2>3, ApartBytes
<1>12. RegionsOK(regions \cup {r})
  <2>1. \A a, b \in regions : a = b \/ Abs!Apart(a, b)
    BY <1>9 DEF RegionsOK, Abs!AllApart
  <2>2. \A a, b \in regions \cup {r} : a = b \/ Abs!Apart(a, b)
    BY <1>11, <2>1
  <2>3. r.start + r.size < LastPage
    BY <1>3, <1>4
  <2> QED
    BY <1>6, <1>9, <2>2, <2>3 DEF RegionsOK, Abs!AllApart
<1>13. TableOK(Table, regions)
  BY DEF Inv
<1>14. TableOK(NewRegion(Table, p, size), regions \cup {r})
  BY <1>4, <1>10, <1>12, <1>13, NewRegionOK
<1> QED
  BY <1>4, <1>5, <1>10, <1>12, <1>14 DEF KnownSizes

\* The frames do not notice that regions end.
LEMMA FramesKept ==
    ASSUME Inv, frames' = frames, regions' \subseteq regions
    PROVE  FramesOK'
  BY DEF Inv, FramesOK, Aside

\* Nor that one comes that Unused found a place for.
LEMMA FramesKeptNew ==
    ASSUME Inv, frames' = frames, NEW r, Unused(Bytes(r.start, r.size)),
           regions' \subseteq regions \cup {r}
    PROVE  FramesOK'
<1>1. FramesOK
  BY DEF Inv
<1>2. ASSUME NEW k \in DOMAIN frames PROVE Aside(regions', frames[k])
  <2>1. PICK f : f = frames[k] /\ Aside(regions, f)
    BY <1>1 DEF FramesOK
  <2>2. \A i \in DOMAIN f : Bytes(f[i].start, f[i].size) \cap Bytes(r.start, r.size) = {}
    BY <2>1 DEF Unused
  <2> QED
    BY <2>1, <2>2 DEF Aside
<1> QED
  BY <1>1, <1>2 DEF FramesOK

\* What free removes: the region that starts at p, if there is one.
LEMMA FreedIs ==
    ASSUME NEW R, RegionsOK(R), NEW T, TableOK(T, R), NEW p \in Address \ {0}
    PROVE  LET S == {r \in R : r.start = p}
           IN  /\ S = {} => Found(T, p).start # p /\ NoRegionAt(T, p)
               /\ S # {} => /\ Found(T, p).start = p /\ ~ NoRegionAt(T, p)
                            /\ TableOK(Deleted(T, p), R \ S)
<1> DEFINE S == {r \in R : r.start = p}
<1>1. CASE S = {}
  BY <1>1, NoneAt
<1>2. CASE S # {}
  <2>1. PICK r \in R : r.start = p
    BY <1>2
  <2>2. S = {r}
    BY <2>1, SameStart
  <2>3. Found(T, p).start = p /\ ~ NoRegionAt(T, p)
    BY <2>1, RegionAt
  <2>4. TableOK(Deleted(T, p), R \ {r})
    BY <2>1, DeletedOK
  <2> QED
    BY <1>2, <2>2, <2>3, <2>4
<1> QED
  BY <1>1, <1>2

-----------------------------------------------------------------------------
(* The steps                                                               *)

AbsStep == [Abs!Next]_<<regions, stopped>>

LEMMA InitInv == Init => Inv
<1> SUFFICES ASSUME Init PROVE Inv
  OBVIOUS
<1>1. TableOK(Table, {}) /\ regions = {} /\ frames = <<>>
  BY InitOK
<1>2. FramesOK
  <2>1. <<>> \in Seq(Frames) /\ DOMAIN <<>> = {}
    OBVIOUS
  <2> QED
    BY <1>1, <2>1 DEF FramesOK
<1> QED
  BY <1>1, <1>2, NoRegions DEF Inv

\* A step that changes neither the regions nor the frames.
LEMMA LookStep ==
    ASSUME Inv, NEW T, TableOK(T, regions), SetTable(T), UNCHANGED <<regions, frames>>
    PROVE  Inv'
<1>1. TableOK(Table', regions')
  BY TableSet
<1>2. FramesOK'
  BY FramesKept
<1> QED
  BY <1>1, <1>2 DEF Inv

LEMMA CheckStep ==
    ASSUME Inv, NEW p \in Address, Check(p)
    PROVE  Inv' /\ AbsStep
<1>1. TableOK(Looked(Table, p), regions)
  BY LookedOK DEF Inv
<1>2. SetTable(Looked(Table, p)) /\ UNCHANGED <<regions, frames, stopped>>
  BY DEF Check
<1>3. Inv'
  BY <1>1, <1>2, LookStep
<1> QED
  BY <1>2, <1>3 DEF AbsStep

LEMMA MallocStep ==
    ASSUME Inv, NEW p \in Address, NEW size \in Sizes, Malloc(p, size)
    PROVE  Inv' /\ AbsStep
<1>1. PICK r : r = HeapRegion(p, size)
  OBVIOUS
<1>2. Allocates(p, size)
  BY DEF Malloc
<1>3. /\ r.start = p /\ r.size = size /\ r.heap = TRUE /\ r \notin regions
      /\ RegionsOK(regions \cup {r})
      /\ TableOK(NewRegion(Table, p, size), regions \cup {r})
      /\ size \in KnownSizes
  <2>1. r.start = p /\ r.size = size
    BY <1>1 DEF HeapRegion, Region
  <2>2. r.heap = TRUE
    BY <1>1, <1>2, NewIs
  <2>3. r \notin regions /\ RegionsOK(regions \cup {r}) /\ size \in KnownSizes
    BY <1>1, <1>2, NewIs
  <2>4. TableOK(NewRegion(Table, p, size), regions \cup {r})
    BY <1>1, <1>2, NewIs
  <2> QED
    BY <2>1, <2>2, <2>3, <2>4
<1>4. /\ regions' = regions \cup {r} /\ SetTable(NewRegion(Table, p, size))
      /\ frames' = frames /\ stopped' = stopped
  BY <1>1 DEF Malloc, HeapRegion
<1>5. TableOK(Table', regions')
  BY <1>3, <1>4, TableSet
<1>6. FramesOK'
  <2>1. Unused(Bytes(r.start, r.size))
    BY <1>2, <1>3 DEF Allocates
  <2> QED
    BY <1>4, <2>1, FramesKeptNew
<1>7. \A s \in regions' : s.size \in KnownSizes
  BY <1>3, <1>4 DEF Inv
<1>8. Inv'
  BY <1>3, <1>4, <1>5, <1>6, <1>7 DEF Inv
<1>9. Abs!Create
  BY <1>3, <1>4 DEF Abs!Create, RegionsOK
<1> QED
  BY <1>8, <1>9 DEF AbsStep, Abs!Next

LEMMA FreeStep ==
    ASSUME Inv, NEW p \in Address \ {0}, Free(p)
    PROVE  Inv' /\ AbsStep
<1>1. RegionsOK(regions) /\ TableOK(Table, regions)
  BY DEF Inv
<1>2. /\ SetTable(Deleted(Table, p)) /\ frames' = frames
      /\ IF NoRegionAt(Table, p) THEN stopped' = p /\ regions' = regions
         ELSE regions' = regions \ StartingAt(p) /\ stopped' = stopped
  BY DEF Free
<1>3. /\ StartingAt(p) = {} => NoRegionAt(Table, p)
      /\ StartingAt(p) # {} => /\ ~ NoRegionAt(Table, p)
                               /\ TableOK(Deleted(Table, p), regions \ StartingAt(p))
  BY <1>1, FreedIs DEF StartingAt
<1>4. Abs!StartingAt(p) = StartingAt(p)
  BY DEF Abs!StartingAt, StartingAt
<1>5. CASE StartingAt(p) = {}
  <2>1. NoRegionAt(Table, p) /\ stopped' = p /\ regions' = regions
    BY <1>2, <1>3, <1>5
  <2>2. Deleted(Table, p) = Looked(Table, p)
    BY <2>1 DEF Deleted
  <2>3. TableOK(Deleted(Table, p), regions)
    BY <1>1, <2>2, LookedOK
  <2>4. Inv'
    BY <1>2, <2>1, <2>3, LookStep
  <2>5. Abs!Free(p)
    BY <1>4, <1>5, <2>1 DEF Abs!Free
  <2> QED
    BY <2>4, <2>5 DEF AbsStep, Abs!Next
<1>6. CASE StartingAt(p) # {}
  <2>1. /\ regions' = regions \ StartingAt(p) /\ stopped' = stopped
        /\ TableOK(Deleted(Table, p), regions')
    BY <1>2, <1>3, <1>6
  <2>2. TableOK(Table', regions')
    BY <1>2, <2>1, TableSet
  <2>4. FramesOK'
    BY <1>2, <2>1, FramesKept
  <2>5. RegionsOK(regions') /\ \A r \in regions' : r.size \in KnownSizes
    BY <1>1, <2>1, FewerOK DEF Inv
  <2>6. Inv'
    BY <2>2, <2>4, <2>5 DEF Inv
  <2>7. Abs!Free(p)
    BY <1>4, <1>6, <2>1 DEF Abs!Free
  <2> QED
    BY <2>6, <2>7 DEF AbsStep, Abs!Next
<1> QED
  BY <1>5, <1>6

LEMMA ReallocStep ==
    ASSUME Inv, NEW p \in Address \ {0}, NEW q \in Address, NEW size \in Sizes \ {0},
           Realloc(p, q, size)
    PROVE  Inv' /\ AbsStep
<1>1. PICK r : r = HeapRegion(q, size)
  OBVIOUS
<1>2. p # q /\ Allocates(q, size) /\ frames' = frames
  BY DEF Realloc
<1>3. PICK T : T = NewRegion(Table, q, size)
  OBVIOUS
<1>4. PICK R : R = regions \cup {r}
  OBVIOUS
<1>5. /\ r.start = q /\ r.size = size /\ r.heap = TRUE /\ r \notin regions
      /\ RegionsOK(R) /\ TableOK(T, R) /\ size \in KnownSizes
  <2>1. r.start = q /\ r.size = size
    BY <1>1 DEF HeapRegion, Region
  <2>2. r.heap = TRUE
    BY <1>1, <1>2, NewIs
  <2>3. r \notin regions /\ RegionsOK(regions \cup {r}) /\ size \in KnownSizes
    BY <1>1, <1>2, NewIs
  <2>4. TableOK(NewRegion(Table, q, size), regions \cup {r})
    BY <1>1, <1>2, NewIs
  <2> QED
    BY <1>3, <1>4, <2>1, <2>2, <2>3, <2>4
<1>6. PICK got : got = Looked(T, p) /\ TableOK(got, R)
  BY <1>5, LookedOK
<1>7. IF Found(T, p).start # p
      THEN SetTable(got) /\ stopped' = p /\ regions' = R
      ELSE SetTable(Deleted(got, p)) /\ stopped' = stopped /\ regions' = R \ StartingAt(p)
  BY <1>1, <1>3, <1>4, <1>6 DEF Realloc, HeapRegion
<1>8. {s \in R : s.start = p} = StartingAt(p)
  BY <1>2, <1>4, <1>5 DEF StartingAt
<1>9. /\ StartingAt(p) = {} => Found(T, p).start # p
      /\ StartingAt(p) # {} => /\ Found(T, p).start = p
                               /\ TableOK(Deleted(got, p), R \ StartingAt(p))
  BY <1>5, <1>6, <1>8, FreedIs
<1>10. Abs!StartingAt(p) = StartingAt(p)
  BY DEF Abs!StartingAt, StartingAt
<1>11. Unused(Bytes(r.start, r.size))
  BY <1>2, <1>5 DEF Allocates
<1>12. regions' = R \ StartingAt(p) /\ TableOK(Table', regions')
       /\ stopped' = IF StartingAt(p) = {} THEN p ELSE stopped
  <2>1. CASE StartingAt(p) = {}
    <3>1. SetTable(got) /\ stopped' = p /\ regions' = R
      BY <1>7, <1>9, <2>1
    <3>2. TableOK(Table', R)
      BY <1>6, <3>1, TableSet
    <3> QED
      BY <2>1, <3>1, <3>2
  <2>2. CASE StartingAt(p) # {}
    <3>1. SetTable(Deleted(got, p)) /\ stopped' = stopped /\ regions' = R \ StartingAt(p)
      BY <1>7, <1>9, <2>2
    <3>2. TableOK(Table', R \ StartingAt(p))
      BY <1>9, <2>2, <3>1, TableSet
    <3> QED
      BY <2>2, <3>1, <3>2
  <2> QED
    BY <2>1, <2>2
<1>13. FramesOK'
  BY <1>2, <1>4, <1>11, <1>12, FramesKeptNew
<1>14. RegionsOK(regions') /\ \A s \in regions' : s.size \in KnownSizes
  BY <1>4, <1>5, <1>12, FewerOK DEF Inv
<1>15. Inv'
  BY <1>12, <1>13, <1>14 DEF Inv
<1>16. Abs!Realloc(p)
  <2>1. r \in regions' \ regions
    BY <1>2, <1>4, <1>5, <1>12 DEF StartingAt
  <2>2. Abs!AllApart(regions \cup {r})
    BY <1>4, <1>5 DEF RegionsOK
  <2> QED
    BY <1>4, <1>10, <1>12, <2>1, <2>2 DEF Abs!Realloc
<1> QED
  BY <1>15, <1>16 DEF AbsStep, Abs!Next

LEMMA FrameArraysIs ==
    ASSUME NEW f \in Frames
    PROVE  {Region(f[i].start, f[i].size, FALSE) : i \in DOMAIN f} = FrameArrays(f)
<1>1. DOMAIN f = 1..Len(f)
  BY ArraysIs
<1> QED
  BY <1>1, Zenon DEF FrameArrays, Arrays, ArrayRegion

LEMMA FrameArrayIs ==
    ASSUME NEW f \in Frames, NEW r \in FrameArrays(f)
    PROVE  /\ r.heap = FALSE /\ r.size \in KnownSizes
           /\ \E i \in DOMAIN f : r.start \in Bytes(f[i].start, f[i].size)
<1>1. PICK i \in DOMAIN f : i \in 1..Len(f) /\ r = ArrayRegion(f, i)
  BY ArraysIs DEF FrameArrays, Arrays
<1>2. r.heap = FALSE /\ r.size = f[i].size /\ r.start \in Bytes(f[i].start, f[i].size)
  BY <1>1, ArrayRegionIs
<1> QED
  BY <1>1, <1>2 DEF KnownSizes

LEMMA LocalNewStep ==
    ASSUME Inv, NEW f \in Frames, LocalNew(f)
    PROVE  Inv' /\ AbsStep
<1>1. PICK n \in Nat : n = Len(f)
  BY ArraysIs
<1>2. PICK F : NewTables(F, f, Table, n) /\ SetTable(F[n])
  <2> DEFINE F == CHOOSE g : NewTables(g, f, Table, n)
  <2>1. NewTables(F, f, Table, n)
    BY LocalNewExists
  <2>2. SetTable(F[n])
    BY <1>1 DEF LocalNew, NewTables
  <2> HIDE DEF F
  <2> QED
    BY <2>1, <2>2
<1>3. /\ regions' = regions \cup FrameArrays(f)
      /\ frames' = Append(frames, f) /\ stopped' = stopped
      /\ \A i \in DOMAIN f : Unused(Bytes(f[i].start, f[i].size))
  BY FrameArraysIs DEF LocalNew
<1>4. RegionsOK(regions) /\ TableOK(Table, regions) /\ FramesOK
  BY DEF Inv
<1>5. \A i \in DOMAIN f : \A r \in regions :
         Bytes(r.start, r.size) \cap Bytes(f[i].start, f[i].size) = {}
  BY <1>3 DEF Unused
<1>6. RegionsOK(regions')
  BY <1>3, <1>4, <1>5, ArraysApart DEF FrameArrays
<1>7. TableOK(Table', regions')
  <2>1. TableOK(F[n], regions')
    BY <1>1, <1>2, <1>3, <1>4, <1>5, LocalNewOK DEF FrameArrays, NewTables
  <2> QED
    BY <1>2, <2>1, TableSet
<1>8. Aside(regions', f)
  <2> SUFFICES ASSUME NEW i \in DOMAIN f, NEW r \in FrameArrays(f), r # ArrayRegion(f, i)
               PROVE  Bytes(r.start, r.size) \cap Bytes(f[i].start, f[i].size) = {}
    BY <1>3, <1>5 DEF Aside
  <2>1. PICK j \in 1..Len(f) : r = ArrayRegion(f, j)
    BY DEF FrameArrays, Arrays
  <2>2. r.start = f[j].start /\ r.size = f[j].size
    BY <2>1, ArrayRegionIs
  <2>3. i \in 1..Len(f) /\ i # j
    BY <2>1, ArraysIs
  <2>4. Bytes(f[j].start, f[j].size) \cap Bytes(f[i].start, f[i].size) = {}
    BY <2>3, ArraysIs
  <2> QED
    BY <2>2, <2>4
<1>9. FramesOK'
  <2> PICK m \in Nat : m = Len(frames) /\ DOMAIN frames = 1..m
    BY <1>4 DEF FramesOK
  <2>1. PICK q : /\ q = frames' /\ q \in Seq(Frames) /\ m = Len(frames)
                 /\ DOMAIN frames = 1..m /\ DOMAIN q = 1..m + 1
                 /\ q[m + 1] = f /\ \A k \in 1..m : q[k] = frames[k]
    BY <1>3, <1>4 DEF FramesOK
  <2>2. ASSUME NEW k \in DOMAIN frames PROVE Aside(regions', frames[k])
    <3>1. PICK g : g = frames[k] /\ Aside(regions, g)
      BY <1>4 DEF FramesOK
    <3>2. ASSUME NEW i \in DOMAIN g, NEW r \in FrameArrays(f)
          PROVE  Bytes(r.start, r.size) \cap Bytes(g[i].start, g[i].size) = {}
      <4>1. PICK j \in DOMAIN f : r.start = f[j].start /\ r.size = f[j].size
        <5>1. PICK j \in 1..Len(f) : r = ArrayRegion(f, j)
          BY DEF FrameArrays, Arrays
        <5>2. r.start = f[j].start /\ r.size = f[j].size
          BY <5>1, ArrayRegionIs
        <5>3. j \in DOMAIN f
          BY ArraysIs
        <5> QED
          BY <5>2, <5>3
      <4>2. Bytes(g[i].start, g[i].size) \cap Bytes(f[j].start, f[j].size) = {}
        BY <1>3, <3>1 DEF Unused
      <4> QED
        BY <4>1, <4>2
    <3> QED
      BY <1>3, <3>1, <3>2 DEF Aside
  <2>3. ASSUME NEW k \in DOMAIN q PROVE Aside(regions', q[k])
    <3>1. CASE k = m + 1
      BY <1>8, <2>1, <3>1
    <3>2. CASE k \in 1..m
      BY <2>1, <2>2, <3>2
    <3> QED
      BY <2>1, <3>1, <3>2
  <2> QED
    BY <2>1, <2>3 DEF FramesOK
<1>10. \A r \in regions' : r.size \in KnownSizes
  BY <1>3, FrameArrayIs DEF Inv
<1>11. Inv'
  BY <1>6, <1>7, <1>9, <1>10 DEF Inv
<1>12. Abs!Create
  BY <1>3, <1>6 DEF Abs!Create, RegionsOK
<1> QED
  BY <1>11, <1>12 DEF AbsStep, Abs!Next

LEMMA LocalDeleteStep ==
    ASSUME Inv, LocalDelete
    PROVE  Inv' /\ AbsStep
<1>1. PICK f : f = Last(frames)
  OBVIOUS
<1>2. PICK m \in Nat : /\ m + 1 = Len(frames) /\ DOMAIN frames = 1..m + 1
                       /\ f \in Frames /\ f = frames[m + 1]
                       /\ frames \in Seq(Frames)
  <2>1. frames \in Seq(Frames) /\ frames # <<>>
    BY DEF Inv, FramesOK, LocalDelete
  <2>2. PICK l \in Nat : l = Len(frames) /\ DOMAIN frames = 1..l /\ l # 0
    BY <2>1
  <2>3. \A k \in 1..l : frames[k] \in Frames
    BY <2>1, <2>2
  <2>4. f = frames[l]
    BY <1>1, <2>2 DEF Last
  <2> QED
    BY <2>1, <2>2, <2>3, <2>4
<1>3. PICK n \in Nat : n = Len(f)
  BY <1>2, ArraysIs
<1>4. PICK F : DeletedTables(F, f, Table, n) /\ SetTable(F[n])
  <2> DEFINE F == CHOOSE g : DeletedTables(g, f, Table, n)
  <2>1. DeletedTables(F, f, Table, n)
    BY LocalDeleteExists
  <2>2. SetTable(F[n])
    BY <1>1, <1>3 DEF LocalDelete, DeletedTables
  <2> HIDE DEF F
  <2> QED
    BY <2>1, <2>2
<1>5. /\ regions' = regions \ FrameArrays(f)
      /\ frames' = Front(frames) /\ stopped' = stopped
  BY <1>1, <1>2, FrameArraysIs DEF LocalDelete
<1>6. RegionsOK(regions) /\ TableOK(Table, regions) /\ FramesOK
  BY DEF Inv
<1>7. Aside(regions, f)
  BY <1>2, <1>6 DEF FramesOK
<1>8. RegionsOK(regions')
  BY <1>5, <1>6, FewerOK
<1>9. TableOK(Table', regions')
  <2>1. TableOK(F[n], regions')
    BY <1>2, <1>3, <1>4, <1>5, <1>6, <1>7, LocalDeleteOK DEF FrameArrays, DeletedTables
  <2> QED
    BY <1>4, <2>1, TableSet
<1>10. FramesOK'
  <2>1. PICK q : /\ q = frames' /\ q \in Seq(Frames)
                 /\ DOMAIN q = 1..m /\ \A k \in 1..m : q[k] = frames[k]
    <3>1. frames' = SubSeq(frames, 1, m)
      BY <1>2, <1>5 DEF Front
    <3> QED
      BY <1>2, <3>1
  <2>2. ASSUME NEW k \in DOMAIN q PROVE Aside(regions', q[k])
    <3>1. k \in DOMAIN frames /\ q[k] = frames[k]
      BY <1>2, <2>1
    <3>2. Aside(regions, q[k])
      BY <1>6, <3>1 DEF FramesOK
    <3> QED
      BY <1>5, <3>2 DEF Aside
  <2> QED
    BY <2>1, <2>2 DEF FramesOK
<1>11. \A r \in regions' : r.size \in KnownSizes
  BY <1>5 DEF Inv
<1>12. Inv'
  BY <1>8, <1>9, <1>10, <1>11 DEF Inv
<1>13. Abs!Return
  <2>1. \A r \in FrameArrays(f) : r.heap = FALSE
    BY <1>2, FrameArrayIs
  <2> QED
    BY <1>5, <2>1 DEF Abs!Return
<1> QED
  BY <1>12, <1>13 DEF AbsStep, Abs!Next

LEMMA NextStep == Inv /\ [Next]_vars => Inv' /\ AbsStep
<1> SUFFICES ASSUME Inv, [Next]_vars PROVE Inv' /\ AbsStep
  OBVIOUS
<1>1. ASSUME NEW p \in Address, Check(p) PROVE Inv' /\ AbsStep
  BY <1>1, CheckStep
<1>2. ASSUME NEW p \in Address, NEW size \in Sizes, Malloc(p, size) PROVE Inv' /\ AbsStep
  BY <1>2, MallocStep
<1>3. ASSUME NEW p \in Address \ {0}, Free(p) PROVE Inv' /\ AbsStep
  BY <1>3, FreeStep
<1>4. ASSUME NEW p \in Address \ {0}, NEW q \in Address, NEW size \in Sizes \ {0},
             Realloc(p, q, size)
      PROVE  Inv' /\ AbsStep
  BY <1>4, ReallocStep
<1>5. ASSUME NEW f \in Frames, LocalNew(f) PROVE Inv' /\ AbsStep
  BY <1>5, LocalNewStep
<1>6. CASE LocalDelete
  BY <1>6, LocalDeleteStep
<1>7. CASE UNCHANGED vars
  <2>1. UNCHANGED <<t1, t2, regions, frames, stopped>>
    BY <1>7 DEF vars
  <2>2. Inv'
    BY <2>1 DEF Inv, FramesOK, Table
  <2> QED
    BY <2>1, <2>2 DEF AbsStep
<1> QED
  BY <1>1, <1>2, <1>3, <1>4, <1>5, <1>6, <1>7 DEF Next, Stopped

-----------------------------------------------------------------------------
(* The theorems                                                            *)

\* In every state the table is the one of the regions: the inductive invariant.
THEOREM Invariant == Spec => []Inv
<1>1. Inv /\ [Next]_vars => Inv'
  BY NextStep
<1> QED
  BY InitInv, <1>1, PTL DEF Spec

LEMMA ListCardinality ==
    ASSUME NEW S, NEW q \in Seq(Entries), Lists(q, S),
           \A r, s \in S : EntryOf(r) = EntryOf(s) => r = s
    PROVE  /\ Len(q) = Cardinality(S)
           /\ ToSet(q) = {EntryOf(r) : r \in S}
<1>1. PICK n \in Nat : DOMAIN q = 1..n /\ Len(q) = n
  BY SeqIs
<1>2. /\ \A k \in 1..n : \E r \in S : q[k] = EntryOf(r)
      /\ \A r \in S : \E k \in 1..n : q[k] = EntryOf(r)
      /\ \A j, k \in 1..n : q[j] = q[k] => j = k
  BY <1>1 DEF Lists
<1>3. ToSet(q) = {EntryOf(r) : r \in S}
  BY <1>1, <1>2 DEF ToSet
<1>4. PICK M : M = [k \in 1..n |-> CHOOSE r \in S : q[k] = EntryOf(r)]
  OBVIOUS
<1>5. \A k \in 1..n : M[k] \in S /\ q[k] = EntryOf(M[k])
  BY <1>2, <1>4
<1>6. M \in [1..n -> S]
  BY <1>4, <1>5
<1>7. \A j, k \in 1..n : M[j] = M[k] => j = k
  BY <1>2, <1>5
<1>8. \A s \in S : \E k \in 1..n : M[k] = s
  BY <1>2, <1>5
<1>9. M \in Bijection(1..n, S)
  BY <1>6, <1>7, <1>8 DEF Bijection, Injection, Surjection, IsInjective
<1>10. Cardinality(S) = n
  BY <1>9, FS_CountingElements DEF ExistsBijection
<1> QED
  BY <1>1, <1>3, <1>10

LEMMA CellsExactOf == Inv => CellsExact
<1> SUFFICES ASSUME Inv, NEW c \in Cells
             PROVE  LET of   == {r \in regions : CellOf(r.start) <= c /\ c <= CellOf(r.start + r.size)}
                        list == At(Table, c).list
                    IN  IF of = {} THEN Len(list) = 1 /\ list[1].start = 0
                        ELSE /\ ToSet(list) = {Entry(r.start, r.size) : r \in of}
                             /\ Len(list) = Cardinality(of)
  BY DEF CellsExact
<1>1. PICK S : S = Of(regions, c)
  OBVIOUS
<1>2. PICK q : q = At(Table, c).list
  OBVIOUS
<1>3. TableOK(Table, regions) /\ RegionsOK(regions)
  BY DEF Inv
<1>4. S = {} => Len(q) = 1 /\ q[1].start = 0
  BY <1>1, <1>2, <1>3, CellHolds, Blank
<1>5. S # {} => ToSet(q) = {EntryOf(r) : r \in S} /\ Len(q) = Cardinality(S)
  <2> SUFFICES ASSUME S # {} PROVE ToSet(q) = {EntryOf(r) : r \in S} /\ Len(q) = Cardinality(S)
    OBVIOUS
  <2>1. q \in Seq(Entries) /\ Lists(q, S)
    BY <1>1, <1>2, <1>3, CellHolds
  <2>2. S \subseteq regions
    BY <1>1 DEF Of
  <2>3. \A r, s \in S : EntryOf(r) = EntryOf(s) => r = s
    BY <1>3, <2>2, SameEntry
  <2> QED
    BY <2>1, <2>3, ListCardinality
<1>6. S = {r \in regions : CellOf(r.start) <= c /\ c <= CellOf(r.start + r.size)}
  BY <1>1 DEF Of
<1>7. {EntryOf(r) : r \in S} = {Entry(r.start, r.size) : r \in S}
  BY DEF EntryOf
<1> QED
  BY <1>2, <1>4, <1>5, <1>6, <1>7

\* The cells hold the regions of the program and nothing else, each once, after
\* any calls of malloc, free and realloc, functions and checks.
THEOREM CellsAreExact == Spec => []CellsExact
  BY Invariant, CellsExactOf, PTL

\* free and realloc stop the program exactly when they are not given the start
\* of a region of malloc, and end no other region.
THEOREM Implements == Spec => ImplementsRegions
<1>1. Inv /\ [Next]_vars => [Abs!Next]_<<regions, stopped>>
  BY NextStep DEF AbsStep
<1> QED
  BY Invariant, <1>1, PTL DEF Spec, ImplementsRegions

-----------------------------------------------------------------------------
(* What a check answers                                                    *)

LEMMA InRegion ==
    ASSUME NEW n \in Nat \ {0}, NEW a \in Nat, NEW m \in Nat, NEW p \in Nat,
           a <= p, p <= a + m, a + m < n,
           NEW o \in Int, NEW d \in Nat, m - n < o, m + o + d < n,
           NEW x \in Int, x = p - a + o + d
    PROVE  /\ x % n > m => ~ (a <= p + o /\ p + o + d <= a + m)
           /\ ~ (x % n > m) => /\ a <= p + o + d /\ p + o + d <= a + m
                               /\ a <= p + o => (p + o) % n = p + o
<1>1. -n <= x /\ x < n /\ x + n > m
  OBVIOUS
<1>2. CASE x >= 0
  <2>1. x % n = x
    BY <1>1, <1>2, Modulus
  <2>2. x > m <=> ~ (p + o + d <= a + m)
    OBVIOUS
  <2>3. a <= p + o + d
    BY <1>2
  <2>4. ASSUME ~ (x > m), a <= p + o PROVE (p + o) % n = p + o
    <3>1. PICK y \in Int : y = p + o /\ 0 <= y /\ y < n
      BY <2>2, <2>4
    <3> QED
      BY <3>1, Modulus
  <2> QED
    BY <2>1, <2>2, <2>3, <2>4
<1>3. CASE x < 0
  <2>1. x % n = x + n
    BY <1>1, <1>3, Modulus
  <2>2. ~ (a <= p + o)
    BY <1>3
  <2> QED
    BY <1>1, <2>1, <2>2
<1> QED
  BY <1>2, <1>3

LEMMA Multiple ==
    ASSUME NEW n \in Nat, NEW q \in Int, NEW k \in Int, NEW r \in Int, NEW d \in Int, NEW y \in Int,
           y = n * q + r, y + d = n * k
    PROVE  r + d = n * (k - q)
<1>1. PICK u \in Int, v \in Int : u = n * k /\ v = n * q
  OBVIOUS
<1>2. n * (k - q) = u - v
  BY <1>1
<1>3. y = v + r /\ y + d = u
  BY <1>1
<1> HIDE <1>1
<1> QED
  BY <1>2, <1>3

LEMMA LastMultiple ==
    ASSUME NEW n \in Nat \ {0}, NEW t \in Nat, t <= n, NEW d \in Nat, d <= t,
           NEW j \in Int, NEW r \in Int, 0 <= r, r < n, r + d = n * j
    PROVE  r \in {0} \cup n - t .. n - 1
<1>1. j <= 0 \/ j = 1 \/ j >= 2
  OBVIOUS
<1>2. CASE j <= 0
  <2>1. n * j <= 0
    BY <1>2
  <2> QED
    BY <2>1
<1>3. CASE j = 1
  <2>1. n * j = n
    BY <1>3
  <2>2. r = n - d
    BY <2>1
  <2> QED
    BY <2>2
<1>4. CASE j >= 2
  <2>1. n * j >= n * 2
    <3>1. PICK z \in Nat : j = 2 + z
      BY <1>4
    <3>2. n * j = n * 2 + n * z /\ n * z >= 0
      BY <3>1
    <3> QED
      BY <3>2
  <2> QED
    BY <2>1
<1> QED
  BY <1>1, <1>2, <1>3, <1>4

LEMMA DivMod ==
    ASSUME NEW x \in Int, NEW n \in Nat \ {0}
    PROVE  /\ x \div n \in Int /\ x % n \in Int /\ 0 <= x % n /\ x % n < n
           /\ x = n * (x \div n) + (x % n)
  OBVIOUS

\* Of an access to the last bytes of the address space, the first is there too.
LEMMA NearTop ==
    ASSUME NEW n \in Nat \ {0}, NEW t \in Nat, t <= n, NEW d \in Nat, d <= t,
           NEW y \in Int, NEW z \in Int, z = y + d, z % n = 0
    PROVE  y % n \in {0} \cup n - t .. n - 1
<1>1. PICK q \in Int, r \in Int : q = y \div n /\ r = y % n
  BY DivMod
<1>2. 0 <= r /\ r < n /\ y = n * q + r
  BY <1>1, DivMod
<1>3. PICK k \in Int : k = z \div n
  BY DivMod
<1>4. z = n * k
  <2>1. z = n * k + 0
    BY <1>3, DivMod
  <2> QED
    BY <2>1
<1>5. y + d = n * k
  BY <1>4
<1>6. PICK j \in Int : j = k - q
  OBVIOUS
<1>7. r + d = n * j
  BY <1>2, <1>5, <1>6, Multiple
<1> QED
  BY <1>1, <1>2, <1>7, LastMultiple

LEMMA RoundingAtLeast ==
    ASSUME NEW a \in Nat, NEW m \in Nat, NEW b \in Nat \ {0}, m * b <= a
    PROVE  m <= a \div b
<1>1. PICK x \in Nat : x = a \div b /\ a < x * b + b
  BY Rounding
<1> SUFFICES ASSUME m > x PROVE FALSE
  BY <1>1
<1>2. PICK z \in Nat : m = x + 1 + z
  BY <1>1
<1>3. m * b = x * b + b + z * b /\ z * b >= 0
  BY <1>2
<1> QED
  BY <1>1, <1>3

\* INVALID_POINTER is in the last page, which has no table of its own.
LEMMA FoundInvalid ==
    ASSUME NEW T, NEW R, TableOK(T, R)
    PROVE  /\ INVALID_POINTER \in Address /\ INVALID_POINTER \in LastPage .. Space - 1
           /\ Found(T, INVALID_POINTER) = Entry(0, INVALID_SIZE)
<1>1. PICK p \in Nat : p = INVALID_POINTER /\ LastPage <= p /\ p < Space
  BY Constants DEF INVALID_POINTER
<1>2. PICK c \in Cells : c = CellOf(p)
  BY <1>1, CellIs
<1>3. PICK top \in Nat : top = BOUND_T1_SIZE - 1 /\ LastPage = (top * BOUND_T2_SIZE) * BOUND_T3_SIZE
                         /\ top * BOUND_T2_SIZE \in Nat
  BY Constants
<1>4. top * BOUND_T2_SIZE <= c
  BY <1>1, <1>2, <1>3, Constants, RoundingAtLeast DEF CellOf
<1>5. PageOf(c) = top
  <2>1. c \in Nat /\ PageOf(c) \in Pages
    BY PageIs
  <2>2. top <= PageOf(c)
    BY <1>3, <1>4, <2>1, Constants, RoundingAtLeast DEF PageOf
  <2> QED
    BY <1>3, <2>1, <2>2, Constants DEF Pages
<1>6. At(T, c) = InvalidCell
  BY <1>3, <1>5, AtIs DEF TableOK
<1>7. PICK q : q = InvalidCell.list /\ IsBlank(q) /\ q[1] = Entry(0, INVALID_SIZE)
  BY ConstantCells
<1>8. Position(q, p) \in {0, 1}
  BY <1>7, Blank
<1>9. Found(T, p) = q[1]
  BY <1>2, <1>6, <1>7, <1>8, ConstantCells DEF Found
<1>10. p \in Address /\ p \in LastPage .. Space - 1
  BY <1>1, Constants DEF Address
<1> QED
  BY <1>1, <1>7, <1>9, <1>10

\* What a check of the d bytes at p + offset returns.
Answer(e, p, offset, d) ==
    IF (Minus(p, e.start) + offset + d) % Space > e.size THEN INVALID_POINTER
    ELSE (p + offset) % Space

LEMMA AnswerInRegion ==
    ASSUME NEW r \in RegionSet, r.start + r.size < LastPage, r.size \in KnownSizes,
           NEW p, p \in Bytes(r.start, r.size),
           NEW offset \in Offsets, NEW d \in AccessSizes \cup {0},
           NEW answer, answer = Answer(EntryOf(r), p, offset, d)
    PROVE  /\ Abs!In(r, p + offset, d) => answer = p + offset
           /\ ~ Abs!In(r, p + offset, d) =>
                 \/ answer = INVALID_POINTER
                 \/ /\ p + offset < r.start /\ r.start <= p + offset + d
                    /\ answer = (p + offset) % Space
<1>1. PICK a \in Nat, m \in Nat : a = r.start /\ m = r.size /\ a + m < LastPage
  BY DEF RegionSet
<1>2. p \in Nat /\ a <= p /\ p <= a + m
  BY <1>1 DEF Bytes
<1>3. PICK n \in Nat \ {0} : n = Space /\ a + m < n
  BY <1>1, Constants
<1>4. d \in Nat
  BY BoundCheckAssumption, Constants
<1>5. PICK o \in Int : o = offset /\ m - n < o /\ m + o + d < n
  BY <1>1, <1>3, OffsetsAssumption DEF KnownSizes
<1>6. PICK e : e = EntryOf(r) /\ e.start = a /\ e.size = m
  BY <1>1 DEF EntryOf, Entry
<1>7. Minus(p, a) = p - a
  <2>1. PICK y \in Int : y = p - a /\ 0 <= y /\ y < n
    BY <1>2, <1>3
  <2>2. y % n = y
    BY <2>1, Modulus
  <2> QED
    BY <1>3, <2>1, <2>2 DEF Minus
<1>8. PICK x \in Int : x = p - a + o + d
  BY <1>2, <1>4
<1>9. answer = IF x % n > m THEN INVALID_POINTER ELSE (p + o) % n
  BY <1>3, <1>5, <1>6, <1>7, <1>8 DEF Answer
<1>10. /\ x % n > m => ~ (a <= p + o /\ p + o + d <= a + m)
       /\ ~ (x % n > m) => /\ a <= p + o + d /\ p + o + d <= a + m
                           /\ a <= p + o => (p + o) % n = p + o
  BY <1>2, <1>3, <1>4, <1>5, <1>8, InRegion
<1>11. Abs!In(r, p + o, d) <=> a <= p + o /\ p + o + d <= a + m
  BY <1>1 DEF Abs!In
<1>12. a <= p + o \/ p + o < a
  BY <1>2
<1>13. CASE x % n > m
  BY <1>5, <1>9, <1>10, <1>11, <1>13
<1>14. CASE ~ (x % n > m)
  <2>1. answer = (p + o) % n
    BY <1>9, <1>14
  <2>2. a <= p + o + d /\ p + o + d <= a + m
    BY <1>10, <1>14
  <2>3. CASE a <= p + o
    BY <1>5, <1>10, <1>11, <1>14, <2>1, <2>2, <2>3
  <2>4. CASE p + o < a
    <3>1. ~ Abs!In(r, p + o, d)
      BY <1>2, <1>11, <2>4
    <3> QED
      BY <1>1, <1>3, <1>5, <2>1, <2>2, <2>4, <3>1
  <2> QED
    BY <1>12, <2>3, <2>4
<1> QED
  BY <1>13, <1>14

LEMMA AnswerInvalid ==
    ASSUME NEW offset \in Offsets, NEW d \in AccessSizes \cup {0}, NEW p, p = INVALID_POINTER,
           NEW answer, answer = Answer(Entry(0, INVALID_SIZE), p, offset, d)
    PROVE  answer \in {(p + offset) % Space, INVALID_POINTER} \cap ({0} \cup LastPage .. Space - 1)
<1>1. PICK n \in Nat \ {0}, t \in Nat : /\ n = Space /\ t = BOUND_T23_SIZE /\ t >= 2
                                        /\ LastPage = n - t /\ t <= n
  BY Constants
<1>2. p \in Nat /\ p = n - 2 /\ p \in LastPage .. Space - 1
  BY <1>1 DEF INVALID_POINTER
<1>3. d \in Nat /\ d <= t
  BY <1>1, BoundCheckAssumption, Constants
<1>4. PICK o \in Int : o = offset
  BY OffsetsAssumption
<1>5. PICK e : e = Entry(0, INVALID_SIZE) /\ e.start = 0 /\ e.size = 0
  BY DEF Entry, INVALID_SIZE
<1>6. Minus(p, 0) = p
  <2>1. PICK y \in Int : y = p - 0 /\ 0 <= y /\ y < n /\ y = p
    BY <1>1, <1>2
  <2>2. y % n = y
    BY <2>1, Modulus
  <2> QED
    BY <1>1, <2>1, <2>2 DEF Minus
<1>7. PICK z \in Int, y \in Int : y = p + o /\ z = p + o + d /\ z = y + d
  BY <1>2, <1>3
<1>8. answer = IF z % n > 0 THEN INVALID_POINTER ELSE y % n
  BY <1>1, <1>4, <1>5, <1>6, <1>7 DEF Answer
<1>9. CASE z % n > 0
  BY <1>2, <1>8, <1>9
<1>10. CASE ~ (z % n > 0)
  <2>1. z % n = 0
    BY <1>7, <1>10, DivMod
  <2>2. y % n \in {0} \cup n - t .. n - 1
    BY <1>1, <1>3, <1>7, <2>1, NearTop
  <2>3. answer = y % n /\ (p + offset) % Space = y % n
    BY <1>1, <1>4, <1>7, <1>8, <1>10
  <2> QED
    BY <1>1, <2>2, <2>3
<1> QED
  BY <1>9, <1>10

LEMMA AnswerOK ==
    ASSUME Inv, NEW p \in Address, NEW offset \in Offsets, NEW d \in AccessSizes \cup {0}
    PROVE  Answer(Found(Table, p), p, offset, d) \in Abs!Answers(p, offset, d)
<1>1. PICK e : e = Found(Table, p)
  OBVIOUS
<1>2. PICK answer : answer = Answer(e, p, offset, d)
  OBVIOUS
<1>3. PICK of : of = {r \in regions : Abs!Points(r, p)}
  OBVIOUS
<1>4. TableOK(Table, regions) /\ RegionsOK(regions)
  BY DEF Inv
<1>5. p \in Nat
  BY Constants DEF Address
<1>6. ASSUME NEW r \in regions PROVE Abs!Points(r, p) <=> p \in Bytes(r.start, r.size)
  <2>1. PICK a \in Nat, m \in Nat : a = r.start /\ m = r.size
    BY <1>4, RegionIs
  <2> QED
    BY <1>5, <2>1 DEF Abs!Points, Bytes
<1>7. CASE of # {}
  <2>1. PICK r \in regions : r \in of /\ p \in Bytes(r.start, r.size)
    BY <1>3, <1>6, <1>7
  <2>2. of = {r}
    BY <1>3, <1>4, <1>6, <2>1, OneRegion
  <2>3. (CHOOSE s \in of : TRUE) = r
    BY <2>2
  <2>4. e = EntryOf(r)
    BY <1>1, <1>4, <2>1, FoundIs
  <2>5. r \in RegionSet /\ r.start + r.size < LastPage /\ r.size \in KnownSizes
    BY <1>4, RegionIs DEF Inv
  <2>6. PICK from, low, high : /\ from = p + offset /\ (low <=> from < r.start)
                               /\ (high <=> r.start <= from + d)
    OBVIOUS
  <2>7. /\ Abs!In(r, from, d) => answer = from
        /\ ~ Abs!In(r, from, d) =>
              answer = INVALID_POINTER \/ (low /\ high /\ answer = from % Space)
    BY <1>2, <2>1, <2>4, <2>5, <2>6, AnswerInRegion
  <2>8. Abs!Answers(p, offset, d) =
           IF Abs!In(r, from, d) THEN {from}
           ELSE IF low /\ high THEN {from % Space, INVALID_POINTER} ELSE {INVALID_POINTER}
    BY <1>3, <1>7, <2>3, <2>6 DEF Abs!Answers
  <2> QED
    BY <1>1, <1>2, <2>7, <2>8
<1>8. CASE of = {}
  <2>1. \A r \in regions : p \notin Bytes(r.start, r.size)
    BY <1>3, <1>6, <1>8
  <2>2. Abs!Answers(p, offset, d) =
           IF p = INVALID_POINTER
           THEN {(p + offset) % Space, INVALID_POINTER} \cap ({0} \cup LastPage .. Space - 1)
           ELSE {(p + offset) % Space, INVALID_POINTER}
    BY <1>3, <1>8 DEF Abs!Answers
  <2>3. CASE p = INVALID_POINTER
    <3>1. e = Entry(0, INVALID_SIZE)
      BY <1>1, <1>4, <2>3, FoundInvalid
    <3> QED
      BY <1>1, <1>2, <2>2, <2>3, <3>1, AnswerInvalid
  <2>4. CASE p # INVALID_POINTER
    <3>1. answer \in {(p + offset) % Space, INVALID_POINTER}
      BY <1>2 DEF Answer
    <3> QED
      BY <1>1, <1>2, <2>2, <2>4, <3>1
  <2> QED
    BY <2>3, <2>4
<1> QED
  BY <1>7, <1>8

LEMMA ChecksExactOf == Inv => ChecksExact
<1> SUFFICES ASSUME Inv, NEW p \in Address, NEW offset \in Offsets
             PROVE  /\ ptr_add(p, offset) \in Abs!Answers(p, offset, 0)
                    /\ \A d \in AccessSizes :
                          ptr_indir(p, offset, d) \in Abs!Answers(p, offset, d)
  BY DEF ChecksExact
<1>1. PICK e : e = Found(Table, p)
  OBVIOUS
<1>2. ptr_add(p, offset) = Answer(e, p, offset, 0)
  <2>1. PICK x \in Int : x = Minus(p, e.start) + offset
    <3>1. p \in Int /\ e.start \in Int /\ Space \in Nat \ {0} /\ offset \in Int
      <4>1. TableOK(Table, regions) /\ RegionsOK(regions)
        BY DEF Inv
      <4>2. (\E r \in regions : e = EntryOf(r)) \/ e \in Blanks
        BY <1>1, <4>1, FoundIs
      <4>3. e.start \in Int
        <5>1. ASSUME NEW r \in regions, e = EntryOf(r) PROVE e.start \in Int
          <6>1. r.start \in Nat
            BY <4>1, RegionIs
          <6> QED
            BY <5>1, <6>1 DEF EntryOf, Entry
        <5> QED
          BY <4>2, <5>1, BlankEntry
      <4> QED
        BY <4>3, Constants, OffsetsAssumption DEF Address
    <3>2. Minus(p, e.start) \in Int
      <4>1. PICK y \in Int : y = p - e.start
        BY <3>1
      <4> QED
        BY <3>1, <4>1, DivMod DEF Minus
    <3> QED
      BY <3>1, <3>2
  <2>2. x + 0 = x
    OBVIOUS
  <2> QED
    BY <1>1, <2>1, <2>2 DEF ptr_add, Answer
<1>3. Answer(e, p, offset, 0) \in Abs!Answers(p, offset, 0)
  BY <1>1, AnswerOK
<1>4. ASSUME NEW d \in AccessSizes
      PROVE  ptr_indir(p, offset, d) \in Abs!Answers(p, offset, d)
  <2>1. ptr_indir(p, offset, d) = Answer(e, p, offset, d)
    BY <1>1 DEF ptr_indir, Answer
  <2> QED
    BY <1>1, <2>1, AnswerOK
<1> QED
  BY <1>2, <1>3, <1>4

\* Every pointer is checked against its own region, whatever regions share the
\* cell and wherever lookups have moved them.
THEOREM ChecksAreExact == Spec => []ChecksExact
  BY Invariant, ChecksExactOf, PTL
=============================================================================
