---------------------------- MODULE ElfSym_proofs ----------------------------
(***************************************************************************)
(* Proofs about ElfSym, for any number of names, symbols, files and any    *)
(* elf_hash: a lookup in the hash table finds the one symbol of a name     *)
(* that is not local, relocations follow the symbols when the table is     *)
(* sorted, visibilities narrow, and a definition yields only to a stronger *)
(* one.                                                                    *)
(***************************************************************************)
EXTENDS ElfSym, SequenceTheorems, FiniteSetTheorems, WellFoundedInduction, TLAPS

(***************************************************************************)
(* Numbers.                                                                *)
(***************************************************************************)

\* A non-empty set of numbers has a least one.
LEMMA LeastNumber ==
    ASSUME NEW I, I \subseteq Nat, I # {}
    PROVE  \E m \in I : \A i \in I : m <= i
<1>1. PICK m \in I : \A i \in I : ~ (<<i, m>> \in OpToRel(<, Nat))
  BY NatLessThanWellFounded, WFMin, Zenon
<1>2. ASSUME NEW i \in I
      PROVE  m <= i
  <2>1. m \in Nat /\ i \in Nat
    OBVIOUS
  <2>2. i < m => <<i, m>> \in OpToRel(<, Nat)
    BY <2>1 DEF OpToRel
  <2>3. ~ (i < m)
    BY <1>1, <2>2
  <2> QED
    BY <2>1, <2>3
<1> QED
  BY <1>2

\* Greatest returns the greatest of a bounded set, and 0 for an empty one.
LEMMA GreatestIs ==
    ASSUME NEW m \in Nat, NEW S, S \subseteq 1 .. m
    PROVE  /\ S = {} => Greatest(S) = 0
           /\ S # {} => Greatest(S) \in S /\ \A j \in S : j <= Greatest(S)
<1>1. ASSUME S # {}
      PROVE  \E i \in S : \A j \in S : j <= i
  <2> DEFINE I == {m - j : j \in S}
  <2>1. I \subseteq Nat /\ I # {}
    <3>1. \A j \in S : j \in 1 .. m /\ m - j \in Nat
      OBVIOUS
    <3> QED
      BY <1>1, <3>1
  <2>2. PICK x \in I : \A i \in I : x <= i
    <3> HIDE DEF I
    <3> QED
      BY <2>1, LeastNumber
  <2>3. PICK i \in S : x = m - i
    OBVIOUS
  <2>4. \A j \in S : m - i <= m - j
    BY <2>2, <2>3
  <2>5. \A j \in S : j <= i
    BY <2>4
  <2> QED
    BY <2>5
<1> QED
  BY <1>1 DEF Greatest

LEMMA GreatestUnique ==
    ASSUME NEW m \in Nat, NEW S, S \subseteq 1 .. m, NEW x \in S, \A j \in S : j <= x
    PROVE  Greatest(S) = x
<1>1. Greatest(S) \in S /\ x <= Greatest(S)
  BY GreatestIs
<1>2. x \in 1 .. m /\ Greatest(S) \in 1 .. m /\ Greatest(S) <= x
  BY <1>1
<1> QED
  BY <1>1, <1>2

(***************************************************************************)
(* The hash table.                                                         *)
(***************************************************************************)

\* A record with the five parts of the table, of the right types.
IsTable(T) ==
    /\ T = [syms |-> T.syms, nbuckets |-> T.nbuckets, buckets |-> T.buckets,
            chain |-> T.chain, nb_hashed |-> T.nb_hashed]
    /\ T.syms \in Seq(Symbol)
    /\ T.nbuckets \in Nat \ {0}
    /\ T.buckets \in [0 .. T.nbuckets - 1 -> 0 .. Len(T.syms)]
    /\ T.chain \in Seq(0 .. Len(T.syms)) /\ Len(T.chain) = Len(T.syms)
    /\ T.nb_hashed \in 0 .. Len(T.syms)

\* The chain of a bucket goes through its symbols from the last to the first.
Chained(T) ==
    /\ \A h \in 0 .. T.nbuckets - 1 :
          T.buckets[h] = Greatest(HashedBefore(T.syms, Len(T.syms) + 1, h, T.nbuckets))
    /\ \A i \in 1 .. Len(T.syms) :
          T.chain[i] = IF T.syms[i].bind = "local" THEN 0
                       ELSE Greatest(HashedBefore(T.syms, i,
                                         Bucket(T.syms[i].name, T.nbuckets), T.nbuckets))

\* Names have one symbol that is not local.
Unique(ss) ==
    \A i, j \in 1 .. Len(ss) :
        /\ ss[i].bind # "local" /\ ss[j].bind # "local" /\ ss[i].name = ss[j].name
        => i = j

\* A bucket is one of the buckets.
LEMMA BucketIs ==
    ASSUME NEW n \in Names, NEW nb \in Nat \ {0}
    PROVE  Bucket(n, nb) \in 0 .. nb - 1
<1>1. Hash[n] \in Nat
  BY ElfSymAssumption
<1> DEFINE k == Hash[n]
<1>2. k \in Nat
  BY <1>1
<1> HIDE DEF k
<1>3. k % nb \in 0 .. nb - 1
  BY <1>2
<1> QED
  BY <1>3 DEF Bucket, k

LEMMA SymsAre ==
    ASSUME NEW ss \in Seq(Symbol)
    PROVE  /\ Len(ss) \in Nat /\ DOMAIN ss = 1 .. Len(ss)
           /\ \A i \in 1 .. Len(ss) : ss[i] \in Symbol /\ ss[i].name \in Names
<1>1. Len(ss) \in Nat /\ DOMAIN ss = 1 .. Len(ss)
  OBVIOUS
<1>2. \A i \in 1 .. Len(ss) : ss[i] \in Symbol
  OBVIOUS
<1>3. \A x \in Symbol : x.name \in Names
  BY DEF Symbol
<1> QED
  BY <1>1, <1>2, <1>3

\* What precedes i in a bucket is numbered below i.
LEMMA HashedBeforeIs ==
    ASSUME NEW ss \in Seq(Symbol), NEW i \in 1 .. Len(ss) + 1, NEW h, NEW nb
    PROVE  /\ HashedBefore(ss, i, h, nb) \subseteq 1 .. Len(ss)
           /\ HashedBefore(ss, i, h, nb) \subseteq 1 .. i - 1
           /\ Greatest(HashedBefore(ss, i, h, nb)) \in 0 .. i - 1
           /\ Greatest(HashedBefore(ss, i, h, nb)) \in 0 .. Len(ss)
<1>1. Len(ss) \in Nat /\ DOMAIN ss = 1 .. Len(ss) /\ i - 1 \in Nat /\ i - 1 <= Len(ss)
  BY SymsAre
<1> DEFINE S == HashedBefore(ss, i, h, nb)
<1>2. S \subseteq 1 .. i - 1 /\ S \subseteq 1 .. Len(ss)
  BY <1>1 DEF HashedBefore
<1> HIDE DEF S
<1>3. Greatest(S) \in 0 .. i - 1
  <2>1. /\ S = {} => Greatest(S) = 0
        /\ S # {} => Greatest(S) \in S
    BY <1>1, <1>2, GreatestIs
  <2> DEFINE g == Greatest(S)
  <2>2. g = 0 \/ g \in 1 .. i - 1
    BY <1>2, <2>1
  <2> HIDE DEF g
  <2>3. g \in 0 .. i - 1
    BY <1>1, <2>2
  <2> QED
    BY <2>3 DEF g
<1> QED
  BY <1>1, <1>2, <1>3 DEF S

\* A bucket depends on the names and the bindings of the symbols alone.
LEMMA HashedBeforeSame ==
    ASSUME NEW ss \in Seq(Symbol), NEW tt \in Seq(Symbol),
           NEW i \in 1 .. Len(ss) + 1, Len(ss) <= Len(tt), NEW h, NEW nb,
           \A j \in 1 .. Len(ss) : /\ tt[j].name = ss[j].name
                                   /\ tt[j].bind = "local" <=> ss[j].bind = "local"
    PROVE  HashedBefore(tt, i, h, nb) = HashedBefore(ss, i, h, nb)
<1>1. /\ Len(ss) \in Nat /\ DOMAIN ss = 1 .. Len(ss)
      /\ Len(tt) \in Nat /\ DOMAIN tt = 1 .. Len(tt)
  BY SymsAre
<1> QED
  BY <1>1 DEF HashedBefore

\* Nothing is numbered between the end of a chain's link and its start, so the
\* symbol after the last one of the bucket is the greatest.
LEMMA HashedBeforeNext ==
    ASSUME NEW ss \in Seq(Symbol), NEW i \in 1 .. Len(ss), NEW h, NEW nb
    PROVE  Greatest(HashedBefore(ss, i + 1, h, nb)) =
               IF ss[i].bind # "local" /\ Bucket(ss[i].name, nb) = h THEN i
               ELSE Greatest(HashedBefore(ss, i, h, nb))
<1>1. Len(ss) \in Nat /\ DOMAIN ss = 1 .. Len(ss) /\ i + 1 \in 1 .. Len(ss) + 1
  BY SymsAre
<1> DEFINE S == HashedBefore(ss, i + 1, h, nb)
<1>2. CASE ss[i].bind # "local" /\ Bucket(ss[i].name, nb) = h
  <2>1. i \in S /\ (\A j \in S : j <= i) /\ S \subseteq 1 .. Len(ss)
    BY <1>1, <1>2 DEF HashedBefore
  <2> HIDE DEF S
  <2>2. Greatest(S) = i
    BY <1>1, <2>1, GreatestUnique
  <2> QED
    BY <1>2, <2>2 DEF S
<1>3. CASE ~ (ss[i].bind # "local" /\ Bucket(ss[i].name, nb) = h)
  <2>1. S = HashedBefore(ss, i, h, nb)
    BY <1>1, <1>3 DEF HashedBefore
  <2> QED
    BY <1>3, <2>1
<1> QED
  BY <1>2, <1>3

\* rebuild_hash makes a table of any number of buckets.
LEMMA RebuiltTable ==
    ASSUME NEW T, IsTable(T), NEW nb \in Nat \ {0}
    PROVE  /\ IsTable(rebuild_hash(T, nb)) /\ Chained(rebuild_hash(T, nb))
           /\ rebuild_hash(T, nb).syms = T.syms
<1> DEFINE ss == T.syms  R == rebuild_hash(T, nb)
           c == [i \in DOMAIN ss |->
                    IF ss[i].bind = "local" THEN 0
                    ELSE Greatest(HashedBefore(ss, i, Bucket(ss[i].name, nb), nb))]
<1>1. ss \in Seq(Symbol) /\ Len(ss) \in Nat /\ DOMAIN ss = 1 .. Len(ss)
  BY SymsAre DEF IsTable
<1>2. /\ R = [syms |-> ss, nbuckets |-> nb, buckets |-> NewBuckets(T, nb),
              chain |-> c, nb_hashed |-> T.nb_hashed]
  <2>1. R = [T EXCEPT !.nbuckets = nb, !.buckets = NewBuckets(T, nb), !.chain = c]
    BY DEF rebuild_hash
  <2> HIDE DEF c, R
  <2> QED
    BY <2>1 DEF IsTable
<1>3. \A i \in 1 .. Len(ss) : c[i] \in 0 .. Len(ss)
  <2>1. SUFFICES ASSUME NEW i \in 1 .. Len(ss)
                 PROVE  c[i] \in 0 .. Len(ss)
    OBVIOUS
  <2>2. i \in 1 .. Len(ss) + 1 /\ 0 \in 0 .. Len(ss)
    BY <1>1
  <2>3. Greatest(HashedBefore(ss, i, Bucket(ss[i].name, nb), nb)) \in 0 .. Len(ss)
    BY <1>1, <2>2, HashedBeforeIs
  <2> QED
    BY <1>1, <2>2, <2>3
<1>4. c \in Seq(0 .. Len(ss)) /\ Len(c) = Len(ss)
  <2> DEFINE k == Len(ss)
  <2>1. c = [i \in 1 .. k |-> c[i]] /\ k \in Nat /\ \A i \in 1 .. k : c[i] \in 0 .. k
    BY <1>1, <1>3
  <2> HIDE DEF c, k
  <2>2. c \in [1 .. k -> 0 .. k]
    BY <2>1
  <2>3. c \in Seq(0 .. k) /\ Len(c) = k
    BY <2>1, <2>2
  <2> QED
    BY <2>3 DEF k
<1>5. NewBuckets(T, nb) \in [0 .. nb - 1 -> 0 .. Len(ss)]
  <2>1. SUFFICES ASSUME NEW h \in 0 .. nb - 1
                 PROVE  Greatest(HashedBefore(ss, Len(ss) + 1, h, nb)) \in 0 .. Len(ss)
    BY DEF NewBuckets
  <2>2. Len(ss) + 1 \in 1 .. Len(ss) + 1
    BY <1>1
  <2> QED
    BY <1>1, <2>2, HashedBeforeIs
<1>6. /\ R.syms = ss /\ R.nbuckets = nb /\ R.buckets = NewBuckets(T, nb)
      /\ R.chain = c /\ R.nb_hashed = T.nb_hashed
  BY <1>2
<1>7. IsTable(R)
  <2> HIDE DEF c, R
  <2> QED
    BY <1>2, <1>4, <1>5, <1>6 DEF IsTable
<1>8. Chained(R)
  <2>1. \A h \in 0 .. nb - 1 :
            NewBuckets(T, nb)[h] = Greatest(HashedBefore(ss, Len(ss) + 1, h, nb))
    BY DEF NewBuckets
  <2>2. \A i \in 1 .. Len(ss) :
            c[i] = IF ss[i].bind = "local" THEN 0
                   ELSE Greatest(HashedBefore(ss, i, Bucket(ss[i].name, nb), nb))
    BY <1>1
  <2> HIDE DEF c, R
  <2> QED
    BY <1>6, <2>1, <2>2 DEF Chained
<1> QED
  BY <1>6, <1>7, <1>8

\* The table before a new symbol, seen after it.
LEMMA AppendedBuckets ==
    ASSUME NEW ss \in Seq(Symbol), NEW s \in Symbol, NEW nb
    PROVE  /\ Append(ss, s) \in Seq(Symbol) /\ Len(Append(ss, s)) = Len(ss) + 1
           /\ \A i \in 1 .. Len(ss) : Append(ss, s)[i] = ss[i]
           /\ Append(ss, s)[Len(ss) + 1] = s
           /\ \A h : \A i \in 1 .. Len(ss) + 1 :
                 HashedBefore(Append(ss, s), i, h, nb) = HashedBefore(ss, i, h, nb)
<1> DEFINE tt == Append(ss, s)
<1>1. /\ tt \in Seq(Symbol) /\ Len(tt) = Len(ss) + 1 /\ Len(ss) \in Nat
      /\ \A i \in 1 .. Len(ss) : tt[i] = ss[i]
      /\ tt[Len(ss) + 1] = s
  BY AppendProperties
<1> HIDE DEF tt
<1>2. ASSUME NEW i \in 1 .. Len(ss) + 1, NEW h
      PROVE  HashedBefore(tt, i, h, nb) = HashedBefore(ss, i, h, nb)
  BY <1>1, HashedBeforeSame
<1> QED
  BY <1>1, <1>2 DEF tt

\* The new symbol is the head of its bucket, unless it is local.
LEMMA AppendedHead ==
    ASSUME NEW ss \in Seq(Symbol), NEW s \in Symbol, NEW nb, NEW h
    PROVE  Greatest(HashedBefore(Append(ss, s), Len(ss) + 2, h, nb)) =
               IF s.bind # "local" /\ Bucket(s.name, nb) = h THEN Len(ss) + 1
               ELSE Greatest(HashedBefore(ss, Len(ss) + 1, h, nb))
<1> DEFINE tt == Append(ss, s)  k == Len(ss) + 1
<1>1. /\ tt \in Seq(Symbol) /\ Len(tt) = Len(ss) + 1 /\ Len(ss) \in Nat
      /\ tt[Len(ss) + 1] = s
  BY AppendProperties
<1>2. k \in 1 .. Len(tt) /\ k + 1 = Len(ss) + 2 /\ tt[k] = s /\ k \in 1 .. Len(ss) + 1
  BY <1>1
<1>3. HashedBefore(tt, k, h, nb) = HashedBefore(ss, k, h, nb)
  BY <1>2, AppendedBuckets
<1> HIDE DEF k, tt
<1>4. Greatest(HashedBefore(tt, k + 1, h, nb)) =
          IF s.bind # "local" /\ Bucket(s.name, nb) = h THEN k
          ELSE Greatest(HashedBefore(tt, k, h, nb))
  BY <1>1, <1>2, HashedBeforeNext
<1> QED
  BY <1>2, <1>3, <1>4 DEF k, tt

\* The chain with the head of the bucket of the new symbol, and 0 for a local one.
LEMMA AppendedChain ==
    ASSUME NEW T, IsTable(T), NEW x \in 0 .. Len(T.syms)
    PROVE  /\ Append(T.chain, x) \in Seq(0 .. Len(T.syms) + 1)
           /\ Len(Append(T.chain, x)) = Len(T.syms) + 1
           /\ \A i \in 1 .. Len(T.syms) : Append(T.chain, x)[i] = T.chain[i]
           /\ Append(T.chain, x)[Len(T.syms) + 1] = x
<1> DEFINE k == Len(T.syms)
<1>1. T.chain \in Seq(0 .. k) /\ Len(T.chain) = k /\ k \in Nat
  BY SymsAre DEF IsTable
<1>2. T.chain \in Seq(0 .. k + 1) /\ x \in 0 .. k + 1
  <2>1. \A i \in 1 .. k : T.chain[i] \in 0 .. k /\ T.chain[i] \in 0 .. k + 1
    BY <1>1
  <2>2. T.chain = [i \in 1 .. k |-> T.chain[i]]
    BY <1>1
  <2> QED
    BY <1>1, <2>1, <2>2
<1> HIDE DEF k
<1>3. /\ Append(T.chain, x) \in Seq(0 .. k + 1)
      /\ Len(Append(T.chain, x)) = k + 1
      /\ \A i \in 1 .. k : Append(T.chain, x)[i] = T.chain[i]
      /\ Append(T.chain, x)[k + 1] = x
  BY <1>1, <1>2, AppendProperties
<1> QED
  BY <1>3 DEF k

\* A local symbol is in no chain.
LEMMA PutLocal ==
    ASSUME NEW T, IsTable(T), Chained(T), NEW s \in Symbol, s.bind = "local"
    PROVE  LET P == put_elf_sym(T, s)
           IN  IsTable(P) /\ Chained(P) /\ P.syms = Append(T.syms, s)
<1> DEFINE P == put_elf_sym(T, s)  ss == T.syms  nb == T.nbuckets
           tt == Append(ss, s)  c == Append(T.chain, 0)
<1>1. P = [syms |-> tt, nbuckets |-> nb, buckets |-> T.buckets, chain |-> c,
           nb_hashed |-> T.nb_hashed]
  <2>1. P = [T EXCEPT !.syms = tt, !.chain = c]
    BY DEF put_elf_sym
  <2> HIDE DEF P, tt, c
  <2> QED
    BY <2>1 DEF IsTable
<1>2. /\ P.syms = tt /\ P.nbuckets = nb /\ P.buckets = T.buckets
      /\ P.chain = c /\ P.nb_hashed = T.nb_hashed
  BY <1>1
<1>3. ss \in Seq(Symbol) /\ Len(ss) \in Nat /\ 0 \in 0 .. Len(ss) /\ nb \in Nat \ {0}
  BY SymsAre DEF IsTable
<1>4. /\ tt \in Seq(Symbol) /\ Len(tt) = Len(ss) + 1
      /\ \A i \in 1 .. Len(ss) : tt[i] = ss[i]
      /\ tt[Len(ss) + 1] = s
      /\ \A h : \A i \in 1 .. Len(ss) + 1 : HashedBefore(tt, i, h, nb) = HashedBefore(ss, i, h, nb)
      /\ \A h : Greatest(HashedBefore(tt, Len(ss) + 2, h, nb)) =
                Greatest(HashedBefore(ss, Len(ss) + 1, h, nb))
  BY <1>3, AppendedBuckets, AppendedHead
<1>5. /\ c \in Seq(0 .. Len(ss) + 1) /\ Len(c) = Len(ss) + 1
      /\ \A i \in 1 .. Len(ss) : c[i] = T.chain[i]
      /\ c[Len(ss) + 1] = 0
  BY <1>3, AppendedChain
<1> HIDE DEF P, tt, c
<1>6. IsTable(P)
  <2>1. T.buckets \in [0 .. nb - 1 -> 0 .. Len(ss) + 1] /\ T.nb_hashed \in 0 .. Len(ss) + 1
    BY <1>3 DEF IsTable
  <2> QED
    BY <1>1, <1>2, <1>3, <1>4, <1>5, <2>1 DEF IsTable
<1>7. Chained(P)
  <2>1. \A h \in 0 .. nb - 1 :
            T.buckets[h] = Greatest(HashedBefore(tt, Len(tt) + 1, h, nb))
    <3>1. Len(tt) + 1 = Len(ss) + 2
      BY <1>3, <1>4
    <3> QED
      BY <1>4, <3>1 DEF Chained
  <2>2. ASSUME NEW i \in 1 .. Len(tt)
        PROVE  c[i] = IF tt[i].bind = "local" THEN 0
                      ELSE Greatest(HashedBefore(tt, i, Bucket(tt[i].name, nb), nb))
    <3>1. i \in 1 .. Len(ss) \/ i = Len(ss) + 1
      BY <1>3, <1>4
    <3>2. CASE i \in 1 .. Len(ss)
      <4>1. i \in 1 .. Len(ss) + 1
        BY <1>3, <3>2
      <4> QED
        BY <1>4, <1>5, <3>2, <4>1 DEF Chained
    <3>3. CASE i = Len(ss) + 1
      BY <1>4, <1>5, <3>3
    <3> QED
      BY <3>1, <3>2, <3>3
  <2> QED
    BY <1>2, <2>1, <2>2 DEF Chained
<1> QED
  BY <1>2, <1>6, <1>7 DEF P, tt

\* Any other symbol is the head of its bucket.
LEMMA PutHashed ==
    ASSUME NEW T, IsTable(T), Chained(T), NEW s \in Symbol, s.bind # "local"
    PROVE  LET P == Hashed(T, s)
           IN  IsTable(P) /\ Chained(P) /\ P.syms = Append(T.syms, s)
<1> DEFINE P == Hashed(T, s)  ss == T.syms  nb == T.nbuckets  k == Bucket(s.name, nb)
           tt == Append(ss, s)  c == Append(T.chain, T.buckets[k])
           b == [T.buckets EXCEPT ![k] = Len(ss) + 1]
<1>1. P = [syms |-> tt, nbuckets |-> nb, buckets |-> b, chain |-> c,
           nb_hashed |-> T.nb_hashed + 1]
  <2>1. P = [T EXCEPT !.syms = tt, !.chain = c, !.buckets = b,
                      !.nb_hashed = T.nb_hashed + 1]
    <3> HIDE DEF k
    <3>1. P = [T EXCEPT !.syms = Append(@, s), !.chain = Append(@, T.buckets[k]),
                        !.buckets[k] = Len(T.syms) + 1, !.nb_hashed = @ + 1]
      BY DEF Hashed, k
    <3> QED
      BY <3>1 DEF IsTable
  <2> HIDE DEF P, tt, c, b
  <2> QED
    BY <2>1 DEF IsTable
<1>2. /\ P.syms = tt /\ P.nbuckets = nb /\ P.buckets = b
      /\ P.chain = c /\ P.nb_hashed = T.nb_hashed + 1
  BY <1>1
<1>3. /\ ss \in Seq(Symbol) /\ Len(ss) \in Nat /\ nb \in Nat \ {0}
      /\ s.name \in Names /\ T.buckets \in [0 .. nb - 1 -> 0 .. Len(ss)]
  BY SymsAre DEF IsTable, Symbol
<1>4. k \in 0 .. nb - 1 /\ T.buckets[k] \in 0 .. Len(ss)
  <2>1. k \in 0 .. nb - 1
    BY <1>3, BucketIs
  <2> QED
    BY <1>3, <2>1
<1>5. /\ tt \in Seq(Symbol) /\ Len(tt) = Len(ss) + 1
      /\ \A i \in 1 .. Len(ss) : tt[i] = ss[i]
      /\ tt[Len(ss) + 1] = s
      /\ \A h : \A i \in 1 .. Len(ss) + 1 : HashedBefore(tt, i, h, nb) = HashedBefore(ss, i, h, nb)
      /\ \A h : Greatest(HashedBefore(tt, Len(ss) + 2, h, nb)) =
                IF k = h THEN Len(ss) + 1
                ELSE Greatest(HashedBefore(ss, Len(ss) + 1, h, nb))
  <2>1. /\ tt \in Seq(Symbol) /\ Len(tt) = Len(ss) + 1
        /\ \A i \in 1 .. Len(ss) : tt[i] = ss[i]
        /\ tt[Len(ss) + 1] = s
    BY <1>3, AppendedBuckets
  <2>2. \A h : \A i \in 1 .. Len(ss) + 1 :
            HashedBefore(tt, i, h, nb) = HashedBefore(ss, i, h, nb)
    BY <1>3, AppendedBuckets
  <2>3. \A h : Greatest(HashedBefore(tt, Len(ss) + 2, h, nb)) =
               IF k = h THEN Len(ss) + 1
               ELSE Greatest(HashedBefore(ss, Len(ss) + 1, h, nb))
    <3>1. ASSUME NEW h
          PROVE  Greatest(HashedBefore(tt, Len(ss) + 2, h, nb)) =
                     IF s.bind # "local" /\ Bucket(s.name, nb) = h THEN Len(ss) + 1
                     ELSE Greatest(HashedBefore(ss, Len(ss) + 1, h, nb))
      BY <1>3, AppendedHead
    <3> HIDE DEF tt
    <3> QED
      BY <3>1
  <2> QED
    BY <2>1, <2>2, <2>3
<1>6. /\ c \in Seq(0 .. Len(ss) + 1) /\ Len(c) = Len(ss) + 1
      /\ \A i \in 1 .. Len(ss) : c[i] = T.chain[i]
      /\ c[Len(ss) + 1] = T.buckets[k]
  BY <1>4, AppendedChain
<1>7. /\ b \in [0 .. nb - 1 -> 0 .. Len(ss) + 1] /\ b[k] = Len(ss) + 1
      /\ \A h \in 0 .. nb - 1 : h # k => b[h] = T.buckets[h]
  BY <1>3, <1>4
<1>8. T.nb_hashed + 1 \in 0 .. Len(ss) + 1
  BY <1>3 DEF IsTable
<1>13. k = Bucket(s.name, nb)
  OBVIOUS
<1> HIDE DEF P, tt, c, b, k
<1>9. IsTable(P)
  BY <1>1, <1>2, <1>3, <1>5, <1>6, <1>7, <1>8 DEF IsTable
<1>10. \A h \in 0 .. nb - 1 : b[h] = Greatest(HashedBefore(tt, Len(tt) + 1, h, nb))
  <2>1. Len(tt) + 1 = Len(ss) + 2
    BY <1>3, <1>5
  <2> QED
    BY <1>5, <1>7, <2>1 DEF Chained
<1>11. ASSUME NEW i \in 1 .. Len(tt)
       PROVE  c[i] = IF tt[i].bind = "local" THEN 0
                     ELSE Greatest(HashedBefore(tt, i, Bucket(tt[i].name, nb), nb))
  <2>1. i \in 1 .. Len(ss) \/ i = Len(ss) + 1
    BY <1>3, <1>5
  <2>2. CASE i \in 1 .. Len(ss)
    <3>1. i \in 1 .. Len(ss) + 1
      BY <1>3, <2>2
    <3> DEFINE h == Bucket(ss[i].name, nb)
    <3>2. c[i] = T.chain[i] /\ tt[i] = ss[i]
      BY <1>5, <1>6, <2>2
    <3>3. T.chain[i] = IF ss[i].bind = "local" THEN 0
                       ELSE Greatest(HashedBefore(ss, i, h, nb))
      BY <2>2 DEF Chained
    <3> HIDE DEF h
    <3>4. HashedBefore(tt, i, h, nb) = HashedBefore(ss, i, h, nb)
      BY <1>5, <3>1
    <3> QED
      BY <3>2, <3>3, <3>4 DEF h
  <2>3. CASE i = Len(ss) + 1
    <3>1. i \in 1 .. Len(ss) + 1
      BY <1>3, <2>3
    <3>2. c[i] = Greatest(HashedBefore(ss, Len(ss) + 1, k, nb))
      BY <1>4, <1>6, <2>3 DEF Chained
    <3>3. c[i] = Greatest(HashedBefore(tt, i, k, nb))
      BY <1>5, <2>3, <3>1, <3>2
    <3>4. tt[i] = s /\ Bucket(tt[i].name, nb) = k
      BY <1>5, <1>13, <2>3
    <3> QED
      BY <3>3, <3>4
  <2> QED
    BY <2>1, <2>2, <2>3
<1>12. Chained(P)
  BY <1>2, <1>10, <1>11 DEF Chained
<1> QED
  BY <1>2, <1>9, <1>12 DEF P, tt

\* put_elf_sym keeps the table, whether or not it doubles the buckets.
LEMMA PutTable ==
    ASSUME NEW T, IsTable(T), Chained(T), NEW s \in Symbol
    PROVE  LET P == put_elf_sym(T, s)
           IN  IsTable(P) /\ Chained(P) /\ P.syms = Append(T.syms, s)
<1> DEFINE P == put_elf_sym(T, s)  H == Hashed(T, s)
<1>1. CASE s.bind = "local"
  BY <1>1, PutLocal
<1>2. CASE s.bind # "local"
  <2>1. IsTable(H) /\ Chained(H) /\ H.syms = Append(T.syms, s)
    BY <1>2, PutHashed
  <2>2. P = H \/ P = rebuild_hash(H, 2 * T.nbuckets)
    BY <1>2 DEF put_elf_sym
  <2>3. 2 * T.nbuckets \in Nat \ {0}
    BY DEF IsTable
  <2> HIDE DEF H, P
  <2>4. LET R == rebuild_hash(H, 2 * T.nbuckets)
        IN  IsTable(R) /\ Chained(R) /\ R.syms = H.syms
    BY <2>1, <2>3, RebuiltTable
  <2>5. IsTable(P) /\ Chained(P) /\ P.syms = Append(T.syms, s)
    BY <2>1, <2>2, <2>4
  <2> QED
    BY <2>5 DEF P
<1> QED
  BY <1>1, <1>2

\* A symbol that keeps its name and stays local or not keeps its place.
LEMMA ChangedTable ==
    ASSUME NEW T, IsTable(T), Chained(T), NEW i \in 1 .. Len(T.syms), NEW s \in Symbol,
           s.name = T.syms[i].name, s.bind = "local" <=> T.syms[i].bind = "local"
    PROVE  LET P == [T EXCEPT !.syms[i] = s]
           IN  IsTable(P) /\ Chained(P) /\ P.syms = [T.syms EXCEPT ![i] = s]
<1> DEFINE P == [T EXCEPT !.syms[i] = s]  ss == T.syms  nb == T.nbuckets
           tt == [ss EXCEPT ![i] = s]
<1>1. P = [syms |-> tt, nbuckets |-> nb, buckets |-> T.buckets, chain |-> T.chain,
           nb_hashed |-> T.nb_hashed]
  <2>1. P = [T EXCEPT !.syms = tt]
    BY DEF IsTable
  <2> HIDE DEF P, tt
  <2> QED
    BY <2>1 DEF IsTable
<1>2. /\ P.syms = tt /\ P.nbuckets = nb /\ P.buckets = T.buckets
      /\ P.chain = T.chain /\ P.nb_hashed = T.nb_hashed
  BY <1>1
<1>3. ss \in Seq(Symbol) /\ Len(ss) \in Nat
  BY SymsAre DEF IsTable
<1>4. /\ tt \in Seq(Symbol) /\ Len(tt) = Len(ss)
      /\ \A j \in 1 .. Len(ss) : /\ tt[j].name = ss[j].name
                                 /\ tt[j].bind = "local" <=> ss[j].bind = "local"
  <2>1. tt \in Seq(Symbol) /\ Len(tt) = Len(ss)
    BY <1>3
  <2>2. tt[i] = s /\ \A j \in 1 .. Len(ss) : j # i => tt[j] = ss[j]
    BY <1>3
  <2> QED
    BY <2>1, <2>2
<1> HIDE DEF P, tt
<1>5. \A h : \A j \in 1 .. Len(ss) + 1 : HashedBefore(tt, j, h, nb) = HashedBefore(ss, j, h, nb)
  <2>1. Len(ss) <= Len(tt)
    BY <1>3, <1>4
  <2> QED
    BY <1>3, <1>4, <2>1, HashedBeforeSame
<1>6. IsTable(P)
  BY <1>1, <1>2, <1>3, <1>4 DEF IsTable
<1>7. Chained(P)
  <2>1. ASSUME NEW h \in 0 .. nb - 1
        PROVE  T.buckets[h] = Greatest(HashedBefore(tt, Len(tt) + 1, h, nb))
    <3>1. Len(ss) + 1 \in 1 .. Len(ss) + 1
      BY <1>3
    <3>2. HashedBefore(tt, Len(ss) + 1, h, nb) = HashedBefore(ss, Len(ss) + 1, h, nb)
      BY <1>5, <3>1
    <3> QED
      BY <1>4, <3>2 DEF Chained
  <2>2. ASSUME NEW j \in 1 .. Len(tt)
        PROVE  T.chain[j] = IF tt[j].bind = "local" THEN 0
                            ELSE Greatest(HashedBefore(tt, j, Bucket(tt[j].name, nb), nb))
    <3>1. j \in 1 .. Len(ss) + 1 /\ j \in 1 .. Len(ss)
      BY <1>3, <1>4
    <3> DEFINE h == Bucket(ss[j].name, nb)
    <3>2. Bucket(tt[j].name, nb) = h /\ (tt[j].bind = "local" <=> ss[j].bind = "local")
      BY <1>4, <3>1
    <3>3. T.chain[j] = IF ss[j].bind = "local" THEN 0
                       ELSE Greatest(HashedBefore(ss, j, h, nb))
      BY <3>1 DEF Chained
    <3> HIDE DEF h
    <3>4. HashedBefore(tt, j, h, nb) = HashedBefore(ss, j, h, nb)
      BY <1>5, <3>1
    <3> QED
      BY <3>2, <3>3, <3>4
  <2> QED
    BY <1>2, <2>1, <2>2 DEF Chained
<1> QED
  BY <1>2, <1>6, <1>7 DEF P, tt

(***************************************************************************)
(* The lookup.                                                             *)
(***************************************************************************)

\* The symbols of name n in the bucket h that precede i.
NamedBefore(ss, n, h, nb, i) == {j \in HashedBefore(ss, i, h, nb) : ss[j].name = n}

\* What the walk down a chain from i returns.
WalkFrom(ss, nb, n, i) ==
    IF i = 0 THEN 0
    ELSE IF ss[i].name = n THEN i
    ELSE IF ss[i].bind = "local" THEN 0
    ELSE Greatest(NamedBefore(ss, n, Bucket(ss[i].name, nb), nb, i))

\* The rest of the chain returns the same.
LEMMA WalkStep ==
    ASSUME NEW T, IsTable(T), Chained(T), NEW n, NEW i \in 1 .. Len(T.syms),
           T.syms[i].name # n
    PROVE  /\ T.chain[i] \in 0 .. Len(T.syms) /\ T.chain[i] < i
           /\ WalkFrom(T.syms, T.nbuckets, n, T.chain[i])
                = WalkFrom(T.syms, T.nbuckets, n, i)
<1> DEFINE ss == T.syms  nb == T.nbuckets  h == Bucket(ss[i].name, nb)
           B == HashedBefore(ss, i, h, nb)  c == T.chain[i]
           N == NamedBefore(ss, n, h, nb, i)
<1>1. ss \in Seq(Symbol) /\ Len(ss) \in Nat /\ DOMAIN ss = 1 .. Len(ss) /\ i \in 1 .. Len(ss) + 1
  BY SymsAre DEF IsTable
<1>2. c = IF ss[i].bind = "local" THEN 0 ELSE Greatest(B)
  BY DEF Chained
<1>3. B \subseteq 1 .. Len(ss) /\ B \subseteq 1 .. i - 1 /\ Greatest(B) \in 0 .. i - 1
      /\ Greatest(B) \in 0 .. Len(ss)
  BY <1>1, HashedBeforeIs
<1>4. c \in 0 .. Len(ss) /\ c < i
  BY <1>1, <1>2, <1>3
<1>5. CASE ss[i].bind = "local"
  BY <1>2, <1>5 DEF WalkFrom
<1>6. CASE ss[i].bind # "local" /\ B = {}
  <2>1. c = 0 /\ N = {}
    BY <1>1, <1>2, <1>3, <1>6, GreatestIs DEF NamedBefore
  <2>2. Greatest(N) = 0
    BY <2>1 DEF Greatest
  <2>3. WalkFrom(ss, nb, n, i) = Greatest(N)
    BY <1>1, <1>6 DEF WalkFrom
  <2>4. WalkFrom(ss, nb, n, 0) = 0
    BY DEF WalkFrom
  <2> QED
    BY <1>4, <2>1, <2>2, <2>3, <2>4
<1>7. CASE ss[i].bind # "local" /\ B # {}
  <2>1. c \in B /\ \A j \in B : j <= c
    BY <1>1, <1>2, <1>3, <1>7, GreatestIs
  <2>2. c \in 1 .. Len(ss) /\ ss[c].bind # "local" /\ Bucket(ss[c].name, nb) = h /\ c # 0
    BY <1>1, <1>3, <2>1 DEF HashedBefore
  <2>3. WalkFrom(ss, nb, n, i) = Greatest(N)
    BY <1>1, <1>7 DEF WalkFrom
  <2>4. N \subseteq 1 .. Len(ss)
    BY <1>3 DEF NamedBefore
  <2>5. CASE ss[c].name = n
    <3>1. c \in N /\ \A j \in N : j <= c
      BY <2>1, <2>5 DEF NamedBefore
    <3> HIDE DEF N
    <3>2. Greatest(N) = c
      BY <1>1, <2>4, <3>1, GreatestUnique
    <3> QED
      BY <1>4, <2>2, <2>3, <2>5, <3>2 DEF WalkFrom
  <2>6. CASE ss[c].name # n
    <3>1. N = NamedBefore(ss, n, h, nb, c)
      <4>1. \A j \in N : j # c
        BY <2>6 DEF NamedBefore
      <4>2. \A j \in 1 .. Len(ss) : j < c => j < i
        BY <1>1, <1>4, <2>2
      <4>3. \A j \in HashedBefore(ss, c, h, nb) : j \in B
        BY <1>1, <4>2 DEF HashedBefore
      <4>4. \A j \in N : j \in B /\ j < c
        BY <1>3, <2>1, <2>2, <4>1 DEF NamedBefore
      <4>5. \A j \in N : j \in HashedBefore(ss, c, h, nb)
        BY <1>1, <4>4 DEF HashedBefore
      <4> QED
        BY <4>3, <4>5 DEF NamedBefore
    <3>2. WalkFrom(ss, nb, n, c) = Greatest(NamedBefore(ss, n, h, nb, c))
      BY <2>2, <2>6 DEF WalkFrom
    <3> QED
      BY <1>4, <2>3, <3>1, <3>2
  <2> QED
    BY <2>5, <2>6
<1> QED
  BY <1>5, <1>6, <1>7, <1>4

\* w is the function that find_elf_sym defines by recursion along the chains.
IsWalk(T, n, w) ==
    w = [i \in 0 .. Len(T.syms) |->
            IF i = 0 THEN 0
            ELSE IF T.syms[i].name = n THEN i ELSE w[T.chain[i]]]

LEMMA WalkExists ==
    ASSUME NEW T, IsTable(T), Chained(T), NEW n
    PROVE  \E w : IsWalk(T, n, w)
<1> DEFINE ss == T.syms  nb == T.nbuckets
           w == [i \in 0 .. Len(ss) |-> WalkFrom(ss, nb, n, i)]
<1>1. ASSUME NEW i \in 0 .. Len(ss)
      PROVE  w[i] = IF i = 0 THEN 0
                    ELSE IF ss[i].name = n THEN i ELSE w[T.chain[i]]
  <2>1. Len(ss) \in Nat
    BY SymsAre DEF IsTable
  <2>2. CASE i = 0 \/ (i # 0 /\ ss[i].name = n)
    BY <2>2 DEF WalkFrom
  <2>3. CASE i # 0 /\ ss[i].name # n
    <3>1. i \in 1 .. Len(ss)
      BY <2>1, <2>3
    <3>2. T.chain[i] \in 0 .. Len(ss)
          /\ WalkFrom(ss, nb, n, T.chain[i]) = WalkFrom(ss, nb, n, i)
      BY <2>3, <3>1, WalkStep
    <3> QED
      BY <2>3, <3>2
  <2> QED
    BY <2>2, <2>3
<1>2. IsWalk(T, n, w)
  <2>1. w = [i \in 0 .. Len(ss) |-> w[i]]
    OBVIOUS
  <2> HIDE DEF w
  <2> QED
    BY <1>1, <2>1 DEF IsWalk
<1> QED
  BY <1>2

LEMMA WalkIs ==
    ASSUME NEW T, IsTable(T), Chained(T), NEW n, NEW w, IsWalk(T, n, w),
           NEW i \in 0 .. Len(T.syms)
    PROVE  w[i] = WalkFrom(T.syms, T.nbuckets, n, i)
<1> DEFINE ss == T.syms  nb == T.nbuckets
           I == {j \in 0 .. Len(ss) : w[j] # WalkFrom(ss, nb, n, j)}
<1>1. SUFFICES ASSUME I # {}
               PROVE  FALSE
  OBVIOUS
<1>2. Len(ss) \in Nat /\ I \subseteq Nat
  BY SymsAre DEF IsTable
<1>3. PICK m \in I : \A j \in I : m <= j
  <2> HIDE DEF I
  <2> QED
    BY <1>1, <1>2, LeastNumber
<1>4. m # 0 /\ m \in 1 .. Len(ss) /\ ss[m].name # n
  BY <1>2, <1>3 DEF IsWalk, WalkFrom
<1>5. /\ T.chain[m] \in 0 .. Len(ss) /\ T.chain[m] < m
      /\ WalkFrom(ss, nb, n, T.chain[m]) = WalkFrom(ss, nb, n, m)
  BY <1>4, WalkStep
<1>6. w[m] = w[T.chain[m]]
  BY <1>2, <1>4 DEF IsWalk
<1>7. T.chain[m] \notin I
  <2>1. ASSUME T.chain[m] \in I
        PROVE  FALSE
    <3>1. m <= T.chain[m]
      BY <1>3, <2>1
    <3> QED
      BY <1>2, <1>4, <1>5, <3>1
  <2> QED
    BY <2>1
<1>8. w[T.chain[m]] = WalkFrom(ss, nb, n, T.chain[m])
  BY <1>5, <1>7
<1> QED
  BY <1>3, <1>5, <1>6, <1>8

\* find_elf_sym finds a symbol of the name that is not local, if there is one.
LEMMA FindIs ==
    ASSUME NEW T, IsTable(T), Chained(T), NEW n \in Names
    PROVE  LET f == find_elf_sym(T, n)
           IN  /\ f \in 0 .. Len(T.syms)
               /\ f # 0 => T.syms[f].bind # "local" /\ T.syms[f].name = n
               /\ f = 0 => \A j \in 1 .. Len(T.syms) :
                               T.syms[j].bind = "local" \/ T.syms[j].name # n
<1> DEFINE ss == T.syms  nb == T.nbuckets  h == Bucket(n, nb)  b == T.buckets[h]
           f == find_elf_sym(T, n)  B == HashedBefore(ss, Len(ss) + 1, h, nb)
<1>1. /\ ss \in Seq(Symbol) /\ Len(ss) \in Nat /\ DOMAIN ss = 1 .. Len(ss)
      /\ nb \in Nat \ {0} /\ Len(ss) + 1 \in 1 .. Len(ss) + 1
  BY SymsAre DEF IsTable
<1>2. h \in 0 .. nb - 1
  BY <1>1, BucketIs
<1>3. b = Greatest(B) /\ B \subseteq 1 .. Len(ss) /\ b \in 0 .. Len(ss)
  BY <1>1, <1>2, HashedBeforeIs DEF Chained
<1>4. f = WalkFrom(ss, nb, n, b)
  <2> DEFINE w == CHOOSE w : IsWalk(T, n, w)
  <2>1. IsWalk(T, n, w)
    BY WalkExists
  <2>2. f = w[b]
    BY DEF find_elf_sym, IsWalk
  <2> HIDE DEF w, f, b
  <2> QED
    BY <1>3, <2>1, <2>2, WalkIs
<1>5. B = {} => b = 0
  BY <1>1, <1>3, GreatestIs
<1>6. B # {} => b \in B /\ \A j \in B : j <= b
  BY <1>1, <1>3, GreatestIs
<1>7. \A j \in 1 .. Len(ss) : ss[j].bind # "local" /\ ss[j].name = n => j \in B
  BY <1>1 DEF HashedBefore
<1>11. \A j \in B : /\ j \in 1 .. Len(ss) /\ j # 0
                     /\ ss[j].bind # "local" /\ Bucket(ss[j].name, nb) = h
  BY <1>1 DEF HashedBefore
<1>8. CASE B = {}
  <2>1. f = 0
    BY <1>4, <1>5, <1>8 DEF WalkFrom
  <2> QED
    BY <1>7, <1>8, <2>1
<1>9. CASE B # {} /\ ss[b].name = n
  <2>1. b \in 1 .. Len(ss) /\ ss[b].bind # "local" /\ b # 0
    BY <1>1, <1>3, <1>6, <1>9 DEF HashedBefore
  <2>2. f = b
    BY <1>4, <1>9, <2>1 DEF WalkFrom
  <2> QED
    BY <1>3, <1>9, <2>1, <2>2
<1>10. CASE B # {} /\ ss[b].name # n
  <2> DEFINE N == NamedBefore(ss, n, h, nb, b)
  <2>1. /\ b \in 1 .. Len(ss) /\ ss[b].bind # "local" /\ b # 0
        /\ Bucket(ss[b].name, nb) = h
    <3>1. b \in B
      BY <1>6, <1>10
    <3> HIDE DEF b, B, h
    <3> QED
      BY <1>11, <3>1
  <2>2. f = Greatest(N)
    BY <1>4, <1>10, <2>1 DEF WalkFrom
  <2>3. N \subseteq 1 .. Len(ss)
        /\ \A j \in N : ss[j].bind # "local" /\ ss[j].name = n
    BY <1>1 DEF NamedBefore, HashedBefore
  <2>4. \A j \in 1 .. Len(ss) : ss[j].bind # "local" /\ ss[j].name = n => j \in N
    <3>1. SUFFICES ASSUME NEW j \in 1 .. Len(ss), ss[j].bind # "local", ss[j].name = n
                   PROVE  j \in N
      OBVIOUS
    <3>2. j \in B /\ j <= b /\ j # b
      BY <1>6, <1>7, <1>10, <3>1
    <3>3. j < b
      BY <1>1, <2>1, <3>2
    <3>4. j \in HashedBefore(ss, b, h, nb)
      BY <1>1, <3>1, <3>2, <3>3 DEF HashedBefore
    <3> QED
      BY <3>1, <3>4 DEF NamedBefore
  <2> HIDE DEF N, f
  <2>5. (N = {} => f = 0) /\ (N # {} => f \in N)
    BY <1>1, <2>2, <2>3, GreatestIs
  <2>6. f \in 0 .. Len(ss) /\ (f # 0 => f \in N) /\ (f = 0 => N = {})
    <3>1. 0 \notin N /\ \A j \in N : j \in 0 .. Len(ss)
      BY <1>1, <2>3
    <3>2. 0 \in 0 .. Len(ss)
      BY <1>1
    <3> QED
      BY <2>5, <3>1, <3>2
  <2>7. /\ f \in 0 .. Len(ss)
        /\ f # 0 => ss[f].bind # "local" /\ ss[f].name = n
        /\ f = 0 => \A j \in 1 .. Len(ss) : ss[j].bind = "local" \/ ss[j].name # n
    BY <2>3, <2>4, <2>6
  <2> QED
    BY <2>7 DEF f
<1> QED
  BY <1>8, <1>9, <1>10

(***************************************************************************)
(* add_elf_sym.                                                            *)
(***************************************************************************)

\* A merged symbol is that of the name.
LEMMA MergedIs ==
    ASSUME NEW e \in Symbol, NEW s \in Symbol, e.name = s.name,
           e.bind # "local", s.bind # "local"
    PROVE  /\ Merged(e, s) \in Symbol /\ Merged(e, s).name = e.name
           /\ Merged(e, s).bind # "local"
<1> DEFINE vis == Narrowed(e.vis, s.vis)
<1>1. vis \in 0 .. 3
  BY DEF Narrowed, Symbol
<1> HIDE DEF vis
<1>2. /\ [s EXCEPT !.vis = vis] \in Symbol /\ [e EXCEPT !.vis = vis] \in Symbol
      /\ [s EXCEPT !.vis = vis].name = s.name /\ [e EXCEPT !.vis = vis].name = e.name
      /\ [s EXCEPT !.vis = vis].bind = s.bind /\ [e EXCEPT !.vis = vis].bind = e.bind
  BY <1>1 DEF Symbol
<1>3. Merged(e, s) \in {s, [s EXCEPT !.vis = vis], [e EXCEPT !.vis = vis]}
  BY DEF Merged, vis
<1> QED
  BY <1>2, <1>3

\* The symbols of ss are those of tt, with their names, and local or not.
Grows(ss, tt) ==
    /\ Len(ss) <= Len(tt)
    /\ \A j \in 1 .. Len(ss) : /\ tt[j].name = ss[j].name
                               /\ tt[j].bind = "local" <=> ss[j].bind = "local"

\* The new symbol of a name, or a local one.
LEMMA AddedNew ==
    ASSUME NEW T, IsTable(T), Chained(T), Unique(T.syms), NEW s \in Symbol,
           s.bind = "local" \/ find_elf_sym(T, s.name) = 0
    PROVE  LET a == Added(T, s)
           IN  /\ IsTable(a.T) /\ Chained(a.T) /\ Unique(a.T.syms)
               /\ a.T.syms = Append(T.syms, s) /\ a.index = Len(T.syms) + 1 /\ a.twice = {}
               /\ Grows(T.syms, a.T.syms)
<1> DEFINE a == Added(T, s)  P == put_elf_sym(T, s)  ss == T.syms  tt == Append(ss, s)
<1>1. a = [T |-> P, index |-> Len(ss) + 1, twice |-> {}]
  BY DEF Added
<1>2. a.T = P /\ a.index = Len(ss) + 1 /\ a.twice = {}
  BY <1>1
<1>3. IsTable(P) /\ Chained(P) /\ P.syms = tt
  BY PutTable
<1>4. /\ ss \in Seq(Symbol) /\ Len(ss) \in Nat /\ Len(tt) = Len(ss) + 1
      /\ \A i \in 1 .. Len(ss) : tt[i] = ss[i]
      /\ tt[Len(ss) + 1] = s
  BY AppendProperties DEF IsTable
<1>5. s.bind = "local" \/ \A j \in 1 .. Len(ss) : ss[j].bind = "local" \/ ss[j].name # s.name
  BY FindIs DEF Symbol
<1> HIDE DEF a, P, tt
<1>6. Unique(tt)
  <2>1. SUFFICES ASSUME NEW i \in 1 .. Len(tt), NEW j \in 1 .. Len(tt),
                        tt[i].bind # "local", tt[j].bind # "local", tt[i].name = tt[j].name
                 PROVE  i = j
    BY DEF Unique
  <2>2. /\ i \in 1 .. Len(ss) \/ i = Len(ss) + 1
        /\ j \in 1 .. Len(ss) \/ j = Len(ss) + 1
    BY <1>4
  <2>3. CASE i \in 1 .. Len(ss) /\ j \in 1 .. Len(ss)
    BY <1>4, <2>1, <2>3 DEF Unique
  <2>4. CASE i = Len(ss) + 1 /\ j \in 1 .. Len(ss)
    BY <1>4, <1>5, <2>1, <2>4
  <2>5. CASE j = Len(ss) + 1 /\ i \in 1 .. Len(ss)
    BY <1>4, <1>5, <2>1, <2>5
  <2> QED
    BY <2>2, <2>3, <2>4, <2>5
<1>7. Grows(ss, tt)
  BY <1>4 DEF Grows
<1> QED
  BY <1>2, <1>3, <1>6, <1>7 DEF a, tt

\* The symbol that the name has already.
LEMMA AddedOld ==
    ASSUME NEW T, IsTable(T), Chained(T), Unique(T.syms), NEW s \in Symbol,
           s.bind # "local", find_elf_sym(T, s.name) # 0
    PROVE  LET a == Added(T, s)
               i == find_elf_sym(T, s.name)
               e == T.syms[i]
           IN  /\ i \in 1 .. Len(T.syms) /\ e \in Symbol
               /\ e.name = s.name /\ e.bind # "local"
               /\ IsTable(a.T) /\ Chained(a.T) /\ Unique(a.T.syms)
               /\ a.T.syms = [T.syms EXCEPT ![i] = Merged(e, s)] /\ a.index = i
               /\ a.twice = IF e.sec # "undef" /\ Clash(e, s) THEN {s.name} ELSE {}
               /\ Grows(T.syms, a.T.syms)
<1> DEFINE a == Added(T, s)  i == find_elf_sym(T, s.name)  ss == T.syms  e == ss[i]
           g == Merged(e, s)  tt == [ss EXCEPT ![i] = g]  P == [T EXCEPT !.syms[i] = g]
<1>1. ss \in Seq(Symbol) /\ Len(ss) \in Nat /\ s.name \in Names
  BY SymsAre DEF IsTable, Symbol
<1>2. i \in 0 .. Len(ss) /\ i # 0 /\ e.bind # "local" /\ e.name = s.name
  BY <1>1, FindIs
<1>3. i \in 1 .. Len(ss) /\ e \in Symbol
  BY <1>1, <1>2
<1>4. g \in Symbol /\ g.name = e.name /\ g.bind # "local"
  BY <1>2, <1>3, MergedIs
<1>5. a = [T |-> P, index |-> i, twice |-> IF e.sec # "undef" /\ Clash(e, s) THEN {s.name} ELSE {}]
  BY <1>2 DEF Added
<1>6. /\ a.T = P /\ a.index = i
      /\ a.twice = IF e.sec # "undef" /\ Clash(e, s) THEN {s.name} ELSE {}
  BY <1>5
<1> HIDE DEF a, g, i
<1>7. IsTable(P) /\ Chained(P) /\ P.syms = tt
  BY <1>2, <1>3, <1>4, ChangedTable
<1>8. /\ Len(tt) = Len(ss) /\ tt[i] = g
      /\ \A j \in 1 .. Len(ss) : j # i => tt[j] = ss[j]
  BY <1>1, <1>3
<1> HIDE DEF P, tt
<1>9. Grows(ss, tt)
  BY <1>1, <1>2, <1>4, <1>8 DEF Grows
<1>10. Unique(tt)
  BY <1>8, <1>9 DEF Grows, Unique
<1> QED
  BY <1>2, <1>3, <1>6, <1>7, <1>9, <1>10 DEF a, i, g, tt

(***************************************************************************)
(* The inductive invariant: until the table is sorted, the chains are      *)
(* those of the symbols, a name has one symbol that is not local, and the  *)
(* unit refers to that one.                                                *)
(***************************************************************************)

UnitOK ==
    \A n \in Names : unit[n].c # 0 =>
        /\ unit[n].c \in 1 .. Len(syms)
        /\ syms[unit[n].c].bind # "local" /\ syms[unit[n].c].name = n

Unsorted == Chained(Table) /\ Unique(syms) /\ UnitOK

ElfInv == TypeOK /\ RelocsExact /\ LocalsFirst /\ (~ written => Unsorted)

\* What TypeOK says of the table is IsTable.
LEMMA TableIs ==
    /\ TypeOK => IsTable(Table)
    /\ IsTable(Table) /\ Len(syms) <= MaxSyms
       /\ relocs \subseteq [sym : 1 .. Len(syms), name : Names, local : BOOLEAN]
       /\ unit \in [Names -> [c : 0 .. Len(syms), weak : BOOLEAN, def : BOOLEAN]]
       /\ twice \subseteq Names /\ defs \in 0 .. MaxDefs /\ written \in BOOLEAN
       => TypeOK
<1>1. /\ Table.syms = syms /\ Table.nbuckets = nbuckets /\ Table.buckets = buckets
      /\ Table.chain = chain /\ Table.nb_hashed = nb_hashed
      /\ Table = [syms |-> Table.syms, nbuckets |-> Table.nbuckets,
                  buckets |-> Table.buckets, chain |-> Table.chain,
                  nb_hashed |-> Table.nb_hashed]
  BY DEF Table
<1>2. TypeOK => IsTable(Table)
  <2> HIDE DEF Table
  <2> QED
    BY <1>1 DEF TypeOK, IsTable
<1>3. IsTable(Table) => /\ syms \in Seq(Symbol) /\ nbuckets \in Nat \ {0}
                        /\ buckets \in [0 .. nbuckets - 1 -> 0 .. Len(syms)]
                        /\ chain \in Seq(0 .. Len(syms)) /\ Len(chain) = Len(syms)
                        /\ nb_hashed \in 0 .. Len(syms)
  BY <1>1 DEF IsTable
<1> QED
  BY <1>2, <1>3 DEF TypeOK

LEMMA TableIsNext ==
    IsTable(Table)' /\ Len(syms') <= MaxSyms
    /\ relocs' \subseteq [sym : 1 .. Len(syms'), name : Names, local : BOOLEAN]
    /\ unit' \in [Names -> [c : 0 .. Len(syms'), weak : BOOLEAN, def : BOOLEAN]]
    /\ twice' \subseteq Names /\ defs' \in 0 .. MaxDefs /\ written' \in BOOLEAN
    => TypeOK'
<1>1. /\ Table'.syms = syms' /\ Table'.nbuckets = nbuckets' /\ Table'.buckets = buckets'
      /\ Table'.chain = chain' /\ Table'.nb_hashed = nb_hashed'
  BY DEF Table
<1>2. IsTable(Table)' => /\ syms' \in Seq(Symbol) /\ nbuckets' \in Nat \ {0}
                         /\ buckets' \in [0 .. nbuckets' - 1 -> 0 .. Len(syms')]
                         /\ chain' \in Seq(0 .. Len(syms')) /\ Len(chain') = Len(syms')
                         /\ nb_hashed' \in 0 .. Len(syms')
  BY <1>1 DEF IsTable
<1> QED
  BY <1>2 DEF TypeOK

\* The table after SetTable.
LEMMA SetTableIs ==
    ASSUME NEW T, IsTable(T), SetTable(T)
    PROVE  Table' = T /\ syms' = T.syms
  BY DEF SetTable, Table, IsTable

\* Relocations of a table that grows stay right.
LEMMA RelocsGrow ==
    ASSUME TypeOK, RelocsExact, Grows(syms, syms'), Len(syms') \in Nat
    PROVE  \A r \in relocs :
               /\ r \in [sym : 1 .. Len(syms'), name : Names, local : BOOLEAN]
               /\ syms'[r.sym].name = r.name
               /\ (syms'[r.sym].bind = "local") = r.local
<1>1. ASSUME NEW r \in relocs
      PROVE  /\ r \in [sym : 1 .. Len(syms'), name : Names, local : BOOLEAN]
             /\ syms'[r.sym].name = r.name
             /\ (syms'[r.sym].bind = "local") = r.local
  <2>1. r \in [sym : 1 .. Len(syms), name : Names, local : BOOLEAN]
    BY DEF TypeOK
  <2>2. Len(syms) \in Nat /\ Len(syms) <= Len(syms')
    BY DEF TypeOK, Grows
  <2>3. r \in [sym : 1 .. Len(syms'), name : Names, local : BOOLEAN] /\ r.sym \in 1 .. Len(syms)
    BY <2>1, <2>2
  <2>4. syms[r.sym].name = r.name /\ (syms[r.sym].bind = "local") = r.local
    BY DEF RelocsExact
  <2>5. syms'[r.sym].name = r.name
    BY <2>3, <2>4 DEF Grows
  <2>6. (syms'[r.sym].bind = "local") <=> (syms[r.sym].bind = "local")
    BY <2>3 DEF Grows
  <2>7. (syms'[r.sym].bind = "local") = (syms[r.sym].bind = "local")
    BY <2>6
  <2> QED
    BY <2>3, <2>4, <2>5, <2>7
<1> QED
  BY <1>1

LEMMA UnitGrows ==
    ASSUME TypeOK, UnitOK, Grows(syms, syms'), Len(syms') \in Nat,
           NEW n \in Names, unit[n].c # 0
    PROVE  /\ unit[n].c \in 1 .. Len(syms) /\ unit[n].c \in 1 .. Len(syms')
           /\ syms'[unit[n].c].bind # "local" /\ syms'[unit[n].c].name = n
<1>1. /\ unit[n].c \in 1 .. Len(syms)
      /\ syms[unit[n].c].bind # "local" /\ syms[unit[n].c].name = n
  BY DEF UnitOK
<1>2. Len(syms) \in Nat /\ Len(syms) <= Len(syms')
  BY DEF TypeOK, Grows
<1> QED
  BY <1>1, <1>2 DEF Grows

\* Both ways of adding a symbol.
LEMMA AddedIs ==
    ASSUME NEW T, IsTable(T), Chained(T), Unique(T.syms), NEW s \in Symbol
    PROVE  LET a == Added(T, s)
           IN  /\ IsTable(a.T) /\ Chained(a.T) /\ Unique(a.T.syms)
               /\ Grows(T.syms, a.T.syms) /\ Len(a.T.syms) \in Nat
               /\ a.index \in 1 .. Len(a.T.syms)
               /\ a.T.syms[a.index].name = s.name
               /\ a.T.syms[a.index].bind = "local" <=> s.bind = "local"
               /\ a.twice \subseteq Names
<1> DEFINE a == Added(T, s)  i == find_elf_sym(T, s.name)  ss == T.syms
<1>1. ss \in Seq(Symbol) /\ Len(ss) \in Nat /\ s.name \in Names
  BY SymsAre DEF IsTable, Symbol
<1>2. CASE s.bind = "local" \/ i = 0
  <2>1. /\ IsTable(a.T) /\ Chained(a.T) /\ Unique(a.T.syms)
        /\ a.T.syms = Append(ss, s) /\ a.index = Len(ss) + 1 /\ a.twice = {}
        /\ Grows(ss, a.T.syms)
    BY <1>2, AddedNew
  <2> HIDE DEF a
  <2>2. Len(a.T.syms) = Len(ss) + 1 /\ a.T.syms[Len(ss) + 1] = s
    BY <1>1, <2>1
  <2>3. /\ a.index \in 1 .. Len(a.T.syms) /\ Len(a.T.syms) \in Nat
        /\ a.T.syms[a.index] = s
    BY <1>1, <2>1, <2>2
  <2> QED
    BY <2>1, <2>3 DEF a
<1>3. CASE s.bind # "local" /\ i # 0
  <2> DEFINE e == ss[i]
  <2>1. /\ i \in 1 .. Len(ss) /\ e \in Symbol /\ e.name = s.name /\ e.bind # "local"
        /\ IsTable(a.T) /\ Chained(a.T) /\ Unique(a.T.syms)
        /\ a.T.syms = [ss EXCEPT ![i] = Merged(e, s)] /\ a.index = i
        /\ a.twice \in {{s.name}, {}}
        /\ Grows(ss, a.T.syms)
    BY <1>3, AddedOld
  <2>2. Merged(e, s).name = s.name /\ Merged(e, s).bind # "local"
    BY <1>3, <2>1, MergedIs
  <2> HIDE DEF a, i, e
  <2>3. Len(a.T.syms) = Len(ss) /\ a.T.syms[a.index] = Merged(e, s)
    BY <1>1, <2>1
  <2>4. a.twice \subseteq Names
    BY <1>1, <2>1
  <2> QED
    BY <1>1, <1>3, <2>1, <2>2, <2>3, <2>4 DEF a
<1> QED
  BY <1>2, <1>3

LEMMA AddStep ==
    ASSUME ElfInv, ~ written, NEW s \in Symbol, add_elf_sym(Added(Table, s), s)
    PROVE  LET a == Added(Table, s)
           IN  /\ IsTable(Table)' /\ Chained(Table)' /\ Unique(syms') /\ syms' = a.T.syms
               /\ Grows(syms, syms') /\ Len(syms') \in Nat /\ Len(syms') <= MaxSyms
               /\ a.index \in 1 .. Len(syms')
               /\ syms'[a.index].name = s.name
               /\ syms'[a.index].bind = "local" <=> s.bind = "local"
               /\ twice' \subseteq Names
               /\ relocs' \subseteq [sym : 1 .. Len(syms'), name : Names, local : BOOLEAN]
               /\ RelocsExact'
<1> DEFINE a == Added(Table, s)
           r == [sym |-> a.index, name |-> s.name, local |-> s.bind = "local"]
<1>1. IsTable(Table) /\ Chained(Table) /\ Unique(Table.syms) /\ Table.syms = syms
  BY TableIs DEF ElfInv, Unsorted, Table
<1>2. /\ IsTable(a.T) /\ Chained(a.T) /\ Unique(a.T.syms)
      /\ Grows(syms, a.T.syms) /\ Len(a.T.syms) \in Nat
      /\ a.index \in 1 .. Len(a.T.syms)
      /\ a.T.syms[a.index].name = s.name
      /\ a.T.syms[a.index].bind = "local" <=> s.bind = "local"
      /\ a.twice \subseteq Names
  BY <1>1, AddedIs
<1>3. /\ Len(a.T.syms) <= MaxSyms /\ SetTable(a.T)
      /\ twice' = twice \cup a.twice /\ relocs' = relocs \cup {r}
  BY DEF add_elf_sym
<1>6. r.sym = a.index /\ r.name = s.name /\ r.local = (s.bind = "local")
      /\ r = [sym |-> r.sym, name |-> r.name, local |-> r.local]
  OBVIOUS
<1> HIDE DEF a, r
<1>4. Table' = a.T /\ syms' = a.T.syms
  BY <1>2, <1>3, SetTableIs
<1>5. IsTable(Table)' /\ Chained(Table)'
  BY <1>2, <1>4 DEF IsTable, Chained
<1>7. r \in [sym : 1 .. Len(syms'), name : Names, local : BOOLEAN]
  <2>1. s.name \in Names
    BY DEF Symbol
  <2> QED
    BY <1>2, <1>4, <1>6, <2>1
<1>8. syms'[r.sym].name = r.name /\ (syms'[r.sym].bind = "local") = r.local
  <2>1. (syms'[a.index].bind = "local") = (s.bind = "local")
    BY <1>2, <1>4
  <2> QED
    BY <1>2, <1>4, <1>6, <2>1
<1>9. \A x \in relocs :
          /\ x \in [sym : 1 .. Len(syms'), name : Names, local : BOOLEAN]
          /\ syms'[x.sym].name = x.name
          /\ (syms'[x.sym].bind = "local") = x.local
  BY <1>2, <1>4, RelocsGrow DEF ElfInv
<1>10. relocs' \subseteq [sym : 1 .. Len(syms'), name : Names, local : BOOLEAN]
  BY <1>3, <1>7, <1>9
<1>11. RelocsExact'
  BY <1>3, <1>8, <1>9 DEF RelocsExact
<1>12. twice' \subseteq Names
  BY <1>2, <1>3 DEF ElfInv, TypeOK
<1> QED
  BY <1>2, <1>3, <1>4, <1>5, <1>10, <1>11, <1>12 DEF a

(***************************************************************************)
(* The actions.                                                            *)
(***************************************************************************)

\* What is left to show of a step before the table is sorted.
LEMMA WorkingStep ==
    ASSUME ElfInv, ~ written, ~ written', written' \in BOOLEAN,
           IsTable(Table)', Chained(Table)', Unique(syms'),
           Grows(syms, syms'), Len(syms') \in Nat, Len(syms') <= MaxSyms,
           relocs' \subseteq [sym : 1 .. Len(syms'), name : Names, local : BOOLEAN],
           RelocsExact', twice' \subseteq Names, defs' \in 0 .. MaxDefs,
           unit' \in [Names -> [c : Nat, weak : BOOLEAN, def : BOOLEAN]],
           \A n \in Names :
               \/ unit'[n].c = unit[n].c \/ unit'[n].c = 0
               \/ /\ unit'[n].c \in 1 .. Len(syms')
                  /\ syms'[unit'[n].c].bind # "local" /\ syms'[unit'[n].c].name = n
    PROVE  ElfInv'
<1>1. UnitOK'
  <2>1. SUFFICES ASSUME NEW n \in Names, unit'[n].c # 0
                 PROVE  /\ unit'[n].c \in 1 .. Len(syms')
                        /\ syms'[unit'[n].c].bind # "local" /\ syms'[unit'[n].c].name = n
    BY DEF UnitOK
  <2>2. CASE unit'[n].c = unit[n].c
    BY <2>1, <2>2, UnitGrows DEF ElfInv, Unsorted
  <2> QED
    BY <2>1, <2>2
<1>2. unit' \in [Names -> [c : 0 .. Len(syms'), weak : BOOLEAN, def : BOOLEAN]]
  <2>1. SUFFICES ASSUME NEW n \in Names
                 PROVE  unit'[n] \in [c : 0 .. Len(syms'), weak : BOOLEAN, def : BOOLEAN]
    OBVIOUS
  <2>2. unit'[n] \in [c : Nat, weak : BOOLEAN, def : BOOLEAN]
    OBVIOUS
  <2>3. unit'[n].c \in 0 .. Len(syms')
    BY <1>1, <2>2 DEF UnitOK
  <2> QED
    BY <2>2, <2>3
<1>3. TypeOK'
  BY <1>2, TableIsNext
<1>4. LocalsFirst'
  BY DEF LocalsFirst
<1> QED
  BY <1>1, <1>3, <1>4 DEF ElfInv, Unsorted

LEMMA UnitType ==
    ASSUME TypeOK
    PROVE  /\ unit \in [Names -> [c : Nat, weak : BOOLEAN, def : BOOLEAN]]
           /\ \A n \in Names : unit[n].c \in 0 .. Len(syms)
<1>1. \A n \in Names : unit[n] \in [c : 0 .. Len(syms), weak : BOOLEAN, def : BOOLEAN]
  BY DEF TypeOK
<1>2. \A n \in Names : unit[n] \in [c : Nat, weak : BOOLEAN, def : BOOLEAN]
  BY <1>1
<1> QED
  BY <1>1, <1>2 DEF TypeOK

LEMMA LoadInv ==
    ASSUME ElfInv, NEW l \in Loadable, Load(l)
    PROVE  ElfInv'
<1> DEFINE defines == l.sec # "undef" /\ l.bind # "local"
           d == IF defines THEN defs + 1 ELSE defs
           s == Sym(l.name, l.bind, l.sec, l.vis, IF defines THEN d ELSE 0)
<1>1. /\ ~ written /\ d <= MaxDefs /\ add_elf_sym(Added(Table, s), s)
      /\ defs' = d /\ UNCHANGED <<unit, written>>
  BY DEF Load, Working
<1>2. l \in [name : Names, bind : Binds, sec : Secs, vis : 0 .. 3]
  BY ElfSymAssumption DEF Binds, Secs
<1>3. d \in 0 .. MaxDefs
  BY <1>1, ElfSymAssumption DEF ElfInv, TypeOK
<1>4. s \in Symbol
  <2>1. (IF defines THEN d ELSE 0) \in 0 .. MaxDefs
    BY <1>3, ElfSymAssumption
  <2> HIDE DEF d, defines
  <2> QED
    BY <1>2, <2>1 DEF Sym, Symbol
<1> HIDE DEF s, d
<1>5. /\ IsTable(Table)' /\ Chained(Table)' /\ Unique(syms')
      /\ Grows(syms, syms') /\ Len(syms') \in Nat /\ Len(syms') <= MaxSyms
      /\ twice' \subseteq Names
      /\ relocs' \subseteq [sym : 1 .. Len(syms'), name : Names, local : BOOLEAN]
      /\ RelocsExact'
  BY <1>1, <1>4, AddStep
<1>6. /\ unit' \in [Names -> [c : Nat, weak : BOOLEAN, def : BOOLEAN]]
      /\ \A n \in Names : unit'[n].c = unit[n].c
      /\ ~ written' /\ written' \in BOOLEAN
  BY <1>1, UnitType DEF ElfInv, TypeOK
<1> QED
  BY <1>1, <1>3, <1>5, <1>6, WorkingStep

\* A symbol of the unit, which is not local.
LEMMA UnitSym ==
    ASSUME NEW n \in Names, NEW weak \in BOOLEAN, NEW sec \in Secs, NEW d \in 0 .. MaxDefs
    PROVE  LET s == Sym(n, Bind(weak), sec, 0, d)
           IN  s \in Symbol /\ s.name = n /\ s.bind # "local" /\ s.sec = sec
  BY DEF Sym, Bind, Symbol, Binds

LEMMA ReferInv ==
    ASSUME ElfInv, NEW n \in UnitNames, Refer(n)
    PROVE  ElfInv'
<1> DEFINE s == Sym(n, Bind(unit[n].weak), "undef", 0, 0)  a == Added(Table, s)
<1>1. /\ ~ written /\ add_elf_sym(a, s) /\ UNCHANGED <<defs, written>>
      /\ unit' = [unit EXCEPT ![n].c = a.index]
  BY DEF Refer, Working
<1>2. n \in Names /\ 0 \in 0 .. MaxDefs /\ unit[n].weak \in BOOLEAN
  BY ElfSymAssumption DEF ElfInv, TypeOK
<1>3. s \in Symbol /\ s.name = n /\ s.bind # "local"
  BY <1>2, UnitSym DEF Secs
<1> HIDE DEF s
<1>4. /\ IsTable(Table)' /\ Chained(Table)' /\ Unique(syms')
      /\ Grows(syms, syms') /\ Len(syms') \in Nat /\ Len(syms') <= MaxSyms
      /\ twice' \subseteq Names
      /\ relocs' \subseteq [sym : 1 .. Len(syms'), name : Names, local : BOOLEAN]
      /\ RelocsExact'
      /\ a.index \in 1 .. Len(syms') /\ syms'[a.index].name = n
      /\ syms'[a.index].bind # "local"
  BY <1>1, <1>3, AddStep
<1> HIDE DEF a
<1>5. /\ unit' \in [Names -> [c : Nat, weak : BOOLEAN, def : BOOLEAN]]
      /\ unit'[n].c = a.index
      /\ \A m \in Names : m # n => unit'[m].c = unit[m].c
  <2>1. unit \in [Names -> [c : Nat, weak : BOOLEAN, def : BOOLEAN]] /\ a.index \in Nat
    BY <1>4, UnitType DEF ElfInv
  <2> QED
    BY <1>1, <1>2, <2>1
<1>6. defs' \in 0 .. MaxDefs /\ ~ written' /\ written' \in BOOLEAN
  BY <1>1 DEF ElfInv, TypeOK
<1> QED
  BY <1>1, <1>2, <1>4, <1>5, <1>6, WorkingStep

\* A symbol is changed in place: its name stays, and it stays local or not.
LEMMA PatchStep ==
    ASSUME ElfInv, ~ written, NEW T, IsTable(T), Chained(T), Unique(T.syms),
           Grows(syms, T.syms), NEW i \in 1 .. Len(T.syms), NEW s \in Symbol,
           s.name = T.syms[i].name, s.bind = "local" <=> T.syms[i].bind = "local",
           SetTable([T EXCEPT !.syms[i] = s]), relocs' = relocs
    PROVE  /\ IsTable(Table)' /\ Chained(Table)' /\ Unique(syms')
           /\ syms' = [T.syms EXCEPT ![i] = s]
           /\ Grows(syms, syms') /\ Grows(T.syms, syms')
           /\ Len(syms') \in Nat /\ Len(syms') = Len(T.syms)
           /\ relocs' \subseteq [sym : 1 .. Len(syms'), name : Names, local : BOOLEAN]
           /\ RelocsExact'
<1> DEFINE P == [T EXCEPT !.syms[i] = s]  tt == [T.syms EXCEPT ![i] = s]
<1>1. IsTable(P) /\ Chained(P) /\ P.syms = tt
  BY ChangedTable
<1>2. /\ Len(T.syms) \in Nat /\ Len(tt) = Len(T.syms) /\ tt[i] = s
      /\ \A j \in 1 .. Len(T.syms) : j # i => tt[j] = T.syms[j]
  BY SymsAre DEF IsTable
<1> HIDE DEF P
<1>3. Table' = P /\ syms' = tt
  BY <1>1, SetTableIs DEF P
<1> HIDE DEF tt
<1>4. Grows(T.syms, tt)
  BY <1>2 DEF Grows
<1>5. Grows(syms, tt)
  <2>1. Len(syms) \in Nat /\ Len(syms) <= Len(tt)
    BY <1>2 DEF Grows, ElfInv, TypeOK
  <2>2. \A j \in 1 .. Len(syms) : j \in 1 .. Len(T.syms)
    BY <1>2, <2>1
  <2> QED
    BY <1>4, <2>1, <2>2 DEF Grows
<1>6. Unique(tt)
  BY <1>2, <1>4 DEF Grows, Unique
<1>7. IsTable(Table)' /\ Chained(Table)'
  BY <1>1, <1>3 DEF IsTable, Chained
<1>8. \A r \in relocs :
          /\ r \in [sym : 1 .. Len(syms'), name : Names, local : BOOLEAN]
          /\ syms'[r.sym].name = r.name
          /\ (syms'[r.sym].bind = "local") = r.local
  BY <1>2, <1>3, <1>5, RelocsGrow DEF ElfInv
<1>9. relocs' \subseteq [sym : 1 .. Len(syms'), name : Names, local : BOOLEAN]
  BY <1>8
<1>10. RelocsExact'
  BY <1>8 DEF RelocsExact
<1> QED
  BY <1>2, <1>3, <1>4, <1>5, <1>6, <1>7, <1>9, <1>10 DEF tt

\* The table before a step, as the lemmas on steps need it.
LEMMA WorkingTable ==
    ASSUME ElfInv, ~ written
    PROVE  /\ IsTable(Table) /\ Chained(Table) /\ Unique(Table.syms) /\ Table.syms = syms
           /\ Grows(syms, syms) /\ Len(syms) \in Nat /\ Len(syms) <= MaxSyms
           /\ \A i \in 1 .. Len(syms) : syms[i] \in Symbol
<1>1. IsTable(Table) /\ Chained(Table) /\ Unique(Table.syms) /\ Table.syms = syms
  BY TableIs DEF ElfInv, Unsorted, Table
<1>2. /\ Len(syms) \in Nat /\ Len(syms) <= MaxSyms
      /\ \A i \in 1 .. Len(syms) : syms[i] \in Symbol
  BY DEF ElfInv, TypeOK
<1> QED
  BY <1>1, <1>2 DEF Grows

\* A change of a symbol of the table, the rest of which stays.
LEMMA PatchedTable ==
    ASSUME ElfInv, ~ written, NEW i \in 1 .. Len(syms), NEW s,
           syms' = [syms EXCEPT ![i] = s],
           UNCHANGED <<nbuckets, buckets, chain, nb_hashed>>
    PROVE  SetTable([Table EXCEPT !.syms[i] = s])
<1> DEFINE P == [Table EXCEPT !.syms[i] = s]  tt == [syms EXCEPT ![i] = s]
<1>1. P = [Table EXCEPT !.syms = tt]
  BY DEF Table
<1>2. /\ P.syms = tt /\ P.nbuckets = nbuckets /\ P.buckets = buckets
      /\ P.chain = chain /\ P.nb_hashed = nb_hashed
  <2> HIDE DEF P, tt
  <2> QED
    BY <1>1 DEF Table
<1> HIDE DEF P
<1>3. SetTable(P)
  BY <1>2 DEF SetTable
<1> QED
  BY <1>3 DEF P

LEMMA WeakenInv ==
    ASSUME ElfInv, NEW n \in UnitNames, Weaken(n)
    PROVE  ElfInv'
<1>1. /\ ~ written /\ unit' = [unit EXCEPT ![n].weak = TRUE]
      /\ UNCHANGED <<nbuckets, buckets, chain, nb_hashed, relocs, twice, defs, written>>
      /\ IF unit[n].c = 0 THEN UNCHANGED syms
         ELSE syms' = [syms EXCEPT ![unit[n].c].bind = "weak"]
  BY DEF Weaken, Working
<1>2. n \in Names
  BY ElfSymAssumption
<1>3. /\ unit' \in [Names -> [c : Nat, weak : BOOLEAN, def : BOOLEAN]]
      /\ \A m \in Names : unit'[m].c = unit[m].c
  <2>1. unit \in [Names -> [c : Nat, weak : BOOLEAN, def : BOOLEAN]]
    BY UnitType DEF ElfInv
  <2> QED
    BY <1>1, <1>2, <2>1
<1>4. /\ ~ written' /\ written' \in BOOLEAN /\ twice' \subseteq Names
      /\ defs' \in 0 .. MaxDefs
  BY <1>1 DEF ElfInv, TypeOK
<1>5. CASE unit[n].c = 0
  <2>1. UNCHANGED <<table, relocs>> /\ Table' = Table
    BY <1>1, <1>5 DEF table, Table
  <2>2. IsTable(Table)' /\ Chained(Table)' /\ Unique(syms') /\ Grows(syms, syms')
    BY <1>1, <2>1, WorkingTable DEF IsTable, Chained, table
  <2>3. /\ relocs' \subseteq [sym : 1 .. Len(syms'), name : Names, local : BOOLEAN]
        /\ Len(syms') \in Nat /\ Len(syms') <= MaxSyms /\ RelocsExact'
    BY <2>1 DEF ElfInv, TypeOK, RelocsExact, table
  <2> QED
    BY <1>1, <1>3, <1>4, <2>2, <2>3, WorkingStep
<1>6. CASE unit[n].c # 0
  <2> DEFINE i == unit[n].c  s == [syms[i] EXCEPT !.bind = "weak"]
  <2>1. i \in 1 .. Len(syms) /\ syms[i].bind # "local" /\ syms[i].name = n
    BY <1>1, <1>2, <1>6 DEF ElfInv, Unsorted, UnitOK
  <2>2. s \in Symbol /\ s.name = syms[i].name /\ s.bind # "local"
    BY <1>1, <2>1, WorkingTable DEF Symbol, Binds
  <2>3. syms' = [syms EXCEPT ![i] = s]
    BY <1>1, <1>6
  <2> HIDE DEF s, i
  <2>4. SetTable([Table EXCEPT !.syms[i] = s])
    BY <1>1, <2>1, <2>3, PatchedTable
  <2>5. /\ IsTable(Table)' /\ Chained(Table)' /\ Unique(syms')
        /\ Grows(syms, syms') /\ Len(syms') \in Nat /\ Len(syms') = Len(syms)
        /\ relocs' \subseteq [sym : 1 .. Len(syms'), name : Names, local : BOOLEAN]
        /\ RelocsExact'
    BY <1>1, <2>1, <2>2, <2>4, WorkingTable, PatchStep
  <2>6. Len(syms') <= MaxSyms
    BY <1>1, <2>5, WorkingTable
  <2> QED
    BY <1>1, <1>3, <1>4, <2>5, <2>6, WorkingStep
<1> QED
  BY <1>5, <1>6

LEMMA DefineInv ==
    ASSUME ElfInv, NEW n \in UnitNames, NEW weak \in BOOLEAN, Define(n, weak)
    PROVE  ElfInv'
<1> DEFINE c == unit[n].c  s == Sym(n, Bind(weak), "sec", 0, defs + 1)  a == Added(Table, s)
<1>1. /\ ~ written /\ defs < MaxDefs /\ defs' = defs + 1 /\ UNCHANGED written
      /\ put_extern_sym(n, weak, "sec")
  BY DEF Define, Working
<1>2. n \in Names /\ defs + 1 \in 0 .. MaxDefs /\ defs' \in 0 .. MaxDefs
  BY <1>1, ElfSymAssumption DEF ElfInv, TypeOK
<1>3. /\ ~ written' /\ written' \in BOOLEAN
      /\ unit \in [Names -> [c : Nat, weak : BOOLEAN, def : BOOLEAN]]
  BY <1>1, UnitType DEF ElfInv, TypeOK
<1>4. CASE c = 0
  <2>1. /\ add_elf_sym(a, s)
        /\ unit' = [unit EXCEPT ![n] = [c |-> a.index, weak |-> weak, def |-> TRUE]]
    BY <1>1, <1>4 DEF put_extern_sym
  <2>2. s \in Symbol /\ s.name = n /\ s.bind # "local"
    BY <1>2, UnitSym DEF Secs
  <2> HIDE DEF s
  <2>3. /\ IsTable(Table)' /\ Chained(Table)' /\ Unique(syms')
        /\ Grows(syms, syms') /\ Len(syms') \in Nat /\ Len(syms') <= MaxSyms
        /\ twice' \subseteq Names
        /\ relocs' \subseteq [sym : 1 .. Len(syms'), name : Names, local : BOOLEAN]
        /\ RelocsExact'
        /\ a.index \in 1 .. Len(syms') /\ syms'[a.index].name = n
        /\ syms'[a.index].bind # "local"
    BY <1>1, <2>1, <2>2, AddStep
  <2> HIDE DEF a
  <2>4. /\ unit' \in [Names -> [c : Nat, weak : BOOLEAN, def : BOOLEAN]]
        /\ unit'[n].c = a.index
        /\ \A m \in Names : m # n => unit'[m].c = unit[m].c
    <3>1. a.index \in Nat
      BY <2>3
    <3> QED
      BY <1>2, <1>3, <2>1, <3>1
  <2> QED
    BY <1>1, <1>2, <1>3, <2>3, <2>4, WorkingStep
<1>5. CASE c # 0
  <2> DEFINE new == [syms[c] EXCEPT !.sec = "sec", !.def = defs + 1,
                                    !.bind = IF weak THEN "weak" ELSE @]
  <2>1. /\ syms' = [syms EXCEPT ![c].sec = "sec", ![c].def = defs + 1,
                                ![c].bind = IF weak THEN "weak" ELSE @]
        /\ unit' = [unit EXCEPT ![n].def = TRUE, ![n].weak = weak]
        /\ UNCHANGED <<nbuckets, buckets, chain, nb_hashed, relocs, twice>>
    BY <1>1, <1>5 DEF put_extern_sym
  <2>2. c \in 1 .. Len(syms) /\ syms[c].bind # "local" /\ syms[c].name = n
        /\ syms[c] \in Symbol
    BY <1>1, <1>2, <1>5, WorkingTable DEF ElfInv, Unsorted, UnitOK
  <2>3. new \in Symbol /\ new.name = syms[c].name /\ new.bind # "local"
    BY <1>2, <2>2 DEF Symbol, Binds, Secs
  <2>4. syms' = [syms EXCEPT ![c] = new]
    BY <2>1, <2>2 DEF Symbol
  <2>5. /\ unit' \in [Names -> [c : Nat, weak : BOOLEAN, def : BOOLEAN]]
        /\ \A m \in Names : unit'[m].c = unit[m].c
    BY <1>2, <1>3, <2>1
  <2> HIDE DEF new, c
  <2>6. SetTable([Table EXCEPT !.syms[c] = new])
    BY <1>1, <2>1, <2>2, <2>4, PatchedTable
  <2>7. /\ IsTable(Table)' /\ Chained(Table)' /\ Unique(syms')
        /\ Grows(syms, syms') /\ Len(syms') \in Nat /\ Len(syms') = Len(syms)
        /\ relocs' \subseteq [sym : 1 .. Len(syms'), name : Names, local : BOOLEAN]
        /\ RelocsExact'
    BY <1>1, <2>1, <2>2, <2>3, <2>6, WorkingTable, PatchStep
  <2>8. Len(syms') <= MaxSyms /\ twice' \subseteq Names
    BY <1>1, <2>1, <2>7, WorkingTable DEF ElfInv, TypeOK
  <2> QED
    BY <1>1, <1>2, <1>3, <2>5, <2>7, <2>8, WorkingStep
<1> QED
  BY <1>4, <1>5

\* The symbol that becomes common, with the table that has it.
LEMMA CommonStep ==
    ASSUME ElfInv, NEW n \in UnitNames, Common(n)
    PROVE  LET s == Sym(n, Bind(unit[n].weak), "undef", 0, 0)
               i == IF unit[n].c = 0 THEN Added(Table, s).index ELSE unit[n].c
               T == IF unit[n].c = 0 THEN Added(Table, s).T ELSE Table
               new == [T.syms[i] EXCEPT !.sec = "common", !.def = defs + 1]
           IN  /\ s \in Symbol /\ s.name = n /\ s.bind # "local" /\ s.sec = "undef"
               /\ IsTable(T) /\ Chained(T) /\ Unique(T.syms) /\ Grows(syms, T.syms)
               /\ Len(T.syms) \in Nat /\ Len(T.syms) <= MaxSyms
               /\ i \in 1 .. Len(T.syms) /\ T.syms[i] \in Symbol
               /\ T.syms[i].name = n /\ T.syms[i].bind # "local"
               /\ new \in Symbol /\ new.name = n /\ new.bind = T.syms[i].bind
               /\ new.sec = "common" /\ new.vis = T.syms[i].vis
               /\ SetTable([T EXCEPT !.syms[i] = new])
               /\ unit' = [unit EXCEPT ![n].c = i, ![n].def = TRUE]
<1> DEFINE s == Sym(n, Bind(unit[n].weak), "undef", 0, 0)
           i == IF unit[n].c = 0 THEN Added(Table, s).index ELSE unit[n].c
           T == IF unit[n].c = 0 THEN Added(Table, s).T ELSE Table
           new == [T.syms[i] EXCEPT !.sec = "common", !.def = defs + 1]
<1>1. /\ ~ written /\ defs < MaxDefs /\ Len(T.syms) <= MaxSyms
      /\ SetTable([T EXCEPT !.syms[i].sec = "common", !.syms[i].def = defs + 1])
      /\ unit' = [unit EXCEPT ![n].c = i, ![n].def = TRUE]
  BY DEF Common, Working
<1>2. n \in Names /\ 0 \in 0 .. MaxDefs /\ unit[n].weak \in BOOLEAN
      /\ defs + 1 \in 0 .. MaxDefs
  <2>1. n \in Names /\ 0 \in 0 .. MaxDefs /\ MaxDefs \in Nat
    BY ElfSymAssumption
  <2>2. unit[n].weak \in BOOLEAN /\ defs \in 0 .. MaxDefs
    BY <2>1 DEF ElfInv, TypeOK
  <2>3. defs < MaxDefs
    BY <1>1
  <2>4. defs + 1 \in 0 .. MaxDefs
    BY <2>1, <2>2, <2>3
  <2> QED
    BY <2>1, <2>2, <2>4
<1>3. s \in Symbol /\ s.name = n /\ s.bind # "local" /\ s.sec = "undef"
  BY <1>2, UnitSym DEF Secs
<1> HIDE DEF s
<1>4. /\ IsTable(T) /\ Chained(T) /\ Unique(T.syms) /\ Grows(syms, T.syms)
      /\ Len(T.syms) \in Nat /\ i \in 1 .. Len(T.syms)
      /\ T.syms[i].name = n /\ T.syms[i].bind # "local"
  <2>1. CASE unit[n].c = 0
    <3> DEFINE a == Added(Table, s)
    <3>1. /\ IsTable(a.T) /\ Chained(a.T) /\ Unique(a.T.syms)
          /\ Grows(syms, a.T.syms) /\ Len(a.T.syms) \in Nat
          /\ a.index \in 1 .. Len(a.T.syms) /\ a.T.syms[a.index].name = n
          /\ a.T.syms[a.index].bind # "local"
      BY <1>1, <1>3, WorkingTable, AddedIs
    <3>2. i = a.index /\ T = a.T
      BY <2>1
    <3> HIDE DEF a, i, T
    <3> QED
      BY <3>1, <3>2
  <2>2. CASE unit[n].c # 0
    <3>1. /\ unit[n].c \in 1 .. Len(syms)
          /\ syms[unit[n].c].bind # "local" /\ syms[unit[n].c].name = n
      BY <1>1, <1>2, <2>2 DEF ElfInv, Unsorted, UnitOK
    <3>2. i = unit[n].c /\ T = Table
      BY <2>2
    <3> HIDE DEF i, T
    <3> QED
      BY <1>1, <3>1, <3>2, WorkingTable
  <2> QED
    BY <2>1, <2>2
<1> HIDE DEF i, T
<1>5. T.syms[i] \in Symbol
  BY <1>4 DEF IsTable
<1>6. /\ new \in Symbol /\ new.name = n /\ new.bind = T.syms[i].bind
      /\ new.sec = "common" /\ new.vis = T.syms[i].vis
  BY <1>2, <1>4, <1>5 DEF Symbol, Secs
<1>7. [T EXCEPT !.syms[i].sec = "common", !.syms[i].def = defs + 1]
        = [T EXCEPT !.syms[i] = new]
  <2> DEFINE t1 == [T.syms EXCEPT ![i].sec = "common", ![i].def = defs + 1]
             t2 == [T.syms EXCEPT ![i] = new]
  <2>1. T.syms \in Seq(Symbol)
    BY <1>4 DEF IsTable
  <2>2. t1 = t2
    BY <1>4, <1>5, <2>1 DEF Symbol
  <2>3. [T EXCEPT !.syms[i].sec = "common", !.syms[i].def = defs + 1] = [T EXCEPT !.syms = t1]
    BY <1>4 DEF IsTable
  <2>4. [T EXCEPT !.syms[i] = new] = [T EXCEPT !.syms = t2]
    BY <1>4 DEF IsTable
  <2> QED
    BY <2>2, <2>3, <2>4
<1>8. SetTable([T EXCEPT !.syms[i] = new])
  BY <1>1, <1>7
<1> QED
  BY <1>1, <1>3, <1>4, <1>5, <1>6, <1>8 DEF s, i, T

LEMMA CommonInv ==
    ASSUME ElfInv, NEW n \in UnitNames, Common(n)
    PROVE  ElfInv'
<1> DEFINE s == Sym(n, Bind(unit[n].weak), "undef", 0, 0)
           i == IF unit[n].c = 0 THEN Added(Table, s).index ELSE unit[n].c
           T == IF unit[n].c = 0 THEN Added(Table, s).T ELSE Table
           new == [T.syms[i] EXCEPT !.sec = "common", !.def = defs + 1]
<1>1. /\ IsTable(T) /\ Chained(T) /\ Unique(T.syms) /\ Grows(syms, T.syms)
      /\ Len(T.syms) <= MaxSyms /\ i \in 1 .. Len(T.syms)
      /\ T.syms[i].name = n /\ T.syms[i].bind # "local"
      /\ new \in Symbol /\ new.name = n /\ new.bind = T.syms[i].bind
      /\ SetTable([T EXCEPT !.syms[i] = new])
      /\ unit' = [unit EXCEPT ![n].c = i, ![n].def = TRUE]
  BY CommonStep
<1>2. /\ ~ written /\ defs < MaxDefs /\ defs' = defs + 1
      /\ UNCHANGED <<relocs, twice, written>>
  BY DEF Common, Working
<1> HIDE DEF new, i, T
<1>3. /\ IsTable(Table)' /\ Chained(Table)' /\ Unique(syms')
      /\ syms' = [T.syms EXCEPT ![i] = new]
      /\ Grows(syms, syms') /\ Len(syms') \in Nat /\ Len(syms') = Len(T.syms)
      /\ relocs' \subseteq [sym : 1 .. Len(syms'), name : Names, local : BOOLEAN]
      /\ RelocsExact'
  BY <1>1, <1>2, PatchStep
<1>4. Len(syms') <= MaxSyms /\ i \in 1 .. Len(syms') /\ i \in Nat
  BY <1>1, <1>3
<1>5. syms'[i] = new
  BY <1>1, <1>3 DEF IsTable
<1>6. /\ n \in Names /\ defs' \in 0 .. MaxDefs /\ twice' \subseteq Names
      /\ ~ written' /\ written' \in BOOLEAN
  BY <1>2, ElfSymAssumption DEF ElfInv, TypeOK
<1>7. /\ unit' \in [Names -> [c : Nat, weak : BOOLEAN, def : BOOLEAN]]
      /\ unit'[n].c = i
      /\ \A m \in Names : m # n => unit'[m].c = unit[m].c
  <2>1. unit \in [Names -> [c : Nat, weak : BOOLEAN, def : BOOLEAN]]
    BY UnitType DEF ElfInv
  <2> QED
    BY <1>1, <1>4, <1>6, <2>1
<1>8. \A m \in Names :
          \/ unit'[m].c = unit[m].c
          \/ /\ unit'[m].c \in 1 .. Len(syms')
             /\ syms'[unit'[m].c].bind # "local" /\ syms'[unit'[m].c].name = m
  BY <1>1, <1>4, <1>5, <1>7
<1> QED
  BY <1>2, <1>3, <1>4, <1>6, <1>7, <1>8, WorkingStep

\* A step that changes nothing of the table.
LEMMA IdleInv ==
    ASSUME ElfInv, UNCHANGED <<table, relocs, twice, defs, written>>,
           unit' = unit \/ unit' = [n \in Names |-> NoSym]
    PROVE  ElfInv'
<1>1. Table' = Table /\ UNCHANGED <<syms, nbuckets, buckets, chain, nb_hashed>>
  BY DEF table, Table
<1>2. unit' \in [Names -> [c : 0 .. Len(syms), weak : BOOLEAN, def : BOOLEAN]]
  <2>1. NoSym \in [c : 0 .. Len(syms), weak : BOOLEAN, def : BOOLEAN]
    BY DEF NoSym, ElfInv, TypeOK
  <2> QED
    BY <2>1 DEF ElfInv, TypeOK
<1>3. TypeOK'
  BY <1>1, <1>2 DEF ElfInv, TypeOK
<1>4. RelocsExact' /\ LocalsFirst'
  BY <1>1 DEF ElfInv, RelocsExact, LocalsFirst
<1>5. ~ written => UnitOK'
  BY <1>1 DEF ElfInv, Unsorted, UnitOK, NoSym
<1>6. ~ written => Chained(Table)' /\ Unique(syms')
  BY <1>1 DEF ElfInv, Unsorted, Chained
<1> QED
  BY <1>3, <1>4, <1>5, <1>6 DEF ElfInv, Unsorted

(***************************************************************************)
(* sort_syms: the new indices are a permutation, local symbols first.      *)
(***************************************************************************)

\* The number of elements up to an element grows with it.
LEMMA UpToIs ==
    ASSUME NEW k \in Nat, NEW S, S \subseteq 1 .. k
    PROVE  /\ IsFiniteSet(S) /\ Cardinality(S) \in Nat
           /\ \A i \in S : UpTo(S, i) \in 1 .. Cardinality(S)
           /\ \A i, j \in S : i < j => UpTo(S, i) < UpTo(S, j)
<1> DEFINE B(i) == {j \in S : j <= i}
<1>1. IsFiniteSet(S) /\ Cardinality(S) \in Nat
  <2>1. IsFiniteSet(1 .. k) /\ S \in SUBSET (1 .. k)
    BY FS_Interval
  <2>2. IsFiniteSet(S)
    BY <2>1, FS_Subset
  <2> QED
    BY <2>2, FS_CardinalityType
<1>2. ASSUME NEW i \in S
      PROVE  /\ B(i) \in SUBSET S /\ {i} \in SUBSET B(i)
             /\ IsFiniteSet(B(i)) /\ Cardinality(B(i)) \in Nat
             /\ Cardinality(B(i)) <= Cardinality(S) /\ Cardinality(B(i)) >= 1
  <2>1. B(i) \in SUBSET S /\ {i} \in SUBSET B(i)
    OBVIOUS
  <2> HIDE DEF B
  <2>2. IsFiniteSet(B(i)) /\ Cardinality(B(i)) <= Cardinality(S)
    BY <1>1, <2>1, FS_Subset
  <2>3. Cardinality(B(i)) \in Nat
    BY <2>2, FS_CardinalityType
  <2>4. Cardinality({i}) <= Cardinality(B(i)) /\ Cardinality({i}) = 1
    BY <2>1, <2>2, FS_Subset, FS_Singleton
  <2> QED
    BY <2>1, <2>2, <2>3, <2>4
<1>3. \A i \in S : UpTo(S, i) = Cardinality(B(i))
  BY DEF UpTo
<1>4. ASSUME NEW i \in S, NEW j \in S, i < j
      PROVE  B(i) \in SUBSET B(j) /\ B(i) # B(j)
  <2>1. j \in B(j) /\ j \notin B(i) /\ \A x \in B(i) : x \in B(j)
    BY <1>4
  <2> QED
    BY <2>1, Zenon
<1> HIDE DEF B
<1>5. ASSUME NEW i \in S
      PROVE  UpTo(S, i) \in 1 .. Cardinality(S)
  BY <1>1, <1>2, <1>3
<1>6. ASSUME NEW i \in S, NEW j \in S, i < j
      PROVE  UpTo(S, i) < UpTo(S, j)
  <2>1. /\ Cardinality(B(i)) <= Cardinality(B(j))
        /\ Cardinality(B(j)) = Cardinality(B(i)) => B(j) = B(i)
    BY <1>2, <1>4, <1>6, FS_Subset
  <2> QED
    BY <1>2, <1>3, <1>4, <1>6, <2>1
<1> QED
  BY <1>1, <1>5, <1>6

LEMMA NewIndexIs ==
    ASSUME NEW ss \in Seq(Symbol)
    PROVE  /\ \A i \in DOMAIN ss : NewIndex(ss, i) \in DOMAIN ss
           /\ \A i, j \in DOMAIN ss : NewIndex(ss, i) = NewIndex(ss, j) => i = j
           /\ \A k \in DOMAIN ss : \E i \in DOMAIN ss : NewIndex(ss, i) = k
           /\ \A i, j \in DOMAIN ss : ss[i].bind # "local" /\ ss[j].bind = "local"
                                         => NewIndex(ss, j) < NewIndex(ss, i)
<1> DEFINE k == Len(ss)  D == DOMAIN ss  L == Locals(ss)  G == D \ L
           cl == Cardinality(L)  cg == Cardinality(G)
           f == [i \in D |-> NewIndex(ss, i)]
<1>1. k \in Nat /\ D = 1 .. k /\ L \subseteq 1 .. k /\ G \subseteq 1 .. k
      /\ D \cap L = L /\ \A i \in D : i \in L \/ i \in G
  BY SymsAre DEF Locals
<1>2. \A i \in D : i \in L <=> ss[i].bind = "local"
  BY DEF Locals
<1>3. /\ IsFiniteSet(L) /\ cl \in Nat
      /\ \A i \in L : UpTo(L, i) \in 1 .. cl
      /\ \A i, j \in L : i < j => UpTo(L, i) < UpTo(L, j)
  <2> HIDE DEF L
  <2> QED
    BY <1>1, UpToIs
<1>4. /\ IsFiniteSet(G) /\ cg \in Nat
      /\ \A i \in G : UpTo(G, i) \in 1 .. cg
      /\ \A i, j \in G : i < j => UpTo(G, i) < UpTo(G, j)
  <2> HIDE DEF G
  <2> QED
    BY <1>1, UpToIs
<1>5. IsFiniteSet(D) /\ Cardinality(D) = k /\ cg = k - cl
  <2>1. IsFiniteSet(1 .. k) /\ Cardinality(1 .. k) = k
    BY <1>1, FS_Interval
  <2> HIDE DEF D, L, k
  <2>2. Cardinality(D \ L) = Cardinality(D) - Cardinality(D \cap L)
    BY <1>1, <2>1, FS_Difference
  <2> QED
    BY <1>1, <2>1, <2>2
<1>6. /\ \A i \in L : NewIndex(ss, i) = UpTo(L, i)
      /\ \A i \in G : NewIndex(ss, i) = cl + UpTo(G, i)
  BY DEF NewIndex
<1>10. G \cap L = {}
  OBVIOUS
<1> HIDE DEF k, D, L, G, cl, cg
<1>7. ASSUME NEW i \in D
      PROVE  NewIndex(ss, i) \in D
  <2>1. CASE i \in L
    <3>1. UpTo(L, i) \in 1 .. cl /\ NewIndex(ss, i) = UpTo(L, i)
      BY <1>3, <1>6, <2>1
    <3> QED
      BY <1>1, <1>3, <1>4, <1>5, <3>1
  <2>2. CASE i \in G
    <3>1. UpTo(G, i) \in 1 .. cg /\ NewIndex(ss, i) = cl + UpTo(G, i)
      BY <1>4, <1>6, <2>2
    <3> QED
      BY <1>1, <1>3, <1>4, <1>5, <3>1
  <2> QED
    BY <1>1, <2>1, <2>2
<1>8. ASSUME NEW i \in D, NEW j \in D, ss[i].bind # "local", ss[j].bind = "local"
      PROVE  NewIndex(ss, j) < NewIndex(ss, i)
  <2>1. i \in G /\ j \in L
    BY <1>1, <1>2, <1>8
  <2>2. UpTo(G, i) \in 1 .. cg /\ NewIndex(ss, i) = cl + UpTo(G, i)
    BY <1>4, <1>6, <2>1
  <2>3. UpTo(L, j) \in 1 .. cl /\ NewIndex(ss, j) = UpTo(L, j)
    BY <1>3, <1>6, <2>1
  <2> QED
    BY <1>3, <1>4, <2>2, <2>3
<1>9. ASSUME NEW i \in D, NEW j \in D, i < j
      PROVE  NewIndex(ss, i) # NewIndex(ss, j)
  <2>1. NewIndex(ss, i) \in Nat /\ NewIndex(ss, j) \in Nat
    BY <1>1, <1>7
  <2>2. CASE i \in L /\ j \in L
    <3>1. UpTo(L, i) < UpTo(L, j) /\ NewIndex(ss, i) = UpTo(L, i)
          /\ NewIndex(ss, j) = UpTo(L, j)
      BY <1>3, <1>6, <1>9, <2>2
    <3> QED
      BY <2>1, <3>1
  <2>3. CASE i \in G /\ j \in G
    <3>1. UpTo(G, i) < UpTo(G, j) /\ NewIndex(ss, i) = cl + UpTo(G, i)
          /\ NewIndex(ss, j) = cl + UpTo(G, j)
      BY <1>4, <1>6, <1>9, <2>3
    <3>2. UpTo(G, i) \in 1 .. cg /\ UpTo(G, j) \in 1 .. cg
      BY <1>4, <2>3
    <3> QED
      BY <1>3, <1>4, <3>1, <3>2
  <2>4. CASE i \in L /\ j \in G
    <3>1. ss[i].bind = "local" /\ ss[j].bind # "local"
      BY <1>2, <1>10, <2>4
    <3> QED
      BY <1>8, <2>1, <3>1
  <2>5. CASE i \in G /\ j \in L
    <3>1. ss[i].bind # "local" /\ ss[j].bind = "local"
      BY <1>2, <1>10, <2>5
    <3> QED
      BY <1>8, <2>1, <3>1
  <2> QED
    BY <1>1, <2>2, <2>3, <2>4, <2>5
<1>11. ASSUME NEW i \in D, NEW j \in D, NewIndex(ss, i) = NewIndex(ss, j)
       PROVE  i = j
  <2>1. i < j \/ j < i \/ i = j
    BY <1>1
  <2> QED
    BY <1>9, <1>11, <2>1
<1>12. \A x \in D : \E i \in D : NewIndex(ss, i) = x
  <2>1. f \in [D -> D] /\ \A i \in D : f[i] = NewIndex(ss, i)
    BY <1>7
  <2>2. f \in Injection(D, D)
    BY <1>11, <2>1 DEF Injection, IsInjective
  <2> HIDE DEF f
  <2>3. f \in Surjection(D, D)
    BY <1>5, <2>2, FS_Injection
  <2> QED
    BY <2>1, <2>3 DEF Surjection
<1> QED
  BY <1>7, <1>8, <1>11, <1>12 DEF D

\* A symbol of the table is in the sorted one, at its new index.
LEMMA WriteSyms ==
    ASSUME ElfInv, Write
    PROVE  /\ syms \in Seq(Symbol) /\ syms' \in Seq(Symbol) /\ Len(syms') = Len(syms)
           /\ \A i \in 1 .. Len(syms) : /\ NewIndex(syms, i) \in 1 .. Len(syms)
                                        /\ syms'[NewIndex(syms, i)] = syms[i]
           /\ \A x \in 1 .. Len(syms) :
                 \E i \in 1 .. Len(syms) : NewIndex(syms, i) = x /\ syms'[x] = syms[i]
<1> DEFINE D == DOMAIN syms  k == Len(syms)
           Old(x) == CHOOSE i \in D : NewIndex(syms, i) = x
<1>1. syms' = [x \in D |-> syms[Old(x)]]
  BY DEF Write
<1>2. syms \in Seq(Symbol) /\ k \in Nat /\ D = 1 .. k
  BY DEF ElfInv, TypeOK
<1>3. /\ \A i \in D : NewIndex(syms, i) \in D
      /\ \A i, j \in D : NewIndex(syms, i) = NewIndex(syms, j) => i = j
      /\ \A x \in D : \E i \in D : NewIndex(syms, i) = x
  BY <1>2, NewIndexIs
<1>4. \A x \in D : Old(x) \in D /\ NewIndex(syms, Old(x)) = x
  BY <1>3
<1>5. \A i \in D : Old(NewIndex(syms, i)) = i
  <2>1. SUFFICES ASSUME NEW i \in D
                 PROVE  Old(NewIndex(syms, i)) = i
    OBVIOUS
  <2> HIDE DEF Old
  <2>2. NewIndex(syms, i) \in D
    BY <1>3
  <2>3. /\ Old(NewIndex(syms, i)) \in D
        /\ NewIndex(syms, Old(NewIndex(syms, i))) = NewIndex(syms, i)
    BY <1>4, <2>2
  <2> QED
    BY <1>3, <2>3
<1>6. \A i \in D : syms[i] \in Symbol
  BY <1>2
<1> HIDE DEF Old
<1>7. syms' \in Seq(Symbol) /\ Len(syms') = k
  <2>1. syms' \in [1 .. k -> Symbol]
    BY <1>1, <1>2, <1>4, <1>6
  <2> QED
    BY <1>2, <2>1
<1>8. \A i \in D : syms'[NewIndex(syms, i)] = syms[i]
  BY <1>1, <1>3, <1>5
<1>9. \A x \in D : \E i \in D : NewIndex(syms, i) = x /\ syms'[x] = syms[i]
  BY <1>1, <1>4
<1> QED
  BY <1>2, <1>3, <1>7, <1>8, <1>9

LEMMA WriteInv ==
    ASSUME ElfInv, Write
    PROVE  ElfInv'
<1> DEFINE D == 1 .. Len(syms)  k == Len(syms)
<1>1. /\ relocs' = {Relocated(syms, r) : r \in relocs}
      /\ written' = TRUE
      /\ UNCHANGED <<nbuckets, buckets, chain, nb_hashed, unit, twice, defs>>
  BY DEF Write
<1>2. /\ syms \in Seq(Symbol) /\ k \in Nat /\ DOMAIN syms = D
      /\ syms' \in Seq(Symbol) /\ Len(syms') = k /\ DOMAIN syms' = D
  BY WriteSyms DEF ElfInv, TypeOK
<1>3. /\ \A i \in D : NewIndex(syms, i) \in D
      /\ \A i, j \in D : syms[i].bind # "local" /\ syms[j].bind = "local"
                            => NewIndex(syms, j) < NewIndex(syms, i)
  BY <1>2, NewIndexIs
<1>4. \A x \in D : \E i \in D : NewIndex(syms, i) = x /\ syms'[x] = syms[i]
  BY WriteSyms
<1>8. \A i \in D : syms'[NewIndex(syms, i)] = syms[i]
  BY WriteSyms
<1>9. ASSUME NEW r \in relocs
      PROVE  LET x == Relocated(syms, r)
             IN  /\ x \in [sym : 1 .. k, name : Names, local : BOOLEAN]
                 /\ syms'[x.sym].name = x.name /\ (syms'[x.sym].bind = "local") = x.local
  <2> DEFINE x == Relocated(syms, r)
  <2>1. r \in [sym : 1 .. k, name : Names, local : BOOLEAN] /\ r.sym \in D
    BY <1>2 DEF ElfInv, TypeOK
  <2>2. /\ x = [sym |-> NewIndex(syms, r.sym), name |-> r.name, local |-> r.local]
    BY <2>1 DEF Relocated
  <2>3. x.sym = NewIndex(syms, r.sym) /\ x.name = r.name /\ x.local = r.local
    BY <2>2
  <2>4. NewIndex(syms, r.sym) \in 1 .. k
    BY <1>2, <1>3, <2>1
  <2>5. x \in [sym : 1 .. k, name : Names, local : BOOLEAN]
    BY <2>1, <2>2, <2>4
  <2>6. syms[r.sym].name = r.name /\ (syms[r.sym].bind = "local") = r.local
    BY DEF ElfInv, RelocsExact
  <2>7. syms'[x.sym] = syms[r.sym]
    BY <1>8, <2>1, <2>3
  <2> QED
    BY <2>3, <2>5, <2>6, <2>7
<1>10. RelocsExact'
  BY <1>1, <1>9 DEF RelocsExact
<1>11. relocs' \subseteq [sym : 1 .. k, name : Names, local : BOOLEAN]
  BY <1>1, <1>9
<1>12. LocalsFirst'
  <2>1. SUFFICES ASSUME NEW x \in D, NEW y \in D, x < y, syms'[y].bind = "local",
                        syms'[x].bind # "local"
                 PROVE  FALSE
    BY <1>2 DEF LocalsFirst
  <2>2. PICK i \in D : NewIndex(syms, i) = x /\ syms'[x] = syms[i]
    BY <1>4
  <2>3. PICK j \in D : NewIndex(syms, j) = y /\ syms'[y] = syms[j]
    BY <1>4
  <2>4. y < x
    BY <1>3, <2>1, <2>2, <2>3
  <2> QED
    BY <1>2, <2>1, <2>4
<1>13. TypeOK'
  BY <1>1, <1>2, <1>11 DEF ElfInv, TypeOK
<1> QED
  BY <1>1, <1>10, <1>12, <1>13 DEF ElfInv

(***************************************************************************)
(* The theorems.                                                           *)
(***************************************************************************)

LEMMA InitInv == Init => ElfInv
<1> SUFFICES ASSUME Init
             PROVE  ElfInv
  OBVIOUS
<1>1. /\ syms = << >> /\ nbuckets = 1 /\ buckets = [h \in {0} |-> 0]
      /\ chain = << >> /\ nb_hashed = 0
      /\ relocs = {} /\ twice = {} /\ defs = 0
      /\ unit = [n \in Names |-> NoSym] /\ written = FALSE
  BY DEF Init
<1>2. syms \in Seq(Symbol) /\ Len(syms) = 0 /\ DOMAIN syms = {}
  BY <1>1
<1>3. TypeOK
  <2>1. buckets \in [0 .. nbuckets - 1 -> 0 .. Len(syms)]
    BY <1>1, <1>2
  <2>2. chain \in Seq(0 .. Len(syms)) /\ Len(chain) = 0
    BY <1>1
  <2>3. unit \in [Names -> [c : 0 .. Len(syms), weak : BOOLEAN, def : BOOLEAN]]
    BY <1>1, <1>2 DEF NoSym
  <2>4. 0 <= MaxSyms /\ 0 \in 0 .. MaxDefs
    BY ElfSymAssumption
  <2>5. nbuckets \in Nat \ {0} /\ nb_hashed \in 0 .. Len(syms)
    BY <1>1, <1>2
  <2>6. relocs \subseteq [sym : 1 .. Len(syms), name : Names, local : BOOLEAN]
    BY <1>1
  <2>7. twice \subseteq Names /\ written \in BOOLEAN
    BY <1>1
  <2> QED
    BY <1>1, <1>2, <2>1, <2>2, <2>3, <2>4, <2>5, <2>6, <2>7 DEF TypeOK
<1>4. Chained(Table)
  <2>1. /\ Table.syms = syms /\ Table.nbuckets = 1 /\ Table.buckets = buckets
        /\ Table.chain = chain
    BY <1>1 DEF Table
  <2>2. \A h : HashedBefore(syms, Len(syms) + 1, h, 1) = {}
    BY <1>2 DEF HashedBefore
  <2>3. Greatest({}) = 0
    BY DEF Greatest
  <2>4. \A h \in 0 .. 0 : buckets[h] = 0
    BY <1>1
  <2>5. \A h \in 0 .. Table.nbuckets - 1 :
            Table.buckets[h] = Greatest(HashedBefore(Table.syms, Len(Table.syms) + 1,
                                                     h, Table.nbuckets))
    BY <2>1, <2>2, <2>3, <2>4
  <2>6. 1 .. Len(Table.syms) = {}
    BY <1>2, <2>1
  <2> HIDE DEF Table
  <2> QED
    BY <2>5, <2>6 DEF Chained
<1>5. Unique(syms) /\ UnitOK
  BY <1>1, <1>2 DEF Unique, UnitOK, NoSym
<1>6. RelocsExact /\ LocalsFirst
  BY <1>1 DEF RelocsExact, LocalsFirst
<1> QED
  BY <1>3, <1>4, <1>5, <1>6 DEF ElfInv, Unsorted

LEMMA NextInv == ElfInv /\ [Next]_vars => ElfInv'
<1> SUFFICES ASSUME ElfInv, [Next]_vars
             PROVE  ElfInv'
  OBVIOUS
<1>1. ASSUME NEW l \in Loadable, Load(l) PROVE ElfInv'
  BY <1>1, LoadInv
<1>2. ASSUME NEW n \in UnitNames, Weaken(n) PROVE ElfInv'
  BY <1>2, WeakenInv
<1>3. ASSUME NEW n \in UnitNames, Refer(n) PROVE ElfInv'
  BY <1>3, ReferInv
<1>4. ASSUME NEW n \in UnitNames, Common(n) PROVE ElfInv'
  BY <1>4, CommonInv
<1>5. ASSUME NEW n \in UnitNames, NEW weak \in BOOLEAN, Define(n, weak) PROVE ElfInv'
  BY <1>5, DefineInv
<1>6. CASE NextUnit
  BY <1>6, IdleInv DEF NextUnit
<1>7. CASE Write
  BY <1>7, WriteInv
<1>8. CASE Written
  BY <1>8, IdleInv DEF Written, vars
<1>9. CASE UNCHANGED vars
  BY <1>9, IdleInv DEF vars
<1> QED
  BY <1>1, <1>2, <1>3, <1>4, <1>5, <1>6, <1>7, <1>8, <1>9 DEF Next

LEMMA ElfInvariant == Spec => []ElfInv
BY InitInv, NextInv, PTL DEF Spec

\* The variables have their types.
THEOREM TypeCorrect == Spec => []TypeOK
<1>1. ElfInv => TypeOK
  BY DEF ElfInv
<1> QED
  BY <1>1, ElfInvariant, PTL

\* A relocation is to a symbol of the name that it was made for, before and
\* after the table is sorted.
THEOREM RelocationsFollow == Spec => []RelocsExact
<1>1. ElfInv => RelocsExact
  BY DEF ElfInv
<1> QED
  BY <1>1, ElfInvariant, PTL

\* In the sorted table the local symbols come first.
THEOREM SortedTable == Spec => []LocalsFirst
<1>1. ElfInv => LocalsFirst
  BY DEF ElfInv
<1> QED
  BY <1>1, ElfInvariant, PTL

\* find_elf_sym finds the one symbol of a name that is not local, or none.
THEOREM LookupIsExact == Spec => []HashExact
<1>1. ElfInv => HashExact
  <2>1. SUFFICES ASSUME ElfInv, ~ written, NEW n \in Names
                 PROVE  Globals(n) = IF find_elf_sym(Table, n) = 0 THEN {}
                                     ELSE {find_elf_sym(Table, n)}
    BY DEF HashExact
  <2> DEFINE f == find_elf_sym(Table, n)
  <2>2. IsTable(Table) /\ Chained(Table) /\ Unique(syms) /\ Table.syms = syms
    BY <2>1, WorkingTable
  <2>3. /\ f \in 0 .. Len(syms)
        /\ f # 0 => syms[f].bind # "local" /\ syms[f].name = n
        /\ f = 0 => \A j \in 1 .. Len(syms) : syms[j].bind = "local" \/ syms[j].name # n
    BY <2>2, FindIs
  <2>4. Len(syms) \in Nat /\ DOMAIN syms = 1 .. Len(syms)
    BY <2>1 DEF ElfInv, TypeOK
  <2> HIDE DEF f
  <2>5. ASSUME f = 0
        PROVE  Globals(n) = {}
    BY <2>3, <2>4, <2>5 DEF Globals
  <2>6. ASSUME f # 0
        PROVE  Globals(n) = {f}
    <3>1. f \in Globals(n)
      BY <2>3, <2>4, <2>6 DEF Globals
    <3>2. \A j \in Globals(n) : j = f
      BY <2>2, <2>4, <3>1 DEF Globals, Unique
    <3> QED
      BY <3>1, <3>2
  <2>7. Globals(n) = IF f = 0 THEN {} ELSE {f}
    BY <2>5, <2>6
  <2> QED
    BY <2>7 DEF f
<1> QED
  BY <1>1, ElfInvariant, PTL

(***************************************************************************)
(* What a step before the table is sorted does to the symbols: it changes  *)
(* one, or appends one.                                                    *)
(***************************************************************************)

OneChanged(ss, tt, i) ==
    /\ i \in 1 .. Len(tt)
    /\ \A j \in 1 .. Len(ss) : j # i => tt[j] = ss[j]
    /\ Len(tt) = Len(ss) \/ (Len(tt) = Len(ss) + 1 /\ i = Len(tt))
    /\ i \in 1 .. Len(ss) => /\ ss[i].bind # "local" /\ tt[i].bind # "local"
                             /\ tt[i].name = ss[i].name

LEMMA OneChangedIs ==
    ASSUME NEW ss, NEW tt, Len(ss) \in Nat, Len(tt) \in Nat, NEW i, OneChanged(ss, tt, i)
    PROVE  /\ i \in 1 .. Len(tt) /\ Len(ss) <= Len(tt)
           /\ \A j \in 1 .. Len(tt) : j = i \/ (j \in 1 .. Len(ss) /\ tt[j] = ss[j])
           /\ \A j \in 1 .. Len(ss) : j \in 1 .. Len(tt) /\ (j # i => tt[j] = ss[j])
           /\ i \in 1 .. Len(ss) => /\ ss[i].bind # "local" /\ tt[i].bind # "local"
                                    /\ tt[i].name = ss[i].name
BY DEF OneChanged

\* A new symbol, or the one that is merged with the one of its name.
LEMMA AddChanges ==
    ASSUME NEW T, IsTable(T), Chained(T), Unique(T.syms), NEW s \in Symbol
    PROVE  LET a == Added(T, s)  i == a.index  e == T.syms[i]
           IN  /\ OneChanged(T.syms, a.T.syms, i) /\ i \in Nat
               /\ \/ i = Len(T.syms) + 1 /\ a.T.syms[i] = s /\ a.twice = {}
                  \/ /\ i \in 1 .. Len(T.syms) /\ e \in Symbol /\ e.name = s.name
                     /\ e.bind # "local" /\ s.bind # "local"
                     /\ a.T.syms[i] = Merged(e, s)
                     /\ a.twice = IF e.sec # "undef" /\ Clash(e, s) THEN {s.name} ELSE {}
<1> DEFINE a == Added(T, s)  i == a.index  e == T.syms[i]  ss == T.syms
           f == find_elf_sym(T, s.name)
<1>1. ss \in Seq(Symbol) /\ Len(ss) \in Nat
  BY SymsAre DEF IsTable
<1>2. CASE s.bind = "local" \/ f = 0
  <2>1. a.T.syms = Append(ss, s) /\ a.index = Len(ss) + 1 /\ a.twice = {}
    BY <1>2, AddedNew
  <2> HIDE DEF a
  <2>2. /\ Len(a.T.syms) = Len(ss) + 1 /\ a.T.syms[Len(ss) + 1] = s
        /\ \A j \in 1 .. Len(ss) : a.T.syms[j] = ss[j]
    BY <1>1, <2>1
  <2>3. OneChanged(ss, a.T.syms, i) /\ i \in Nat /\ a.T.syms[i] = s
    BY <1>1, <2>1, <2>2 DEF OneChanged
  <2> QED
    BY <2>1, <2>3 DEF a
<1>3. CASE s.bind # "local" /\ f # 0
  <2>1. /\ f \in 1 .. Len(ss) /\ ss[f] \in Symbol
        /\ ss[f].name = s.name /\ ss[f].bind # "local"
        /\ a.T.syms = [ss EXCEPT ![f] = Merged(ss[f], s)] /\ a.index = f
        /\ a.twice = IF ss[f].sec # "undef" /\ Clash(ss[f], s) THEN {s.name} ELSE {}
    BY <1>3, AddedOld
  <2> HIDE DEF a, f
  <2>2. /\ Len(a.T.syms) = Len(ss) /\ a.T.syms[f] = Merged(ss[f], s)
        /\ \A j \in 1 .. Len(ss) : j # f => a.T.syms[j] = ss[j]
    BY <1>1, <2>1
  <2>6. s.name \in Names /\ Merged(ss[f], s).name = ss[f].name /\ Merged(ss[f], s).bind # "local"
    BY <1>3, <2>1, MergedIs DEF Symbol
  <2>3. OneChanged(ss, a.T.syms, i) /\ i \in Nat
    BY <1>1, <2>1, <2>2, <2>6 DEF OneChanged
  <2>4. a.T.syms[i] = Merged(e, s) /\ i = f /\ e = ss[f]
    BY <2>1, <2>2
  <2> HIDE DEF i, e
  <2>5. /\ i \in 1 .. Len(ss) /\ e \in Symbol /\ e.name = s.name /\ e.bind # "local"
        /\ a.twice = IF e.sec # "undef" /\ Clash(e, s) THEN {s.name} ELSE {}
    BY <2>1, <2>4
  <2> QED
    BY <1>3, <2>3, <2>4, <2>5 DEF a, i, e
<1> QED
  BY <1>2, <1>3

\* The visibility of a symbol that is merged.
LEMMA NarrowedIs ==
    ASSUME NEW v \in 0 .. 3, NEW w \in 0 .. 3
    PROVE  /\ Narrowed(v, w) \in 0 .. 3 /\ Narrowed(v, v) = v
           /\ Narrowed(v, Narrowed(v, w)) = Narrowed(v, w)
BY DEF Narrowed

LEMMA MergedVis ==
    ASSUME NEW e \in Symbol, NEW s \in Symbol, e.sec # "undef"
    PROVE  Merged(e, s).vis = Narrowed(e.vis, Merged(e, s).vis)
<1> DEFINE vis == Narrowed(e.vis, s.vis)
<1>1. e.vis \in 0 .. 3 /\ s.vis \in 0 .. 3
  BY DEF Symbol
<1>2. Narrowed(e.vis, vis) = vis
  BY <1>1, NarrowedIs
<1> HIDE DEF vis
<1>3. [s EXCEPT !.vis = vis].vis = vis /\ [e EXCEPT !.vis = vis].vis = vis
  BY DEF Symbol
<1>4. Merged(e, s) \in {[s EXCEPT !.vis = vis], [e EXCEPT !.vis = vis]}
  BY DEF Merged, vis
<1> QED
  BY <1>2, <1>3, <1>4

\* What becomes of the visibility of the symbol that a step changes.
Narrows(i) ==
    /\ OneChanged(syms, syms', i)
    /\ i \in 1 .. Len(syms) /\ syms[i].sec # "undef" /\ syms[i].bind # "local"
          => syms'[i].vis = Narrowed(syms[i].vis, syms'[i].vis)

LEMMA AddNarrows ==
    ASSUME ElfInv, ~ written, NEW s \in Symbol, add_elf_sym(Added(Table, s), s)
    PROVE  \E i \in Nat : Narrows(i)
<1> DEFINE a == Added(Table, s)  i == a.index
<1>1. IsTable(Table) /\ Chained(Table) /\ Unique(Table.syms) /\ Table.syms = syms
      /\ Len(syms) \in Nat
  BY WorkingTable
<1>2. syms' = a.T.syms
  BY AddStep
<1>3. /\ OneChanged(syms, a.T.syms, i) /\ i \in Nat
      /\ \/ i = Len(syms) + 1
         \/ syms[i] \in Symbol /\ a.T.syms[i] = Merged(syms[i], s)
  BY <1>1, AddChanges
<1> HIDE DEF a, i
<1>4. CASE i = Len(syms) + 1
  BY <1>1, <1>2, <1>3, <1>4 DEF Narrows
<1>5. CASE syms[i] \in Symbol /\ a.T.syms[i] = Merged(syms[i], s)
  <2>1. syms[i].sec # "undef" => syms'[i].vis = Narrowed(syms[i].vis, syms'[i].vis)
    BY <1>2, <1>5, MergedVis
  <2> QED
    BY <1>2, <1>3, <2>1 DEF Narrows
<1> QED
  BY <1>3, <1>4, <1>5

\* A symbol that is changed in place.
LEMMA PatchNarrows ==
    ASSUME ElfInv, ~ written, NEW i \in 1 .. Len(syms), NEW g,
           syms' = [syms EXCEPT ![i] = g], g.vis = syms[i].vis,
           g.name = syms[i].name, g.bind # "local", syms[i].bind # "local"
    PROVE  Narrows(i) /\ i \in Nat
<1>1. /\ syms \in Seq(Symbol) /\ Len(syms) \in Nat /\ syms[i] \in Symbol
  BY DEF ElfInv, TypeOK
<1>2. /\ Len(syms') = Len(syms) /\ syms'[i] = g
      /\ \A j \in 1 .. Len(syms) : j # i => syms'[j] = syms[j]
  BY <1>1
<1>3. syms[i].vis \in 0 .. 3
  BY <1>1 DEF Symbol
<1>4. syms'[i].vis = Narrowed(syms[i].vis, syms'[i].vis)
  BY <1>2, <1>3, NarrowedIs
<1>5. i \in Nat /\ i \in 1 .. Len(syms')
  BY <1>1, <1>2
<1> QED
  BY <1>2, <1>4, <1>5 DEF Narrows, OneChanged

(***************************************************************************)
(* What becomes of the definition of a name.                               *)
(***************************************************************************)

\* An undefined symbol has no definition.
Undefs == \A j \in 1 .. Len(syms) : syms[j].sec = "undef" => syms[j].def = 0

\* e yields to g, tw are the names that are reported.
Yields(e, g, tw) ==
    \/ Abs!Strength(Kind(g)) > Abs!Strength(Kind(e)) /\ tw = {}
    \/ Kind(e) = "common" /\ Kind(g) = "common" /\ tw = {}
    \/ Kind(g) = Kind(e) /\ g.def = e.def /\ tw = {}
    \/ /\ Kind(e) \in {"common", "strong"} /\ Kind(g) = Kind(e) /\ g.def = e.def
       /\ tw = {g.name}
    \/ Kind(e) \in {"common", "strong"} /\ Kind(g) = "weak" /\ g.def = e.def /\ tw = {}

LEMMA StrengthIs ==
    /\ Abs!Strength("none") = 0 /\ Abs!Strength("undef") = 1 /\ Abs!Strength("weak") = 2
    /\ Abs!Strength("common") = 3 /\ Abs!Strength("strong") = 4
BY DEF Abs!Strength

LEMMA KindIs ==
    ASSUME NEW e \in Symbol
    PROVE  /\ Kind(e) \in {"undef", "weak", "common", "strong"}
           /\ e.sec = "undef" <=> Kind(e) = "undef"
           /\ e.sec # "undef" /\ e.bind = "weak" => Kind(e) = "weak"
           /\ e.sec # "undef" /\ e.bind # "weak" =>
                 Kind(e) = IF e.sec = "common" THEN "common" ELSE "strong"
BY DEF Kind

\* Resolution of two symbols of a name.
LEMMA MergedYields ==
    ASSUME NEW e \in Symbol, NEW s \in Symbol, e.name = s.name,
           e.bind # "local", s.bind # "local",
           e.sec = "undef" => e.def = 0, s.sec = "undef" => s.def = 0
    PROVE  /\ Yields(e, Merged(e, s),
                     IF e.sec # "undef" /\ Clash(e, s) THEN {s.name} ELSE {})
           /\ Merged(e, s).sec = "undef" => Merged(e, s).def = 0
<1> DEFINE g == Merged(e, s)  vis == Narrowed(e.vis, s.vis)
           tw == IF e.sec # "undef" /\ Clash(e, s) THEN {s.name} ELSE {}
<1>1. /\ e.bind \in {"weak", "global"} /\ s.bind \in {"weak", "global"}
      /\ e.sec \in Secs /\ s.sec \in Secs
  BY DEF Symbol, Binds
<1>2. g \in Symbol /\ g.name = e.name
  BY MergedIs
<1>3. CASE e.sec = "undef"
  <2>1. g = s /\ tw = {} /\ Kind(e) = "undef"
    BY <1>3 DEF Merged, Kind
  <2>2. CASE s.sec = "undef"
    BY <1>3, <2>1, <2>2 DEF Yields, Kind
  <2>3. CASE s.sec # "undef"
    <3>1. Kind(s) \in {"weak", "common", "strong"}
      BY <2>3, KindIs
    <3>2. Abs!Strength(Kind(g)) > Abs!Strength(Kind(e))
      BY <2>1, <3>1, StrengthIs
    <3> HIDE DEF tw, g
    <3> QED
      BY <2>1, <2>3, <3>2 DEF Yields, tw, g
  <2> QED
    BY <2>2, <2>3
<1>4. CASE e.sec # "undef" /\ Replaces(e, s)
  <2>1. g = [s EXCEPT !.vis = vis]
    BY <1>4 DEF Merged
  <2>2. tw = {}
    BY <1>4 DEF Clash
  <2> HIDE DEF vis
  <2>3. g.sec = s.sec /\ g.bind = s.bind /\ g.def = s.def /\ Kind(g) = Kind(s)
    BY <2>1 DEF Symbol, Kind
  <2>4. CASE s.bind = "global" /\ e.bind = "weak"
    <3>1. Kind(e) = "weak" /\ Kind(s) \in {"common", "strong"}
      BY <1>4, <2>4 DEF Kind, Replaces
    <3>2. Abs!Strength(Kind(g)) > Abs!Strength(Kind(e))
      BY <2>3, <3>1, StrengthIs
    <3>3. Yields(e, g, tw)
      <4> HIDE DEF tw, g
      <4> QED
        BY <2>2, <3>2 DEF Yields
    <3> QED
      BY <1>4, <2>3, <3>3 DEF Replaces
  <2>5. CASE BothGlobal(e, s) /\ e.sec = "common"
    <3>1. Kind(e) = "common" /\ Kind(s) \in {"common", "strong"}
      BY <1>4, <2>5 DEF Kind, Replaces, BothGlobal
    <3>2. \/ Kind(g) = "common"
          \/ Abs!Strength(Kind(g)) > Abs!Strength(Kind(e))
      BY <2>3, <3>1, StrengthIs
    <3>3. Yields(e, g, tw)
      <4> HIDE DEF tw, g
      <4> QED
        BY <2>2, <3>1, <3>2 DEF Yields
    <3> QED
      BY <1>4, <2>3, <3>3 DEF Replaces
  <2> QED
    BY <1>4, <2>4, <2>5 DEF Replaces
<1>5. CASE e.sec # "undef" /\ ~ Replaces(e, s)
  <2>1. g = [e EXCEPT !.vis = vis]
    BY <1>5 DEF Merged
  <2> HIDE DEF vis
  <2>2. g.sec = e.sec /\ g.bind = e.bind /\ g.def = e.def /\ Kind(g) = Kind(e)
    BY <2>1 DEF Symbol, Kind
  <2>3. CASE ~ Clash(e, s)
    <3>1. tw = {}
      BY <2>3
    <3> HIDE DEF tw, g
    <3> QED
      BY <1>5, <2>2, <3>1 DEF Yields, tw, g
  <2>4. CASE Clash(e, s)
    <3>1. tw = {s.name}
      BY <1>5, <2>4
    <3>2. Kind(e) \in {"common", "strong"}
      BY <1>5, <2>4 DEF Clash, BothGlobal, Kind
    <3> HIDE DEF tw, g
    <3> QED
      BY <1>2, <1>5, <2>2, <3>1, <3>2 DEF Yields, tw, g
  <2> QED
    BY <2>3, <2>4
<1> QED
  BY <1>3, <1>4, <1>5

\* What the step does to the symbol i.  A local symbol and the first symbol of
\* a name replace nothing.
Resolves(i) ==
    \/ i = Len(syms) + 1 /\ twice' = twice
    \/ i \in 1 .. Len(syms) /\ \E tw : /\ Yields(syms[i], syms'[i], tw)
                                        /\ twice' = twice \cup tw

SymStep(i) ==
    /\ Narrows(i)
    /\ syms'[i].sec = "undef" => syms'[i].def = 0
    /\ ~ Overlap => Resolves(i)

LEMMA AddSymStep ==
    ASSUME ElfInv, Undefs, ~ written, NEW s \in Symbol, s.sec = "undef" => s.def = 0,
           add_elf_sym(Added(Table, s), s)
    PROVE  \E i \in Nat : SymStep(i)
<1> DEFINE a == Added(Table, s)  i == a.index  e == syms[i]
           tw == IF e.sec # "undef" /\ Clash(e, s) THEN {s.name} ELSE {}
<1>1. IsTable(Table) /\ Chained(Table) /\ Unique(Table.syms) /\ Table.syms = syms
      /\ Len(syms) \in Nat
  BY WorkingTable
<1>2. syms' = a.T.syms /\ twice' = twice \cup a.twice
  BY AddStep DEF add_elf_sym
<1>3. /\ OneChanged(syms, a.T.syms, i) /\ i \in Nat
      /\ \/ i = Len(syms) + 1 /\ a.T.syms[i] = s /\ a.twice = {}
         \/ /\ i \in 1 .. Len(syms) /\ e \in Symbol /\ e.name = s.name
            /\ e.bind # "local" /\ s.bind # "local"
            /\ a.T.syms[i] = Merged(e, s) /\ a.twice = tw
  <2> DEFINE x == Table.syms[i]
  <2>1. /\ OneChanged(Table.syms, a.T.syms, i) /\ i \in Nat
        /\ \/ i = Len(Table.syms) + 1 /\ a.T.syms[i] = s /\ a.twice = {}
           \/ /\ i \in 1 .. Len(Table.syms) /\ x \in Symbol /\ x.name = s.name
              /\ x.bind # "local" /\ s.bind # "local"
              /\ a.T.syms[i] = Merged(x, s)
              /\ a.twice = IF x.sec # "undef" /\ Clash(x, s) THEN {s.name} ELSE {}
    BY <1>1, AddChanges
  <2>2. x = e
    BY <1>1
  <2> HIDE DEF a, i, x, e
  <2> QED
    BY <1>1, <2>1, <2>2
<1> HIDE DEF a, i
<1>4. CASE i = Len(syms) + 1 /\ a.T.syms[i] = s /\ a.twice = {}
  <2>1. Narrows(i)
    BY <1>1, <1>2, <1>3, <1>4 DEF Narrows
  <2>2. Resolves(i)
    BY <1>2, <1>4 DEF Resolves
  <2> QED
    BY <1>2, <1>3, <1>4, <2>1, <2>2 DEF SymStep
<1>5. CASE /\ i \in 1 .. Len(syms) /\ e \in Symbol /\ e.name = s.name
           /\ e.bind # "local" /\ s.bind # "local"
           /\ a.T.syms[i] = Merged(e, s) /\ a.twice = tw
  <2>1. e.sec # "undef" => syms'[i].vis = Narrowed(e.vis, syms'[i].vis)
    BY <1>2, <1>5, MergedVis
  <2>2. Narrows(i)
    BY <1>2, <1>3, <2>1 DEF Narrows
  <2>3. e.sec = "undef" => e.def = 0
    BY <1>5 DEF Undefs
  <2>4. Yields(e, syms'[i], tw) /\ (syms'[i].sec = "undef" => syms'[i].def = 0)
    BY <1>2, <1>5, <2>3, MergedYields
  <2> HIDE DEF tw, e
  <2>5. Resolves(i)
    BY <1>2, <1>5, <2>4 DEF Resolves, e
  <2> QED
    BY <1>3, <2>2, <2>4, <2>5 DEF SymStep
<1> QED
  BY <1>3, <1>4, <1>5

LEMMA LoadSymStep ==
    ASSUME ElfInv, Undefs, NEW l \in Loadable, Load(l)
    PROVE  \E i \in Nat : SymStep(i)
<1> DEFINE defines == l.sec # "undef" /\ l.bind # "local"
           d == IF defines THEN defs + 1 ELSE defs
           s == Sym(l.name, l.bind, l.sec, l.vis, IF defines THEN d ELSE 0)
<1>1. ~ written /\ d <= MaxDefs /\ add_elf_sym(Added(Table, s), s)
  BY DEF Load, Working
<1>2. l \in [name : Names, bind : Binds, sec : Secs, vis : 0 .. 3]
  BY ElfSymAssumption DEF Binds, Secs
<1>3. d \in 0 .. MaxDefs
  BY <1>1, ElfSymAssumption DEF ElfInv, TypeOK
<1>4. s \in Symbol /\ (s.sec = "undef" => s.def = 0)
  <2>1. (IF defines THEN d ELSE 0) \in 0 .. MaxDefs /\ (l.sec = "undef" => ~ defines)
    BY <1>3, ElfSymAssumption
  <2> HIDE DEF d, defines
  <2> QED
    BY <1>2, <2>1 DEF Sym, Symbol
<1> HIDE DEF s
<1> QED
  BY <1>1, <1>4, AddSymStep

LEMMA ReferSymStep ==
    ASSUME ElfInv, Undefs, NEW n \in UnitNames, Refer(n)
    PROVE  \E i \in Nat : SymStep(i)
<1> DEFINE s == Sym(n, Bind(unit[n].weak), "undef", 0, 0)
<1>1. ~ written /\ add_elf_sym(Added(Table, s), s)
  BY DEF Refer, Working
<1>2. n \in Names /\ 0 \in 0 .. MaxDefs /\ unit[n].weak \in BOOLEAN
  BY ElfSymAssumption DEF ElfInv, TypeOK
<1>3. s \in Symbol /\ s.def = 0
  BY <1>2, UnitSym DEF Secs, Sym
<1> HIDE DEF s
<1> QED
  BY <1>1, <1>3, AddSymStep

\* A prototype with the attribute weak leaves the definition, which is weak then.
LEMMA WeakenSymStep ==
    ASSUME ElfInv, Undefs, NEW n \in UnitNames, Weaken(n), unit[n].c # 0
    PROVE  \E i \in Nat : SymStep(i)
<1> DEFINE i == unit[n].c  e == syms[i]  g == [e EXCEPT !.bind = "weak"]
<1>1. /\ ~ written /\ twice' = twice /\ n \in Names
      /\ syms' = [syms EXCEPT ![i].bind = "weak"]
  BY ElfSymAssumption DEF Weaken, Working
<1>2. i \in 1 .. Len(syms) /\ e.bind # "local" /\ e \in Symbol /\ Len(syms) \in Nat
  BY <1>1, WorkingTable DEF ElfInv, Unsorted, UnitOK
<1>3. syms' = [syms EXCEPT ![i] = g]
  BY <1>1
<1>4. /\ g \in Symbol /\ g.bind = "weak" /\ g.sec = e.sec /\ g.def = e.def /\ g.vis = e.vis
      /\ g.name = e.name
  BY <1>2 DEF Symbol, Binds
<1>7. syms \in Seq(Symbol)
  BY DEF ElfInv, TypeOK
<1> HIDE DEF g, i
<1>5. Narrows(i) /\ i \in Nat /\ syms'[i] = g
  <2>1. Narrows(i) /\ i \in Nat
    BY <1>1, <1>2, <1>3, <1>4, PatchNarrows
  <2>2. syms'[i] = g
    BY <1>2, <1>3, <1>7
  <2> QED
    BY <2>1, <2>2
<1>6. Yields(e, g, {})
  <2>1. e.sec = "undef" => Kind(e) = Kind(g)
    BY <1>4 DEF Kind
  <2>2. e.sec # "undef" => Kind(g) = "weak" /\ Kind(e) \in {"weak", "common", "strong"}
    BY <1>4 DEF Kind
  <2> HIDE DEF e
  <2> QED
    BY <1>4, <2>1, <2>2 DEF Yields
<1>8. Resolves(i)
  BY <1>1, <1>2, <1>5, <1>6 DEF Resolves
<1>9. g.sec = "undef" => g.def = 0
  BY <1>2, <1>4 DEF Undefs
<1> QED
  BY <1>5, <1>8, <1>9 DEF SymStep

LEMMA DefineSymStep ==
    ASSUME ElfInv, Undefs, NEW n \in UnitNames, NEW weak \in BOOLEAN, Define(n, weak)
    PROVE  \E i \in Nat : SymStep(i)
<1> DEFINE c == unit[n].c  s == Sym(n, Bind(weak), "sec", 0, defs + 1)
<1>1. /\ ~ written /\ defs < MaxDefs /\ put_extern_sym(n, weak, "sec")
      /\ Foreign(n) => Overlap
  BY DEF Define, Working
<1>2. n \in Names /\ defs + 1 \in 0 .. MaxDefs
  BY <1>1, ElfSymAssumption DEF ElfInv, TypeOK
<1>3. CASE c = 0
  <2>1. add_elf_sym(Added(Table, s), s)
    BY <1>1, <1>3 DEF put_extern_sym
  <2>2. s \in Symbol /\ s.sec = "sec"
    BY <1>2, UnitSym DEF Secs
  <2> HIDE DEF s
  <2> QED
    BY <1>1, <2>1, <2>2, AddSymStep
<1>4. CASE c # 0
  <2> DEFINE e == syms[c]
             g == [e EXCEPT !.sec = "sec", !.def = defs + 1,
                            !.bind = IF weak THEN "weak" ELSE @]
  <2>1. /\ syms' = [syms EXCEPT ![c].sec = "sec", ![c].def = defs + 1,
                                ![c].bind = IF weak THEN "weak" ELSE @]
        /\ twice' = twice
    BY <1>1, <1>4 DEF put_extern_sym
  <2>2. c \in 1 .. Len(syms) /\ e.bind # "local" /\ e \in Symbol /\ Len(syms) \in Nat
    BY <1>1, <1>2, <1>4, WorkingTable DEF ElfInv, Unsorted, UnitOK
  <2>3. /\ g \in Symbol /\ g.sec = "sec" /\ g.vis = e.vis /\ g.name = e.name
        /\ g.bind # "local"
    BY <1>2, <2>2 DEF Symbol, Binds, Secs
  <2>4. syms' = [syms EXCEPT ![c] = g]
    BY <2>1, <2>2 DEF Symbol
  <2>5. syms \in Seq(Symbol)
    BY DEF ElfInv, TypeOK
  <2>6. ~ Overlap => e.sec = "undef"
    <3>1. ~ unit[n].def
      BY DEF Define
    <3> QED
      BY <1>1, <1>4, <3>1 DEF Foreign
  <2> HIDE DEF g, c
  <2>7. Narrows(c) /\ c \in Nat /\ syms'[c] = g
    <3>1. Narrows(c) /\ c \in Nat
      BY <1>1, <2>2, <2>3, <2>4, PatchNarrows
    <3>2. syms'[c] = g
      BY <2>2, <2>4, <2>5
    <3> QED
      BY <3>1, <3>2
  <2>8. ~ Overlap => Yields(e, g, {})
    <3>1. Kind(g) \in {"weak", "strong"} /\ (~ Overlap => Kind(e) = "undef")
      BY <2>3, <2>6 DEF Kind
    <3>2. ~ Overlap => Abs!Strength(Kind(g)) > Abs!Strength(Kind(e))
      BY <3>1, StrengthIs
    <3> QED
      BY <3>2 DEF Yields
  <2>9. ~ Overlap => Resolves(c)
    BY <2>1, <2>2, <2>7, <2>8 DEF Resolves
  <2> QED
    BY <2>3, <2>7, <2>9 DEF SymStep
<1> QED
  BY <1>3, <1>4

LEMMA CommonSymStep ==
    ASSUME ElfInv, Undefs, NEW n \in UnitNames, Common(n)
    PROVE  \E i \in Nat : SymStep(i)
<1> DEFINE s == Sym(n, Bind(unit[n].weak), "undef", 0, 0)
           a == Added(Table, s)
           i == IF unit[n].c = 0 THEN a.index ELSE unit[n].c
           T == IF unit[n].c = 0 THEN a.T ELSE Table
           new == [T.syms[i] EXCEPT !.sec = "common", !.def = defs + 1]
           e == syms[i]
<1>1. /\ s \in Symbol /\ s.sec = "undef"
      /\ IsTable(T) /\ Chained(T) /\ Unique(T.syms) /\ Grows(syms, T.syms)
      /\ Len(T.syms) \in Nat /\ i \in 1 .. Len(T.syms) /\ T.syms[i] \in Symbol
      /\ T.syms[i].name = n /\ T.syms[i].bind # "local"
      /\ new \in Symbol /\ new.name = n /\ new.bind = T.syms[i].bind
      /\ new.sec = "common" /\ new.vis = T.syms[i].vis
      /\ SetTable([T EXCEPT !.syms[i] = new])
  BY CommonStep
<1>2. /\ ~ written /\ UNCHANGED <<relocs, twice>>
      /\ T.syms[i].sec # "undef" => Overlap
  BY DEF Common, Working
<1>3. /\ IsTable(Table) /\ Chained(Table) /\ Unique(Table.syms) /\ Table.syms = syms
      /\ Len(syms) \in Nat /\ \A j \in 1 .. Len(syms) : syms[j] \in Symbol
  BY <1>2, WorkingTable
<1>4. /\ OneChanged(syms, T.syms, i)
      /\ \/ i = Len(syms) + 1
         \/ /\ i \in 1 .. Len(syms) /\ e \in Symbol
            /\ e.sec # "undef" => T.syms[i].vis = Narrowed(e.vis, T.syms[i].vis)
            /\ T.syms[i].sec = "undef" => e.sec = "undef"
  <2>1. CASE unit[n].c = 0
    <3> HIDE DEF s
    <3> DEFINE k == a.index  x == Table.syms[k]
    <3>1. /\ OneChanged(Table.syms, a.T.syms, k)
          /\ \/ k = Len(Table.syms) + 1
             \/ k \in 1 .. Len(Table.syms) /\ x \in Symbol /\ a.T.syms[k] = Merged(x, s)
      BY <1>1, <1>3, AddChanges
    <3>2. i = k /\ T = a.T /\ x = e
      BY <1>3, <2>1
    <3> HIDE DEF a, k, i, T, x, e
    <3>3. ASSUME k \in 1 .. Len(syms), x \in Symbol, a.T.syms[k] = Merged(x, s)
          PROVE  /\ x.sec # "undef" => a.T.syms[k].vis = Narrowed(x.vis, a.T.syms[k].vis)
                 /\ a.T.syms[k].sec = "undef" => x.sec = "undef"
      <4>1. x.sec # "undef" => Merged(x, s).vis = Narrowed(x.vis, Merged(x, s).vis)
        BY <1>1, <3>3, MergedVis
      <4>2. x.sec # "undef" => Merged(x, s).sec = x.sec
        BY <1>1, <3>3 DEF Merged, Replaces, Symbol
      <4> QED
        BY <3>3, <4>1, <4>2
    <3> QED
      BY <1>3, <3>1, <3>2, <3>3
  <2>2. CASE unit[n].c # 0
    <3>1. i = unit[n].c /\ T = Table /\ T.syms = syms
      BY <1>3, <2>2
    <3>2. e = syms[i]
      OBVIOUS
    <3> HIDE DEF i, T, e
    <3>3. OneChanged(syms, T.syms, i) /\ i \in 1 .. Len(syms) /\ T.syms[i] = e /\ e \in Symbol
      BY <1>1, <1>3, <3>1, <3>2 DEF OneChanged
    <3>4. e.vis = Narrowed(e.vis, e.vis)
      BY <3>3, NarrowedIs DEF Symbol
    <3> QED
      BY <3>3, <3>4
  <2> QED
    BY <2>1, <2>2
<1>5. T.syms \in Seq(Symbol)
  BY <1>1 DEF IsTable
<1>6. e = syms[i]
  OBVIOUS
<1> HIDE DEF new, i, T, s, a, e
<1>7. syms' = [T.syms EXCEPT ![i] = new]
  BY <1>1, <1>2, PatchStep
<1>8. /\ Len(syms') = Len(T.syms) /\ syms'[i] = new /\ i \in Nat
      /\ \A j \in 1 .. Len(T.syms) : j # i => syms'[j] = T.syms[j]
  BY <1>1, <1>5, <1>7
<1>9. OneChanged(syms, syms', i)
  <2>1. \A j \in 1 .. Len(syms) : j \in 1 .. Len(T.syms)
    BY <1>1, <1>3 DEF Grows
  <2> QED
    BY <1>1, <1>3, <1>4, <1>8, <2>1 DEF OneChanged
<1>10. Narrows(i)
  BY <1>1, <1>3, <1>4, <1>6, <1>8, <1>9 DEF Narrows
<1>11. ~ Overlap => Resolves(i)
  <2>1. CASE i = Len(syms) + 1
    BY <1>2, <2>1 DEF Resolves
  <2>2. CASE i \in 1 .. Len(syms) /\ ~ Overlap
    <3>1. Kind(e) = "undef" /\ Kind(new) \in {"weak", "common"}
      BY <1>1, <1>2, <1>3, <1>4, <2>2 DEF Kind
    <3>2. Abs!Strength(Kind(new)) > Abs!Strength(Kind(e))
      BY <3>1, StrengthIs
    <3>3. Yields(e, new, {})
      BY <3>2 DEF Yields
    <3> QED
      BY <1>2, <1>6, <1>8, <2>2, <3>3 DEF Resolves
  <2> QED
    BY <1>4, <2>1, <2>2
<1> QED
  BY <1>1, <1>8, <1>10, <1>11 DEF SymStep

\* Every step of an unsorted table that changes it.
LEMMA StepIs ==
    ASSUME ElfInv, ~ written => Undefs, [Next]_vars
    PROVE  \/ UNCHANGED <<syms, twice, written>>
           \/ ~ written /\ written' = FALSE /\ \E i \in Nat : SymStep(i)
           \/ ~ written /\ Write
<1>1. ASSUME NEW l \in Loadable, Load(l)
      PROVE  ~ written /\ written' = FALSE /\ \E i \in Nat : SymStep(i)
  <2>1. ~ written /\ written' = FALSE
    BY <1>1 DEF Load, Working, ElfInv, TypeOK
  <2> QED
    BY <1>1, <2>1, LoadSymStep
<1>2. ASSUME NEW n \in UnitNames, Weaken(n)
      PROVE  \/ UNCHANGED <<syms, twice, written>>
             \/ ~ written /\ written' = FALSE /\ \E i \in Nat : SymStep(i)
  <2>1. /\ ~ written /\ written' = FALSE /\ UNCHANGED <<twice, written>>
        /\ unit[n].c = 0 => UNCHANGED syms
    BY <1>2 DEF Weaken, Working, ElfInv, TypeOK
  <2> QED
    BY <1>2, <2>1, WeakenSymStep
<1>3. ASSUME NEW n \in UnitNames, Refer(n)
      PROVE  ~ written /\ written' = FALSE /\ \E i \in Nat : SymStep(i)
  <2>1. ~ written /\ written' = FALSE
    BY <1>3 DEF Refer, Working, ElfInv, TypeOK
  <2> QED
    BY <1>3, <2>1, ReferSymStep
<1>4. ASSUME NEW n \in UnitNames, Common(n)
      PROVE  ~ written /\ written' = FALSE /\ \E i \in Nat : SymStep(i)
  <2>1. ~ written /\ written' = FALSE
    BY <1>4 DEF Common, Working, ElfInv, TypeOK
  <2> QED
    BY <1>4, <2>1, CommonSymStep
<1>5. ASSUME NEW n \in UnitNames, NEW weak \in BOOLEAN, Define(n, weak)
      PROVE  ~ written /\ written' = FALSE /\ \E i \in Nat : SymStep(i)
  <2>1. ~ written /\ written' = FALSE
    BY <1>5 DEF Define, Working, ElfInv, TypeOK
  <2> QED
    BY <1>5, <2>1, DefineSymStep
<1>6. CASE NextUnit
  BY <1>6 DEF NextUnit, table
<1>7. CASE Write
  BY <1>7 DEF Write, Working
<1>8. CASE Written
  BY <1>8 DEF Written, vars, table
<1>9. CASE UNCHANGED vars
  BY <1>9 DEF vars, table
<1> QED
  BY <1>1, <1>2, <1>3, <1>4, <1>5, <1>6, <1>7, <1>8, <1>9 DEF Next

LEMMA UndefsInv ==
    ASSUME ElfInv, ~ written => Undefs, [Next]_vars, ~ written'
    PROVE  Undefs'
<1>1. ASSUME NEW i \in Nat, SymStep(i), ~ written
      PROVE  Undefs'
  <2>1. OneChanged(syms, syms', i) /\ (syms'[i].sec = "undef" => syms'[i].def = 0)
    BY <1>1 DEF SymStep, Narrows
  <2>2. Len(syms) \in Nat
    BY DEF ElfInv, TypeOK
  <2>3. \A j \in 1 .. Len(syms') : j = i \/ (j \in 1 .. Len(syms) /\ syms'[j] = syms[j])
    BY <2>1, <2>2 DEF OneChanged
  <2> QED
    BY <1>1, <2>1, <2>3 DEF Undefs
<1>2. CASE UNCHANGED <<syms, twice, written>>
  BY <1>2 DEF Undefs
<1>3. Write => written'
  BY DEF Write
<1> QED
  BY <1>1, <1>2, <1>3, StepIs

LEMMA UndefsInvariant == Spec => [](~ written => Undefs)
<1>1. Init => (~ written => Undefs)
  BY DEF Init, Undefs
<1>2. ElfInv /\ (~ written => Undefs) /\ [Next]_vars => (~ written => Undefs)'
  BY UndefsInv
<1> QED
  BY <1>1, <1>2, ElfInvariant, PTL DEF Spec

\* Once a name is defined its visibility can only become more constraining.
THEOREM VisibilitiesNarrow == Spec => VisibilityNarrows
<1> DEFINE V == ~ written' => \A n \in Names : \A i \in Globals(n) :
               syms[i].sec # "undef" => syms'[i].vis = Narrowed(syms[i].vis, syms'[i].vis)
<1>1. ASSUME ElfInv, ~ written => Undefs, [Next]_vars
      PROVE  V
  <2>1. SUFFICES ASSUME ~ written', NEW n \in Names, NEW k \in Globals(n),
                        syms[k].sec # "undef"
                 PROVE  syms'[k].vis = Narrowed(syms[k].vis, syms'[k].vis)
    OBVIOUS
  <2>2. /\ k \in 1 .. Len(syms) /\ syms[k].bind # "local"
        /\ syms[k] \in Symbol /\ Len(syms) \in Nat
    BY <1>1 DEF Globals, ElfInv, TypeOK
  <2>3. syms[k].vis = Narrowed(syms[k].vis, syms[k].vis)
    BY <2>2, NarrowedIs DEF Symbol
  <2>4. CASE UNCHANGED <<syms, twice, written>>
    BY <2>3, <2>4
  <2>5. ASSUME NEW i \in Nat, SymStep(i)
        PROVE  syms'[k].vis = Narrowed(syms[k].vis, syms'[k].vis)
    <3>1. CASE k = i
      BY <2>1, <2>2, <2>5, <3>1 DEF SymStep, Narrows
    <3>2. CASE k # i
      <4>1. syms'[k] = syms[k]
        BY <2>2, <2>5, <3>2 DEF SymStep, Narrows, OneChanged
      <4> QED
        BY <2>3, <4>1
    <3> QED
      BY <3>1, <3>2
  <2>6. ~ Write
    BY <2>1 DEF Write
  <2> QED
    BY <1>1, <2>4, <2>5, <2>6, StepIs
<1>2. Spec => [][V]_vars
  <2>1. ElfInv /\ (~ written => Undefs) /\ [Next]_vars => [V]_vars
    BY <1>1
  <2> HIDE DEF V
  <2> QED
    BY <2>1, ElfInvariant, UndefsInvariant, PTL DEF Spec
<1> QED
  BY <1>2 DEF VisibilityNarrows

(***************************************************************************)
(* The table implements Resolution, when units do not change a symbol that *)
(* another file has defined.                                               *)
(***************************************************************************)

Of(s) == [kind |-> Kind(s), def |-> s.def]

None == [kind |-> "none", def |-> 0]

KeptExact ==
    syms \in Seq(Symbol) /\ Unique(syms) =>
        \A n \in Names : /\ Globals(n) = {} => Kept(n) = None
                         /\ \A i \in Globals(n) : Kept(n) = Of(syms[i])

LEMMA KeptIs == KeptExact
<1> SUFFICES ASSUME syms \in Seq(Symbol), Unique(syms), NEW n \in Names
             PROVE  /\ Globals(n) = {} => Kept(n) = None
                    /\ \A i \in Globals(n) : Kept(n) = Of(syms[i])
  BY DEF KeptExact
<1>1. \A i, j \in Globals(n) : i = j
  BY DEF Globals, Unique
<1>2. ASSUME NEW i \in Globals(n)
      PROVE  Kept(n) = Of(syms[i])
  <2>1. (CHOOSE j \in Globals(n) : TRUE) \in Globals(n)
    BY <1>2
  <2>2. (CHOOSE j \in Globals(n) : TRUE) = i
    BY <1>1, <2>1
  <2> QED
    BY <1>2, <2>2 DEF Kept, Of
<1> QED
  BY <1>2 DEF Kept, None

LEMMA KeptIsNext == KeptExact'
BY KeptIs, PTL

\* The names that have no part in a step.
LEMMA OthersKept ==
    ASSUME syms \in Seq(Symbol), syms' \in Seq(Symbol), Unique(syms), Unique(syms'),
           NEW i \in Nat, OneChanged(syms, syms', i), NEW m \in Names,
           syms'[i].bind = "local" \/ syms'[i].name # m
    PROVE  Kept(m)' = Kept(m)
<1>1. /\ Len(syms) \in Nat /\ DOMAIN syms = 1 .. Len(syms)
      /\ Len(syms') \in Nat /\ DOMAIN syms' = 1 .. Len(syms')
  OBVIOUS
<1>2. \A j \in 1 .. Len(syms') : j = i \/ (j \in 1 .. Len(syms) /\ syms'[j] = syms[j])
  BY <1>1, OneChangedIs
<1>3. \A j \in 1 .. Len(syms) : j \in 1 .. Len(syms') /\ (j # i => syms'[j] = syms[j])
  BY <1>1, OneChangedIs
<1>4. i \notin Globals(m) /\ i \notin Globals(m)'
  BY <1>1 DEF OneChanged, Globals
<1>5. \A j \in Globals(m) : j \in Globals(m)' /\ syms'[j] = syms[j]
  BY <1>1, <1>3, <1>4 DEF Globals
<1>6. \A j \in Globals(m)' : j \in Globals(m)
  BY <1>1, <1>2, <1>4 DEF Globals
<1>7. CASE Globals(m) = {}
  <2>1. Globals(m)' = {}
    BY <1>6, <1>7
  <2>2. Kept(m) = None
    BY <1>7, KeptIs DEF KeptExact
  <2>3. Kept(m)' = None
    BY <2>1, KeptIsNext DEF KeptExact, None
  <2> QED
    BY <2>2, <2>3
<1>8. CASE Globals(m) # {}
  <2>1. PICK j \in Globals(m) : TRUE
    BY <1>8
  <2>2. j \in Globals(m)' /\ syms'[j] = syms[j]
    BY <1>5
  <2>3. Kept(m) = Of(syms[j])
    BY <2>1, KeptIs DEF KeptExact
  <2>4. Kept(m)' = Of(syms'[j])
    BY <2>2, KeptIsNext DEF KeptExact, Of, Kind
  <2> QED
    BY <2>2, <2>3, <2>4
<1> QED
  BY <1>7, <1>8

\* The name of the symbol that a step changes.
LEMMA NameKept ==
    ASSUME syms \in Seq(Symbol), syms' \in Seq(Symbol), Unique(syms), Unique(syms'),
           NEW i \in Nat, OneChanged(syms, syms', i), syms'[i].bind # "local",
           NEW n \in Names, syms'[i].name = n
    PROVE  /\ Kept(n)' = Of(syms'[i])
           /\ i \in 1 .. Len(syms) => Kept(n) = Of(syms[i])
           /\ i = Len(syms) + 1 => Kept(n) = None
<1>1. /\ Len(syms) \in Nat /\ DOMAIN syms = 1 .. Len(syms)
      /\ Len(syms') \in Nat /\ DOMAIN syms' = 1 .. Len(syms')
  OBVIOUS
<1>2. i \in 1 .. Len(syms')
  BY <1>1, OneChangedIs
<1>4. Kept(n)' = Of(syms'[i])
  <2>1. i \in Globals(n)'
    BY <1>1, <1>2 DEF Globals
  <2> QED
    BY <2>1, KeptIsNext DEF KeptExact, Of, Kind
<1>5. ASSUME i \in 1 .. Len(syms)
      PROVE  Kept(n) = Of(syms[i])
  <2>1. i \in Globals(n)
    BY <1>1, <1>5 DEF OneChanged, Globals
  <2> QED
    BY <2>1, KeptIs DEF KeptExact
<1>6. ASSUME i = Len(syms) + 1
      PROVE  Kept(n) = None
  <2>1. ASSUME NEW j \in Globals(n)
        PROVE  FALSE
    <3>1. j \in 1 .. Len(syms) /\ j # i /\ j \in 1 .. Len(syms') /\ syms'[j] = syms[j]
      <4>1. j \in 1 .. Len(syms) /\ j # i
        BY <1>1, <1>6 DEF Globals
      <4> QED
        BY <1>1, <4>1, OneChangedIs
    <3>2. syms'[j].bind # "local" /\ syms'[j].name = syms'[i].name
      BY <1>1, <3>1 DEF Globals
    <3> QED
      BY <1>2, <3>1, <3>2 DEF Unique
  <2>2. Globals(n) = {}
    BY <2>1
  <2> QED
    BY <2>2, KeptIs DEF KeptExact
<1> QED
  BY <1>4, <1>5, <1>6

AllKept == [n \in Names |-> Kept(n)]

\* What a step does to the definitions that are kept, name by name.
LEMMA KeptSteps ==
    ASSUME NEW n \in Names, \A m \in Names \ {n} : Kept(m)' = Kept(m),
           \/ /\ Abs!Strength(Kept(n)'.kind) > Abs!Strength(Kept(n).kind)
              /\ twice' = twice
           \/ Kept(n).kind = "common" /\ Kept(n)'.kind = "common" /\ twice' = twice
           \/ /\ Kept(n).kind \in {"common", "strong"} /\ Kept(n)' = Kept(n)
              /\ twice' = twice \cup {n}
           \/ /\ Kept(n).kind \in {"common", "strong"} /\ twice' = twice
              /\ Kept(n)' = [Kept(n) EXCEPT !.kind = "weak"]
    PROVE  Abs!Next
<1>1. /\ \A m \in Names : AllKept[m] = Kept(m) /\ AllKept'[m] = Kept(m)'
      /\ AllKept = [m \in Names |-> AllKept[m]] /\ AllKept' = [m \in Names |-> AllKept'[m]]
  BY DEF AllKept
<1>2. Abs!Next <=>
        \E m \in Names :
            /\ \A other \in Names \ {m} : AllKept'[other] = AllKept[other]
            /\ \/ /\ Abs!Strength(AllKept'[m].kind) > Abs!Strength(AllKept[m].kind)
                  /\ UNCHANGED twice
               \/ /\ AllKept[m].kind = "common" /\ AllKept'[m].kind = "common"
                  /\ UNCHANGED twice
               \/ /\ AllKept[m].kind \in {"common", "strong"} /\ AllKept' = AllKept
                  /\ twice' = twice \cup {m}
               \/ /\ AllKept[m].kind \in {"common", "strong"}
                  /\ AllKept'[m] = [AllKept[m] EXCEPT !.kind = "weak"]
                  /\ UNCHANGED twice
  BY DEF Abs!Next, Abs!Stronger, Abs!AnotherCommon, Abs!Report, Abs!Weakened, AllKept
<1>3. Kept(n)' = Kept(n) => AllKept' = AllKept
  <2>1. Kept(n)' = Kept(n) => \A m \in Names : AllKept'[m] = AllKept[m]
    BY <1>1
  <2> QED
    BY <1>1, <2>1
<1> HIDE DEF AllKept
<1>4. \A m \in Names \ {n} : AllKept'[m] = AllKept[m]
  BY <1>1
<1>5. AllKept'[n] = Kept(n)' /\ AllKept[n] = Kept(n)
  BY <1>1
<1> QED
  BY <1>2, <1>3, <1>4, <1>5

LEMMA SymStepKept ==
    ASSUME ElfInv, ElfInv', ~ written, ~ written', ~ Overlap, NEW i \in Nat, SymStep(i)
    PROVE  Abs!Next \/ UNCHANGED <<AllKept, twice>>
<1> DEFINE e == syms[i]  g == syms'[i]
<1>1. /\ syms \in Seq(Symbol) /\ syms' \in Seq(Symbol) /\ Unique(syms) /\ Unique(syms')
      /\ Len(syms) \in Nat
  BY DEF ElfInv, TypeOK, Unsorted
<1>2. OneChanged(syms, syms', i) /\ Resolves(i)
  BY DEF SymStep, Narrows
<1>3. \A m \in Names : g.bind = "local" \/ g.name # m => Kept(m)' = Kept(m)
  BY <1>1, <1>2, OthersKept
<1>4. CASE g.bind = "local"
  <2>1. i = Len(syms) + 1 /\ twice' = twice
    BY <1>1, <1>2, <1>4, OneChangedIs DEF Resolves, OneChanged
  <2>2. AllKept' = AllKept
    BY <1>3, <1>4 DEF AllKept
  <2> QED
    BY <2>1, <2>2
<1>5. CASE g.bind # "local"
  <2>1. PICK n \in Names : g.name = n
    <3>1. Len(syms') \in Nat
      BY <1>1
    <3>2. i \in 1 .. Len(syms')
      BY <1>1, <1>2, <3>1, OneChangedIs
    <3>3. g \in Symbol
      BY <1>1, <3>2
    <3> QED
      BY <3>3 DEF Symbol
  <2>2. /\ Kept(n)' = Of(g)
        /\ i \in 1 .. Len(syms) => Kept(n) = Of(e)
        /\ i = Len(syms) + 1 => Kept(n) = None
    BY <1>1, <1>2, <1>5, <2>1, NameKept
  <2>3. \A m \in Names \ {n} : Kept(m)' = Kept(m)
    BY <1>3, <2>1
  <2>4. /\ Of(g).kind = Kind(g) /\ Of(g).def = g.def
        /\ Of(e).kind = Kind(e) /\ Of(e).def = e.def
        /\ None.kind = "none"
        /\ Of(e) = [kind |-> Kind(e), def |-> e.def]
        /\ Of(g) = [kind |-> Kind(g), def |-> g.def]
    BY DEF Of, None
  <2> HIDE DEF e
  <2>5. CASE i = Len(syms) + 1
    <3>1. twice' = twice
      BY <1>1, <1>2, <2>5 DEF Resolves
    <3>2. Kind(g) \in {"undef", "weak", "common", "strong"}
      BY DEF Kind
    <3>3. Abs!Strength(Kept(n)'.kind) > Abs!Strength(Kept(n).kind)
      BY <2>2, <2>4, <2>5, <3>2, StrengthIs
    <3> QED
      BY <2>3, <3>1, <3>3, KeptSteps
  <2>6. CASE i \in 1 .. Len(syms)
    <3>1. Kept(n) = Of(e) /\ Kept(n)' = Of(g)
      BY <2>2, <2>6
    <3>2. PICK tw : Yields(e, g, tw) /\ twice' = twice \cup tw
      BY <1>1, <1>2, <2>6 DEF Resolves, e
    <3> HIDE DEF g
    <3>3. CASE Abs!Strength(Kind(g)) > Abs!Strength(Kind(e)) /\ tw = {}
      <4>1. Abs!Strength(Kept(n)'.kind) > Abs!Strength(Kept(n).kind) /\ twice' = twice
        BY <2>4, <3>1, <3>2, <3>3
      <4> QED
        BY <2>3, <4>1, KeptSteps
    <3>4. CASE Kind(e) = "common" /\ Kind(g) = "common" /\ tw = {}
      <4>1. Kept(n).kind = "common" /\ Kept(n)'.kind = "common" /\ twice' = twice
        BY <2>4, <3>1, <3>2, <3>4
      <4> QED
        BY <2>3, <4>1, KeptSteps
    <3>5. CASE Kind(g) = Kind(e) /\ g.def = e.def /\ tw = {}
      <4>1. Kept(n)' = Kept(n) /\ twice' = twice
        BY <2>4, <3>1, <3>2, <3>5
      <4>2. AllKept' = AllKept
        BY <2>3, <4>1 DEF AllKept
      <4> QED
        BY <4>1, <4>2
    <3>6. CASE /\ Kind(e) \in {"common", "strong"} /\ Kind(g) = Kind(e) /\ g.def = e.def
               /\ tw = {g.name}
      <4>1. /\ Kept(n).kind \in {"common", "strong"} /\ Kept(n)' = Kept(n)
            /\ twice' = twice \cup {n}
        BY <2>1, <2>4, <3>1, <3>2, <3>6 DEF g
      <4> QED
        BY <2>3, <4>1, KeptSteps
    <3>7. CASE /\ Kind(e) \in {"common", "strong"} /\ Kind(g) = "weak" /\ g.def = e.def
               /\ tw = {}
      <4>1. /\ Kept(n).kind \in {"common", "strong"} /\ twice' = twice
            /\ Kept(n)' = [Kept(n) EXCEPT !.kind = "weak"]
        BY <2>4, <3>1, <3>2, <3>7
      <4> QED
        BY <2>3, <4>1, KeptSteps
    <3> QED
      BY <3>2, <3>3, <3>4, <3>5, <3>6, <3>7 DEF Yields
  <2> QED
    BY <1>1, <1>2, <2>5, <2>6 DEF Resolves
<1> QED
  BY <1>4, <1>5

\* Sorting the table keeps the definition of every name.
LEMMA WriteKept ==
    ASSUME ElfInv, ~ written, Write
    PROVE  UNCHANGED <<AllKept, twice>>
<1>1. /\ syms \in Seq(Symbol) /\ syms' \in Seq(Symbol) /\ Len(syms') = Len(syms)
      /\ \A i \in 1 .. Len(syms) : /\ NewIndex(syms, i) \in 1 .. Len(syms)
                                   /\ syms'[NewIndex(syms, i)] = syms[i]
      /\ \A x \in 1 .. Len(syms) :
            \E i \in 1 .. Len(syms) : NewIndex(syms, i) = x /\ syms'[x] = syms[i]
  BY WriteSyms
<1>2. Unique(syms)
  BY DEF ElfInv, Unsorted
<1>3. DOMAIN syms = 1 .. Len(syms) /\ DOMAIN syms' = 1 .. Len(syms)
  BY <1>1
<1>4. Unique(syms')
  <2>1. SUFFICES ASSUME NEW x \in 1 .. Len(syms), NEW y \in 1 .. Len(syms),
                        syms'[x].bind # "local", syms'[y].bind # "local",
                        syms'[x].name = syms'[y].name
                 PROVE  x = y
    BY <1>1 DEF Unique
  <2>2. PICK i \in 1 .. Len(syms) : NewIndex(syms, i) = x /\ syms'[x] = syms[i]
    BY <1>1
  <2>3. PICK j \in 1 .. Len(syms) : NewIndex(syms, j) = y /\ syms'[y] = syms[j]
    BY <1>1
  <2>4. i = j
    BY <1>2, <2>1, <2>2, <2>3 DEF Unique
  <2> QED
    BY <2>2, <2>3, <2>4
<1>5. ASSUME NEW n \in Names
      PROVE  Kept(n)' = Kept(n)
  <2>1. CASE Globals(n) = {}
    <3>1. ASSUME NEW x \in Globals(n)'
          PROVE  FALSE
      <4>1. x \in 1 .. Len(syms) /\ syms'[x].bind # "local" /\ syms'[x].name = n
        BY <1>3 DEF Globals
      <4>2. PICK i \in 1 .. Len(syms) : syms'[x] = syms[i]
        BY <1>1, <4>1
      <4>3. i \in Globals(n)
        BY <1>3, <4>1, <4>2 DEF Globals
      <4> QED
        BY <2>1, <4>3
    <3>2. Globals(n)' = {}
      BY <3>1
    <3>3. Kept(n) = None
      BY <1>1, <1>2, <2>1, KeptIs DEF KeptExact
    <3>4. Kept(n)' = None
      BY <1>1, <1>4, <3>2, KeptIsNext DEF KeptExact, None
    <3> QED
      BY <3>3, <3>4
  <2>2. CASE Globals(n) # {}
    <3>1. PICK i \in Globals(n) : TRUE
      BY <2>2
    <3>2. i \in 1 .. Len(syms) /\ syms[i].bind # "local" /\ syms[i].name = n
      BY <1>3, <3>1 DEF Globals
    <3>3. PICK x \in 1 .. Len(syms) : syms'[x] = syms[i]
      BY <1>1, <3>2
    <3>4. x \in Globals(n)'
      BY <1>3, <3>2, <3>3 DEF Globals
    <3>5. Kept(n) = Of(syms[i])
      BY <1>1, <1>2, <3>1, KeptIs DEF KeptExact
    <3>6. Kept(n)' = Of(syms'[x])
      BY <1>1, <1>4, <3>4, KeptIsNext DEF KeptExact, Of, Kind
    <3> QED
      BY <3>3, <3>5, <3>6
  <2> QED
    BY <2>1, <2>2
<1>6. AllKept' = AllKept
  BY <1>5 DEF AllKept
<1>7. twice' = twice
  BY DEF Write
<1> QED
  BY <1>6, <1>7

\* The definition that is used yields to a stronger one only, unless a unit
\* changes a symbol that another file has defined.
THEOREM DefinitionsYield ==
    ASSUME ~ Overlap
    PROVE  Spec => ImplementsResolution
<1>1. Init => Abs!Init
  <2>1. SUFFICES ASSUME Init
                 PROVE  Abs!Init
    OBVIOUS
  <2>2. syms = << >> /\ twice = {}
    BY <2>1 DEF Init
  <2>3. syms \in Seq(Symbol) /\ DOMAIN syms = {} /\ Unique(syms)
    BY <2>2 DEF Unique
  <2>4. \A n \in Names : Globals(n) = {}
    BY <2>3 DEF Globals
  <2>5. \A n \in Names : Kept(n) = [kind |-> "none", def |-> 0]
    BY <2>3, <2>4, KeptIs DEF KeptExact, None
  <2> QED
    BY <2>2, <2>5 DEF Abs!Init
<1>2. ElfInv /\ ElfInv' /\ (~ written => Undefs) /\ [Next]_vars
         => [Abs!Next]_<<AllKept, twice>>
  <2>1. SUFFICES ASSUME ElfInv, ElfInv', ~ written => Undefs, [Next]_vars
                 PROVE  Abs!Next \/ UNCHANGED <<AllKept, twice>>
    OBVIOUS
  <2>2. CASE UNCHANGED <<syms, twice, written>>
    <3>1. AllKept' = AllKept
      BY <2>2 DEF AllKept, Kept, Globals, Kind
    <3> QED
      BY <2>2, <3>1
  <2>3. CASE ~ written /\ written' = FALSE /\ \E i \in Nat : SymStep(i)
    BY <2>1, <2>3, SymStepKept
  <2>4. CASE ~ written /\ Write
    BY <2>1, <2>4, WriteKept
  <2> QED
    BY <2>1, <2>2, <2>3, <2>4, StepIs
<1>3. Spec => [][Abs!Next]_<<AllKept, twice>>
  BY <1>2, ElfInvariant, UndefsInvariant, PTL DEF Spec
<1> QED
  BY <1>1, <1>3, PTL DEF Spec, ImplementsResolution, Abs!Spec, AllKept

=============================================================================
