--------------------------- MODULE Preproc_proofs ---------------------------
(***************************************************************************)
(* Proofs about Preproc: its types, the selection of the branches of open  *)
(* groups, the table of macro definitions, the files that an error left    *)
(* open, and that an #else taken for a group of the includer is refused.   *)
(* They hold for any macros, headers and lines, and any size of the two    *)
(* stacks; the cache of guarded files plays no part in them.               *)
(***************************************************************************)
EXTENDS Preproc, SequenceTheorems, FiniteSetTheorems, TLAPS

(***************************************************************************)
(* The inductive invariant.  GroupsSelected speaks of the files of a unit  *)
(* and is not inductive as it stands: what ends a group or a file depends  *)
(* on where the parts of ifdef_stack of all the open files begin.          *)
(***************************************************************************)

\* The current file is one of the unit's.
RunOK == phase = "run" => include_depth < Len(file)

\* The parts of ifdef_stack that belong to the files of the unit.
PtrsOK ==
    phase = "run" =>
        /\ Current.ifdef_stack_ptr <= ifdefs
        /\ \A i, j \in Len(file) - include_depth .. Len(file) :
              i <= j => file[i].ifdef_stack_ptr <= file[j].ifdef_stack_ptr

\* Only the innermost group may have a branch that is not selected.
SelectedOK ==
    phase = "run" =>
        \A i \in 1 .. ifdefs : ifdef_stack[i] % 2 = 0 => skipping /\ i = ifdefs

\* Nothing is skipped between units.
IdleOK == phase = "idle" => ~ skipping

\* The group of the includer that was taken for one of this file had a
\* selected branch before: no #else or #elif selects another one.
BorrowOK == Borrowed => ifdefs > 0 /\ Last(ifdef_stack) \in {1, 2}

DefinesOK == DefinesExact /\ define_start <= Len(define_stack)

IInv ==
    /\ TypeOK /\ content \in Contents
    /\ RunOK
    /\ PtrsOK
    /\ SelectedOK
    /\ IdleOK
    /\ BorrowOK
    /\ DefinesOK

(***************************************************************************)
(* Lemmas about sequences.                                                 *)
(***************************************************************************)

\* The b oldest elements.
LEMMA PrefixOf ==
    ASSUME NEW T, NEW s \in Seq(T), NEW b \in Nat, b <= Len(s)
    PROVE  /\ SubSeq(s, 1, b) \in Seq(T)
           /\ Len(SubSeq(s, 1, b)) = b
           /\ \A i \in 1 .. b : SubSeq(s, 1, b)[i] = s[i]
  BY SubSeqProperties

\* All but the last element.
LEMMA FrontOf ==
    ASSUME NEW T, NEW s \in Seq(T), Len(s) > 0
    PROVE  /\ Front(s) \in Seq(T)
           /\ Len(Front(s)) = Len(s) - 1
           /\ \A i \in 1 .. Len(s) - 1 : Front(s)[i] = s[i]
<1> DEFINE b == Len(s) - 1
<1>1. b \in Nat /\ b <= Len(s)
  BY LenProperties
<1> HIDE DEF b
<1>2. /\ SubSeq(s, 1, b) \in Seq(T)
      /\ Len(SubSeq(s, 1, b)) = b
      /\ \A i \in 1 .. b : SubSeq(s, 1, b)[i] = s[i]
  BY <1>1, PrefixOf
<1> QED
  BY <1>2 DEF Front, b

\* The last element is replaced.
LEMMA ReplaceLast ==
    ASSUME NEW T, NEW s \in Seq(T), Len(s) > 0, NEW e \in T
    PROVE  /\ Append(Front(s), e) \in Seq(T)
           /\ Len(Append(Front(s), e)) = Len(s)
           /\ Append(Front(s), e)[Len(s)] = e
           /\ \A i \in 1 .. Len(s) - 1 : Append(Front(s), e)[i] = s[i]
<1>1. /\ Front(s) \in Seq(T)
      /\ Len(Front(s)) = Len(s) - 1
      /\ \A i \in 1 .. Len(s) - 1 : Front(s)[i] = s[i]
  BY FrontOf
<1>2. Len(s) \in Nat
  BY LenProperties
<1> QED
  BY <1>1, <1>2, AppendProperties

\* One more element.
LEMMA OneMore ==
    ASSUME NEW T, NEW s \in Seq(T), NEW e \in T
    PROVE  /\ Append(s, e) \in Seq(T)
           /\ Len(Append(s, e)) = Len(s) + 1
           /\ Append(s, e)[Len(s) + 1] = e
           /\ \A i \in 1 .. Len(s) : Append(s, e)[i] = s[i]
  BY AppendProperties

\* SetToSeq lists the elements of a finite set, each at one place.
LEMMA SetToSeqLists ==
    ASSUME NEW S, IsFiniteSet(S)
    PROVE  /\ SetToSeq(S) \in Seq(S)
           /\ \A x \in S : \E i \in DOMAIN SetToSeq(S) : SetToSeq(S)[i] = x
           /\ \A i, j \in DOMAIN SetToSeq(S) :
                 SetToSeq(S)[i] = SetToSeq(S)[j] => i = j
<1> DEFINE n == Cardinality(S)
           f == SetToSeq(S)
<1>1. n \in Nat /\ ExistsBijection(1 .. n, S)
  BY FS_CardinalityType
<1>2. \E g \in [1 .. n -> S] : IsInjective(g)
  BY <1>1 DEF ExistsBijection, Bijection, Injection
<1>3. f \in [1 .. n -> S] /\ IsInjective(f)
  BY <1>2 DEF SetToSeq
<1>4. IsFiniteSet(1 .. n) /\ Cardinality(1 .. n) = n
  <2>1. 1 \in Int /\ n \in Int
    BY <1>1
  <2>2. IsFiniteSet(1 .. n) /\ Cardinality(1 .. n) = IF 1 > n THEN 0 ELSE n - 1 + 1
    BY <2>1, FS_Interval
  <2> QED
    BY <1>1, <2>2
<1>5. f \in Injection(1 .. n, S)
  BY <1>3 DEF Injection
<1>6. f \in Surjection(1 .. n, S)
  BY <1>4, <1>5, FS_Injection
<1>7. f \in Seq(S) /\ DOMAIN f = 1 .. n
  BY <1>1, <1>3, SeqDef
<1> QED
  BY <1>3, <1>6, <1>7 DEF Surjection, IsInjective

(***************************************************************************)
(* Lemmas about the files.                                                 *)
(***************************************************************************)

\* Only the last file changes, and not its part of ifdef_stack.
KeepsFiles ==
    /\ file' \in Seq(BufferedFile)
    /\ Len(file') = Len(file)
    /\ \A i \in 1 .. Len(file) - 1 : file'[i] = file[i]
    /\ file'[Len(file)].ifdef_stack_ptr = Current.ifdef_stack_ptr

\* While a line is read, there is a current file.
LEMMA CurrentFile ==
    ASSUME IInv, phase = "run"
    PROVE  /\ Len(file) \in Nat /\ Len(file) > 0
           /\ Current \in BufferedFile
  BY DEF IInv, TypeOK, RunOK, Current, Last

\* The lines that are read, and the file after them.
LEMMA ReadLine ==
    ASSUME IInv, NEW l \in NextLines
    PROVE  /\ phase = "run"
           /\ l \in Lines
           /\ Advanced \in BufferedFile
           /\ Advanced.ifdef_stack_ptr = Current.ifdef_stack_ptr
<1>1. phase = "run"
  BY DEF NextLines, IInv, TypeOK
<1>2. Current \in BufferedFile
  BY <1>1, CurrentFile
<1>3. l \in Lines
  <2>1. CASE Current.name = Main
    BY <1>1, <2>1, PreprocAssumption DEF NextLines, IInv
  <2>2. CASE Current.name # Main
    <3>1. Current.name \in Headers
      BY <1>2, <2>2 DEF BufferedFile, Names
    <3>2. content[Current.name] \in Seq(Lines)
      BY <3>1 DEF IInv, TypeOK
    <3> QED
      BY <1>1, <2>2, <3>2, ElementOfSeq DEF NextLines
  <2> QED
    BY <2>1, <2>2
<1>4. Advanced \in BufferedFile /\ Advanced.ifdef_stack_ptr = Current.ifdef_stack_ptr
  BY <1>2 DEF Advanced, BufferedFile
<1> QED
  BY <1>1, <1>3, <1>4

\* A line that replaces the current file by one with the same part of
\* ifdef_stack.
LEMMA SetCurrentKeepsFiles ==
    ASSUME IInv, phase = "run", NEW f \in BufferedFile,
           f.ifdef_stack_ptr = Current.ifdef_stack_ptr, SetCurrent(f)
    PROVE  KeepsFiles
<1>1. Len(file) > 0 /\ file \in Seq(BufferedFile)
  BY CurrentFile DEF IInv, TypeOK
<1>2. /\ Append(Front(file), f) \in Seq(BufferedFile)
      /\ Len(Append(Front(file), f)) = Len(file)
      /\ Append(Front(file), f)[Len(file)] = f
      /\ \A i \in 1 .. Len(file) - 1 : Append(Front(file), f)[i] = file[i]
  BY <1>1, ReplaceLast
<1> QED
  BY <1>2 DEF SetCurrent, KeepsFiles

\* The parts of ifdef_stack of all files after such a line.
LEMMA KeepsFilesPtrs ==
    ASSUME IInv, phase = "run", KeepsFiles
    PROVE  /\ Len(file) \in Nat /\ Len(file') = Len(file) /\ Len(file) > 0
           /\ \A i \in 1 .. Len(file) : file'[i].ifdef_stack_ptr = file[i].ifdef_stack_ptr
           /\ Current'.ifdef_stack_ptr = Current.ifdef_stack_ptr
<1>1. Len(file) \in Nat /\ Len(file) > 0
  BY CurrentFile
<1>2. Len(file') = Len(file) /\ Current'.ifdef_stack_ptr = Current.ifdef_stack_ptr
  BY DEF KeepsFiles, Current, Last
<1>3. ASSUME NEW i \in 1 .. Len(file)
      PROVE  file'[i].ifdef_stack_ptr = file[i].ifdef_stack_ptr
  <2>1. CASE i = Len(file)
    BY <2>1, <1>2 DEF Current, Last
  <2>2. CASE i # Len(file)
    <3>1. i \in 1 .. Len(file) - 1
      BY <1>1, <2>2
    <3> QED
      BY <3>1 DEF KeepsFiles
  <2> QED
    BY <2>1, <2>2
<1> QED
  BY <1>1, <1>2, <1>3

\* Such a line preserves what is said of the files, if the part of the
\* current file does not end before it begins.
LEMMA KeepsFilesOK ==
    ASSUME IInv, phase = "run", KeepsFiles, UNCHANGED <<include_depth, phase>>,
           Current.ifdef_stack_ptr <= ifdefs'
    PROVE  RunOK' /\ PtrsOK'
<1>1. /\ Len(file) \in Nat /\ Len(file') = Len(file) /\ Len(file) > 0
      /\ \A i \in 1 .. Len(file) : file'[i].ifdef_stack_ptr = file[i].ifdef_stack_ptr
      /\ Current'.ifdef_stack_ptr = Current.ifdef_stack_ptr
  BY KeepsFilesPtrs
<1>2. RunOK'
  BY <1>1 DEF IInv, RunOK
<1>3. include_depth \in Nat /\ include_depth < Len(file)
  BY PreprocAssumption DEF IInv, TypeOK, RunOK
<1>4. \A i \in Len(file) - include_depth .. Len(file) : i \in 1 .. Len(file)
  BY <1>1, <1>3
<1>5. \A i, j \in Len(file) - include_depth .. Len(file) :
         i <= j => file'[i].ifdef_stack_ptr <= file'[j].ifdef_stack_ptr
  BY <1>1, <1>4 DEF IInv, PtrsOK
<1>6. PtrsOK'
  BY <1>1, <1>5 DEF PtrsOK
<1> QED
  BY <1>2, <1>6

\* The last entry of ifdef_stack is replaced by c.
LEMMA SetGroup ==
    ASSUME IInv, ifdefs # 0, NEW c \in 0 .. 3, ifdef_stack' = Append(Front(ifdef_stack), c)
    PROVE  /\ ifdef_stack' \in Seq(0 .. 3)
           /\ ifdefs' = ifdefs
           /\ Last(ifdef_stack') = c
           /\ \A i \in 1 .. ifdefs - 1 : ifdef_stack'[i] = ifdef_stack[i]
<1>1. ifdef_stack \in Seq(0 .. 3) /\ Len(ifdef_stack) > 0
  BY LenProperties DEF IInv, TypeOK, ifdefs
<1>2. /\ Append(Front(ifdef_stack), c) \in Seq(0 .. 3)
      /\ Len(Append(Front(ifdef_stack), c)) = Len(ifdef_stack)
      /\ Append(Front(ifdef_stack), c)[Len(ifdef_stack)] = c
      /\ \A i \in 1 .. Len(ifdef_stack) - 1 :
            Append(Front(ifdef_stack), c)[i] = ifdef_stack[i]
  BY <1>1, ReplaceLast
<1> QED
  BY <1>2 DEF ifdefs, Last

(***************************************************************************)
(* What the lines leave alone.                                             *)
(***************************************************************************)

GroupTypes ==
    /\ ifdef_stack \in Seq(0 .. 3) /\ ifdefs <= IfdefStackSize
    /\ skipping \in BOOLEAN /\ a \in Nat

DefineTypes ==
    /\ define_stack \in Seq(Macros \cup {None})
    /\ sym_define \in [Macros -> Nat]
    /\ define_start \in Nat

\* The definitions stay.
LEMMA DefinesKept ==
    ASSUME IInv, UNCHANGED defines
    PROVE  DefineTypes' /\ DefinesOK'
<1>1. /\ define_stack' = define_stack
      /\ sym_define' = sym_define
      /\ define_start' = define_start
  BY DEF defines
<1> QED
  BY <1>1 DEF IInv, TypeOK, DefineTypes, DefinesOK, DefinesExact, define_find

\* The groups stay, in the same file.
LEMMA GroupsKept ==
    ASSUME IInv, phase = "run", KeepsFiles, a' \in Nat,
           UNCHANGED <<ifdef_stack, skipping, phase>>
    PROVE  /\ GroupTypes' /\ SelectedOK' /\ BorrowOK'
           /\ Current.ifdef_stack_ptr <= ifdefs'
<1>1. GroupTypes' /\ SelectedOK' /\ ifdefs' = ifdefs
  BY DEF IInv, TypeOK, GroupTypes, SelectedOK, ifdefs
<1>2. Current'.ifdef_stack_ptr = Current.ifdef_stack_ptr
  BY KeepsFilesPtrs
<1>3. BorrowOK'
  BY <1>1, <1>2 DEF IInv, BorrowOK, Borrowed
<1>4. Current.ifdef_stack_ptr <= ifdefs'
  BY <1>1 DEF IInv, PtrsOK
<1> QED
  BY <1>1, <1>3, <1>4

\* A line in the same file preserves the invariant when it does so for the
\* groups and the definitions.
LEMMA LineOK ==
    ASSUME IInv, phase = "run", KeepsFiles,
           UNCHANGED <<content, include_depth, cached, phase>>,
           bof' \in BOOLEAN, endif' \in BOOLEAN,
           GroupTypes', SelectedOK', BorrowOK', Current.ifdef_stack_ptr <= ifdefs',
           DefineTypes', DefinesOK'
    PROVE  IInv'
<1>1. RunOK' /\ PtrsOK'
  BY KeepsFilesOK
<1>2. TypeOK' /\ content' \in Contents
  BY DEF IInv, TypeOK, KeepsFiles, GroupTypes, DefineTypes
<1>3. IdleOK'
  BY DEF IdleOK
<1> QED
  BY <1>1, <1>2, <1>3 DEF IInv

(***************************************************************************)
(* Every line preserves the invariant.                                     *)
(***************************************************************************)

\* Text and #include of a guarded file: the current file alone is changed.
LEMMA AdvancedOK ==
    ASSUME IInv, NEW l \in NextLines, SetCurrent(Advanced), a' \in Nat,
           bof' \in BOOLEAN, endif' \in BOOLEAN,
           UNCHANGED <<content, include_depth, ifdef_stack, skipping, cached,
                       defines, phase>>
    PROVE  IInv'
<1>1. /\ phase = "run"
      /\ Advanced \in BufferedFile
      /\ Advanced.ifdef_stack_ptr = Current.ifdef_stack_ptr
  BY ReadLine
<1>2. KeepsFiles
  BY <1>1, SetCurrentKeepsFiles
<1>3. DefineTypes' /\ DefinesOK'
  BY DefinesKept
<1>4. /\ GroupTypes' /\ SelectedOK' /\ BorrowOK'
      /\ Current.ifdef_stack_ptr <= ifdefs'
  BY <1>1, <1>2, GroupsKept
<1> QED
  BY <1>1, <1>2, <1>3, <1>4, LineOK

LEMMA TextLineOK ==
    ASSUME IInv, NEW l \in NextLines, TextLine(l)
    PROVE  IInv'
<1>1. a' \in Nat
  BY DEF IInv, TypeOK, TextLine
<1> QED
  BY <1>1, AdvancedOK DEF TextLine, NoFlags

LEMMA IncludeCachedOK ==
    ASSUME IInv, NEW l \in NextLines, IncludeCached(l)
    PROVE  IInv'
<1>1. a' \in Nat
  BY DEF IInv, TypeOK, IncludeCached
<1> QED
  BY <1>1, AdvancedOK DEF IncludeCached, NoFlags

LEMMA SkipLineOK ==
    ASSUME IInv, NEW l \in NextLines, SkipLine(l)
    PROVE  IInv'
<1>1. a' \in Nat
  BY DEF IInv, TypeOK, SkipLine
<1>2. bof' \in BOOLEAN /\ endif' \in BOOLEAN
  BY DEF IInv, TypeOK, SkipLine, flags
<1> QED
  BY <1>1, <1>2, AdvancedOK DEF SkipLine

LEMMA LineDirectiveOK ==
    ASSUME IInv, NEW l \in NextLines, LineDirective(l)
    PROVE  IInv'
<1> DEFINE f == [Advanced EXCEPT !.filename = l.arg]
<1>1. /\ phase = "run" /\ l \in Lines
      /\ Advanced \in BufferedFile
      /\ Advanced.ifdef_stack_ptr = Current.ifdef_stack_ptr
  BY ReadLine
<1>2. l.arg \in Headers
  BY <1>1, PreprocAssumption DEF LineDirective
<1>3. f \in BufferedFile /\ f.ifdef_stack_ptr = Current.ifdef_stack_ptr
  BY <1>1, <1>2 DEF BufferedFile, Names
<1>4. KeepsFiles
  BY <1>1, <1>3, SetCurrentKeepsFiles DEF LineDirective
<1>5. DefineTypes' /\ DefinesOK'
  BY DefinesKept DEF LineDirective
<1>6. a' \in Nat /\ UNCHANGED <<ifdef_stack, skipping, phase>>
  BY DEF IInv, TypeOK, LineDirective
<1>7. /\ GroupTypes' /\ SelectedOK' /\ BorrowOK'
      /\ Current.ifdef_stack_ptr <= ifdefs'
  BY <1>1, <1>4, <1>6, GroupsKept
<1> QED
  BY <1>1, <1>4, <1>5, <1>7, LineOK DEF LineDirective, NoFlags

\* A new definition hides the older ones of its macro.
LEMMA DefineOK ==
    ASSUME IInv, NEW l \in NextLines, Define(l)
    PROVE  IInv'
<1>1. /\ phase = "run" /\ l \in Lines
      /\ Advanced \in BufferedFile
      /\ Advanced.ifdef_stack_ptr = Current.ifdef_stack_ptr
  BY ReadLine
<1>2. l.arg \in Macros
  BY <1>1, PreprocAssumption DEF Define
<1>3. KeepsFiles
  BY <1>1, SetCurrentKeepsFiles DEF Define
<1>4. a' \in Nat /\ UNCHANGED <<ifdef_stack, skipping, phase>>
  BY DEF IInv, TypeOK, Define
<1>5. /\ GroupTypes' /\ SelectedOK' /\ BorrowOK'
      /\ Current.ifdef_stack_ptr <= ifdefs'
  BY <1>1, <1>3, <1>4, GroupsKept
<1>6. /\ define_stack \in Seq(Macros \cup {None})
      /\ sym_define \in [Macros -> Nat]
      /\ define_start \in Nat /\ define_start <= Len(define_stack)
      /\ DefinesExact
  BY DEF IInv, TypeOK, DefinesOK
<1>7. /\ define_stack' \in Seq(Macros \cup {None})
      /\ Len(define_stack') = Len(define_stack) + 1
      /\ define_stack'[Len(define_stack) + 1] = l.arg
      /\ \A i \in 1 .. Len(define_stack) : define_stack'[i] = define_stack[i]
  BY <1>2, <1>6, OneMore DEF Define
<1>8. /\ sym_define' = [sym_define EXCEPT ![l.arg] = Len(define_stack) + 1]
      /\ define_start' = define_start
      /\ Len(define_stack) \in Nat
  BY <1>6, LenProperties DEF Define
<1>9. DefineTypes'
  BY <1>2, <1>6, <1>7, <1>8 DEF DefineTypes
<1>10. ASSUME NEW m \in Macros, define_find(m)'
       PROVE  /\ sym_define'[m] \in DOMAIN define_stack'
              /\ define_stack'[sym_define'[m]] = m
              /\ \A i \in sym_define'[m] + 1 .. Len(define_stack') : define_stack'[i] # m
  <2>1. DOMAIN define_stack' = 1 .. Len(define_stack) + 1
    BY <1>7, LenProperties
  <2>2. CASE m = l.arg
    <3>1. sym_define'[m] = Len(define_stack) + 1
      BY <1>2, <1>6, <1>8, <2>2
    <3> QED
      BY <1>7, <1>8, <2>1, <2>2, <3>1
  <2>3. CASE m # l.arg
    <3>1. sym_define'[m] = sym_define[m] /\ define_find(m)
      BY <1>6, <1>8, <1>10, <2>3 DEF define_find
    <3>2. /\ sym_define[m] \in DOMAIN define_stack
          /\ define_stack[sym_define[m]] = m
          /\ \A i \in sym_define[m] + 1 .. Len(define_stack) : define_stack[i] # m
      BY <1>6, <3>1 DEF DefinesExact
    <3>3. sym_define[m] \in 1 .. Len(define_stack)
      BY <1>6, <3>2, LenProperties
    <3>4. ASSUME NEW i \in sym_define[m] + 1 .. Len(define_stack')
          PROVE  define_stack'[i] # m
      <4>1. CASE i = Len(define_stack) + 1
        BY <1>7, <2>3, <4>1
      <4>2. CASE i # Len(define_stack) + 1
        <5>1. i \in sym_define[m] + 1 .. Len(define_stack) /\ i \in 1 .. Len(define_stack)
          BY <1>7, <1>8, <3>3, <4>2
        <5> QED
          BY <1>7, <3>2, <5>1
      <4> QED
        BY <4>1, <4>2
    <3> QED
      BY <1>7, <1>8, <2>1, <3>1, <3>2, <3>3, <3>4
  <2> QED
    BY <2>2, <2>3
<1>11. DefinesOK'
  BY <1>6, <1>7, <1>8, <1>10 DEF DefinesOK, DefinesExact
<1> QED
  BY <1>1, <1>3, <1>5, <1>9, <1>11, LineOK DEF Define, NoFlags

\* A definition that lost its name is no definition of any other macro.
LEMMA UndefOK ==
    ASSUME IInv, NEW l \in NextLines, Undef(l)
    PROVE  IInv'
<1>1. /\ phase = "run" /\ l \in Lines
      /\ Advanced \in BufferedFile
      /\ Advanced.ifdef_stack_ptr = Current.ifdef_stack_ptr
  BY ReadLine
<1>2. l.arg \in Macros
  BY <1>1, PreprocAssumption DEF Undef
<1>3. KeepsFiles
  BY <1>1, SetCurrentKeepsFiles DEF Undef
<1>4. a' \in Nat /\ UNCHANGED <<ifdef_stack, skipping, phase>>
  BY DEF IInv, TypeOK, Undef
<1>5. /\ GroupTypes' /\ SelectedOK' /\ BorrowOK'
      /\ Current.ifdef_stack_ptr <= ifdefs'
  BY <1>1, <1>3, <1>4, GroupsKept
<1>6. DefineTypes' /\ DefinesOK'
  <2>1. CASE ~ define_find(l.arg)
    BY <2>1, DefinesKept DEF Undef, defines
  <2>2. CASE define_find(l.arg)
    <3> DEFINE d == sym_define[l.arg]
    <3>1. /\ define_stack \in Seq(Macros \cup {None})
          /\ sym_define \in [Macros -> Nat]
          /\ define_start \in Nat /\ define_start <= Len(define_stack)
          /\ DefinesExact
      BY DEF IInv, TypeOK, DefinesOK
    <3>2. /\ d \in 1 .. Len(define_stack) /\ define_stack[d] = l.arg
      BY <1>2, <2>2, <3>1, LenProperties DEF DefinesExact
    <3>3. /\ define_stack' = [define_stack EXCEPT ![d] = None]
          /\ sym_define' = [sym_define EXCEPT ![l.arg] = 0]
          /\ define_start' = define_start
      BY <2>2 DEF Undef
    <3>4. /\ define_stack' \in Seq(Macros \cup {None})
          /\ Len(define_stack') = Len(define_stack)
          /\ DOMAIN define_stack' = DOMAIN define_stack
          /\ define_stack'[d] = None
          /\ \A i \in 1 .. Len(define_stack) : i # d => define_stack'[i] = define_stack[i]
      BY <3>1, <3>2, <3>3, ExceptSeq
    <3>5. DefineTypes'
      BY <3>1, <3>3, <3>4 DEF DefineTypes
    <3>6. ASSUME NEW m \in Macros, define_find(m)'
          PROVE  /\ sym_define'[m] \in DOMAIN define_stack'
                 /\ define_stack'[sym_define'[m]] = m
                 /\ \A i \in sym_define'[m] + 1 .. Len(define_stack') : define_stack'[i] # m
      <4>1. m # l.arg
        BY <3>1, <3>3, <3>6 DEF define_find
      <4>2. sym_define'[m] = sym_define[m] /\ define_find(m)
        BY <3>1, <3>3, <3>6, <4>1 DEF define_find
      <4>3. /\ sym_define[m] \in DOMAIN define_stack
            /\ define_stack[sym_define[m]] = m
            /\ \A i \in sym_define[m] + 1 .. Len(define_stack) : define_stack[i] # m
        BY <3>1, <4>2 DEF DefinesExact
      <4>4. sym_define[m] \in 1 .. Len(define_stack) /\ Len(define_stack) \in Nat
        BY <3>1, <4>3, LenProperties
      <4>5. define_stack'[sym_define[m]] = m
        BY <3>2, <3>4, <4>1, <4>3, <4>4
      <4>6. ASSUME NEW i \in sym_define[m] + 1 .. Len(define_stack')
            PROVE  define_stack'[i] # m
        <5>1. i \in sym_define[m] + 1 .. Len(define_stack) /\ i \in 1 .. Len(define_stack)
          BY <3>4, <4>4
        <5>2. CASE i = d
          BY <3>4, <5>2, PreprocAssumption
        <5>3. CASE i # d
          BY <3>4, <4>3, <5>1, <5>3
        <5> QED
          BY <5>2, <5>3
      <4> QED
        BY <3>4, <4>2, <4>3, <4>5, <4>6
    <3>7. DefinesOK'
      BY <3>1, <3>3, <3>4, <3>6 DEF DefinesOK, DefinesExact
    <3> QED
      BY <3>5, <3>7
  <2> QED
    BY <2>1, <2>2
<1> QED
  BY <1>1, <1>3, <1>5, <1>6, LineOK DEF Undef, NoFlags

\* A line of a group, outside a skipped region or where it ends, in the same
\* file: what the definitions and the files need.
LEMMA GroupLineOK ==
    ASSUME IInv, NEW l \in NextLines, KeepsFiles,
           UNCHANGED <<content, include_depth, cached, defines, phase>>,
           bof' \in BOOLEAN, endif' \in BOOLEAN,
           GroupTypes', SelectedOK', BorrowOK', Current.ifdef_stack_ptr <= ifdefs'
    PROVE  IInv'
<1>1. phase = "run"
  BY ReadLine
<1>2. DefineTypes' /\ DefinesOK'
  BY DefinesKept
<1> QED
  BY <1>1, <1>2, LineOK

\* A group is opened where every group is selected.
LEMMA IfOK ==
    ASSUME IInv, NEW l \in NextLines, If(l)
    PROVE  IInv'
<1> DEFINE c == IF Condition(l) THEN 1 ELSE 0
           f == IF bof /\ l.op = "ifndef"
                THEN [Advanced EXCEPT !.ifndef_macro = l.arg] ELSE Advanced
<1>1. /\ phase = "run" /\ l \in Lines
      /\ Advanced \in BufferedFile
      /\ Advanced.ifdef_stack_ptr = Current.ifdef_stack_ptr
  BY ReadLine
<1>2. l.arg \in Macros
  BY <1>1, PreprocAssumption DEF If
<1>3. f \in BufferedFile /\ f.ifdef_stack_ptr = Current.ifdef_stack_ptr
  BY <1>1, <1>2 DEF BufferedFile
<1>4. SetCurrent(f)
  BY DEF If
<1>5. KeepsFiles
  BY <1>1, <1>3, <1>4, SetCurrentKeepsFiles
<1>6. c \in 0 .. 1 /\ c \in 0 .. 3
  OBVIOUS
<1>7. /\ ifdef_stack' = Append(ifdef_stack, c)
      /\ TestSkip(c)
      /\ ifdefs < IfdefStackSize /\ ~ skipping
      /\ UNCHANGED <<content, include_depth, cached, defines, phase>>
      /\ bof' = FALSE /\ endif' = FALSE
  BY DEF If, Process, NoFlags
<1> HIDE DEF c, f
<1>8. ifdef_stack \in Seq(0 .. 3) /\ ifdefs \in Nat /\ IfdefStackSize \in Nat
  BY LenProperties, PreprocAssumption DEF IInv, TypeOK, ifdefs
<1>9. /\ ifdef_stack' \in Seq(0 .. 3)
      /\ ifdefs' = ifdefs + 1
      /\ ifdef_stack'[ifdefs + 1] = c
      /\ \A i \in 1 .. ifdefs : ifdef_stack'[i] = ifdef_stack[i]
  BY <1>6, <1>7, <1>8, OneMore DEF ifdefs
<1>10. skipping' = (c % 2 = 0) /\ a' = 0
  BY <1>7 DEF TestSkip
<1>11. GroupTypes'
  BY <1>7, <1>8, <1>9, <1>10 DEF GroupTypes
<1>12. SelectedOK'
  <2>1. SUFFICES ASSUME NEW i \in 1 .. ifdefs', ifdef_stack'[i] % 2 = 0
                 PROVE  skipping' /\ i = ifdefs'
    BY DEF SelectedOK
  <2>2. CASE i = ifdefs'
    BY <1>9, <1>10, <2>1, <2>2
  <2>3. CASE i # ifdefs'
    <3>1. i \in 1 .. ifdefs
      BY <1>8, <1>9, <2>3
    <3> QED
      BY <1>1, <1>7, <1>9, <2>1, <3>1 DEF IInv, SelectedOK
  <2> QED
    BY <2>2, <2>3
<1>13. Current.ifdef_stack_ptr \in Nat /\ Current.ifdef_stack_ptr <= ifdefs
  BY <1>1, CurrentFile DEF IInv, PtrsOK, BufferedFile
<1>14. Current'.ifdef_stack_ptr = Current.ifdef_stack_ptr
  BY <1>1, <1>5, KeepsFilesPtrs
<1>15. BorrowOK'
  BY <1>8, <1>9, <1>13, <1>14 DEF BorrowOK, Borrowed
<1>16. Current.ifdef_stack_ptr <= ifdefs'
  BY <1>8, <1>9, <1>13
<1> QED
  BY <1>5, <1>7, <1>11, <1>12, <1>15, <1>16, GroupLineOK

\* The entry of the innermost group becomes c.  Where this file has no group
\* of its own, the branch must not be selected by it, and it was selected.
LEMMA TestElseOK ==
    ASSUME IInv, NEW l \in NextLines, NEW c \in 0 .. 3, TestElse(c), ifdefs # 0,
           ifdefs = Current.ifdef_stack_ptr /\ c % 2 = 0 => c = 2,
           UNCHANGED <<content, include_depth, cached, defines, phase>>,
           NoFlags
    PROVE  IInv'
<1> DEFINE f == IF ifdefs = Current.ifdef_stack_ptr + 1
                THEN [Advanced EXCEPT !.ifndef_macro = None] ELSE Advanced
<1>1. /\ phase = "run"
      /\ Advanced \in BufferedFile
      /\ Advanced.ifdef_stack_ptr = Current.ifdef_stack_ptr
  BY ReadLine
<1>2. f \in BufferedFile /\ f.ifdef_stack_ptr = Current.ifdef_stack_ptr
  BY <1>1 DEF BufferedFile
<1>3. SetCurrent(f)
  BY DEF TestElse
<1> HIDE DEF f
<1>4. KeepsFiles
  BY <1>1, <1>2, <1>3, SetCurrentKeepsFiles
<1>5. ifdef_stack' = Append(Front(ifdef_stack), c)
  BY DEF TestElse
<1>6. /\ ifdef_stack' \in Seq(0 .. 3)
      /\ ifdefs' = ifdefs
      /\ Last(ifdef_stack') = c
      /\ \A i \in 1 .. ifdefs - 1 : ifdef_stack'[i] = ifdef_stack[i]
  BY <1>5, SetGroup
<1>7. skipping' = (c % 2 = 0) /\ a' = 0
  BY DEF TestElse, TestSkip
<1>8. ifdefs \in Nat
  BY LenProperties DEF IInv, TypeOK, ifdefs
<1>9. GroupTypes'
  BY <1>6, <1>7 DEF GroupTypes, IInv, TypeOK
<1>10. SelectedOK'
  <2>1. SUFFICES ASSUME NEW i \in 1 .. ifdefs', ifdef_stack'[i] % 2 = 0
                 PROVE  skipping' /\ i = ifdefs'
    BY DEF SelectedOK
  <2>2. CASE i = ifdefs'
    BY <1>6, <1>7, <2>1, <2>2 DEF Last, ifdefs
  <2>3. CASE i # ifdefs'
    <3>1. i \in 1 .. ifdefs - 1 /\ i \in 1 .. ifdefs
      BY <1>6, <1>8, <2>3
    <3>2. ifdef_stack[i] % 2 = 0
      BY <1>6, <2>1, <3>1
    <3>3. i = ifdefs
      BY <1>1, <3>1, <3>2 DEF IInv, SelectedOK
    <3> QED
      BY <1>8, <3>1, <3>3
  <2> QED
    BY <2>2, <2>3
<1>11. Current'.ifdef_stack_ptr = Current.ifdef_stack_ptr
  BY <1>1, <1>4, KeepsFilesPtrs
<1>12. BorrowOK'
  <2>1. SUFFICES ASSUME skipping', ifdefs' = Current'.ifdef_stack_ptr
                 PROVE  ifdefs' > 0 /\ Last(ifdef_stack') \in {1, 2}
    BY DEF BorrowOK, Borrowed
  <2>2. c % 2 = 0 /\ ifdefs = Current.ifdef_stack_ptr
    BY <1>6, <1>7, <1>11, <2>1
  <2>3. c = 2
    BY <2>2
  <2> QED
    BY <1>6, <1>8, <2>3
<1>13. Current.ifdef_stack_ptr <= ifdefs'
  BY <1>1, <1>6 DEF IInv, PtrsOK
<1> QED
  BY <1>4, <1>9, <1>10, <1>12, <1>13, GroupLineOK DEF NoFlags

\* What is known of the innermost group.
LEMMA InnermostGroup ==
    ASSUME IInv, phase = "run", ifdefs # 0
    PROVE  /\ Last(ifdef_stack) \in 0 .. 3
           /\ Last(ifdef_stack) % 2 = 0 => skipping
           /\ skipping /\ ifdefs = Current.ifdef_stack_ptr => Last(ifdef_stack) \in {1, 2}
<1>1. ifdefs \in 1 .. ifdefs /\ ifdef_stack \in Seq(0 .. 3)
  BY LenProperties DEF IInv, TypeOK, ifdefs
<1>2. Last(ifdef_stack) \in 0 .. 3
  BY <1>1, ElementOfSeq DEF Last, ifdefs
<1>3. Last(ifdef_stack) % 2 = 0 => skipping
  <2>1. Last(ifdef_stack) = ifdef_stack[ifdefs]
    BY DEF Last, ifdefs
  <2> QED
    BY <1>1, <2>1 DEF IInv, SelectedOK
<1>4. skipping /\ ifdefs = Current.ifdef_stack_ptr => Last(ifdef_stack) \in {1, 2}
  BY DEF IInv, BorrowOK, Borrowed
<1> QED
  BY <1>2, <1>3, <1>4

\* #else takes a group of the includer only when its branch was selected, and
\* then nothing is selected until the file ends.
LEMMA ElseOK ==
    ASSUME IInv, NEW l \in NextLines, Else(l)
    PROVE  IInv'
<1> DEFINE c == 3 - Last(ifdef_stack)
<1>1. /\ TestElse(c) /\ ifdefs # 0 /\ Last(ifdef_stack) < 2
      /\ NoFlags
      /\ UNCHANGED <<content, include_depth, cached, defines, phase>>
  BY DEF Else
<1>2. phase = "run"
  BY ReadLine
<1>3. /\ Last(ifdef_stack) \in 0 .. 3
      /\ skipping /\ ifdefs = Current.ifdef_stack_ptr => Last(ifdef_stack) \in {1, 2}
  BY <1>1, <1>2, InnermostGroup
<1>4. c \in 0 .. 3 /\ (c % 2 = 0 => c = 2)
  BY <1>1, <1>3
<1> HIDE DEF c
<1> QED
  BY <1>1, <1>4, TestElseOK

\* So it is with #elif, which after a selected branch leaves the stack alone.
LEMMA ElifOK ==
    ASSUME IInv, NEW l \in NextLines, Elif(l)
    PROVE  IInv'
<1>1. /\ phase = "run"
      /\ Advanced \in BufferedFile
      /\ Advanced.ifdef_stack_ptr = Current.ifdef_stack_ptr
  BY ReadLine
<1>2. /\ ifdefs # 0 /\ NoFlags
      /\ UNCHANGED <<content, include_depth, cached, defines, phase>>
  BY DEF Elif
<1>3. /\ Last(ifdef_stack) \in 0 .. 3
      /\ Last(ifdef_stack) % 2 = 0 => skipping
      /\ skipping /\ ifdefs = Current.ifdef_stack_ptr => Last(ifdef_stack) \in {1, 2}
  BY <1>1, <1>2, InnermostGroup
<1>4. CASE /\ Last(ifdef_stack) = 1
           /\ skipping' = TRUE /\ a' = 0
           /\ SetCurrent(Advanced)
           /\ UNCHANGED ifdef_stack
  <2>1. KeepsFiles
    BY <1>1, <1>4, SetCurrentKeepsFiles
  <2>2. ifdefs' = ifdefs
    BY <1>4 DEF ifdefs
  <2>3. GroupTypes'
    BY <1>4, <2>2 DEF GroupTypes, IInv, TypeOK
  <2>4. SelectedOK'
    BY <1>1, <1>4, <2>2 DEF IInv, SelectedOK
  <2>5. BorrowOK'
    <3>1. ifdefs > 0 /\ Last(ifdef_stack') = 1
      BY <1>2, <1>4, LenProperties DEF IInv, TypeOK, ifdefs
    <3> QED
      BY <2>2, <3>1 DEF BorrowOK
  <2>6. Current.ifdef_stack_ptr <= ifdefs'
    BY <1>1, <2>2 DEF IInv, PtrsOK
  <2> QED
    BY <1>2, <2>1, <2>3, <2>4, <2>5, <2>6, GroupLineOK DEF NoFlags
<1>5. CASE /\ Last(ifdef_stack) = 0
           /\ TestElse(IF Condition(l) THEN 1 ELSE 0)
  <2> DEFINE c == IF Condition(l) THEN 1 ELSE 0
  <2>1. ifdefs # Current.ifdef_stack_ptr
    BY <1>3, <1>5
  <2>2. c \in 0 .. 3 /\ TestElse(c)
    BY <1>5
  <2> HIDE DEF c
  <2> QED
    BY <1>2, <2>1, <2>2, TestElseOK
<1> QED
  BY <1>4, <1>5 DEF Elif

\* #endif ends a group of the current file, all those around are selected.
LEMMA EndifOK ==
    ASSUME IInv, NEW l \in NextLines, Endif(l)
    PROVE  IInv'
<1> DEFINE guard == /\ Current.ifndef_macro # None
                    /\ ifdefs - 1 = Current.ifdef_stack_ptr
           f == IF guard
                THEN [Advanced EXCEPT !.ifndef_macro_saved = Current.ifndef_macro,
                                      !.ifndef_macro = None]
                ELSE Advanced
<1>1. /\ phase = "run"
      /\ Advanced \in BufferedFile
      /\ Advanced.ifdef_stack_ptr = Current.ifdef_stack_ptr
  BY ReadLine
<1>2. Current \in BufferedFile
  BY <1>1, CurrentFile
<1>3. f \in BufferedFile /\ f.ifdef_stack_ptr = Current.ifdef_stack_ptr
  BY <1>1, <1>2 DEF BufferedFile
<1>4. /\ SetCurrent(f)
      /\ endif' = guard
  BY DEF Endif
<1>5. endif' \in BOOLEAN
  BY <1>4
<1> HIDE DEF guard, f
<1>6. KeepsFiles
  BY <1>1, <1>3, <1>4, SetCurrentKeepsFiles
<1>7. /\ ifdefs > Current.ifdef_stack_ptr
      /\ ifdef_stack' = Front(ifdef_stack)
      /\ bof' = FALSE
      /\ skipping' = FALSE /\ a' = 0
      /\ UNCHANGED <<content, include_depth, cached, defines, phase>>
  BY DEF Endif
<1>8. /\ ifdef_stack \in Seq(0 .. 3) /\ ifdefs \in Nat
      /\ ifdefs <= IfdefStackSize /\ IfdefStackSize \in Nat
      /\ Current.ifdef_stack_ptr \in Nat
  BY <1>2, LenProperties, PreprocAssumption DEF IInv, TypeOK, ifdefs, BufferedFile
<1>9. Len(ifdef_stack) > 0
  BY <1>7, <1>8 DEF ifdefs
<1>10. /\ ifdef_stack' \in Seq(0 .. 3)
       /\ ifdefs' = ifdefs - 1
       /\ \A i \in 1 .. ifdefs - 1 : ifdef_stack'[i] = ifdef_stack[i]
  BY <1>7, <1>8, <1>9, FrontOf DEF ifdefs
<1>11. GroupTypes'
  <2>1. ifdefs' <= IfdefStackSize
    BY <1>8, <1>10
  <2>2. skipping' \in BOOLEAN /\ a' \in Nat
    BY <1>7
  <2> QED
    BY <1>10, <2>1, <2>2 DEF GroupTypes
<1>12. SelectedOK'
  <2>1. SUFFICES ASSUME NEW i \in 1 .. ifdefs', ifdef_stack'[i] % 2 = 0
                 PROVE  FALSE
    BY DEF SelectedOK
  <2>2. i \in 1 .. ifdefs - 1 /\ i \in 1 .. ifdefs /\ i # ifdefs
    BY <1>8, <1>10
  <2>3. ifdef_stack[i] % 2 = 0
    BY <1>10, <2>1, <2>2
  <2>4. i = ifdefs
    BY <1>1, <2>2, <2>3 DEF IInv, SelectedOK
  <2> QED
    BY <2>2, <2>4
<1>13. BorrowOK'
  BY <1>7 DEF BorrowOK, Borrowed
<1>14. Current.ifdef_stack_ptr <= ifdefs'
  BY <1>7, <1>8, <1>10
<1> QED
  BY <1>5, <1>6, <1>7, <1>11, <1>12, <1>13, <1>14, GroupLineOK

(***************************************************************************)
(* Files and units.                                                        *)
(***************************************************************************)

\* The groups of an included file begin where those of its includer end.
LEMMA IncludeOK ==
    ASSUME IInv, NEW l \in NextLines, Include(l)
    PROVE  IInv'
<1> DEFINE t == Append(Front(file), Advanced)
           new == Opened(l.arg, ifdefs)
           n == Len(file)
<1>1. /\ phase = "run" /\ l \in Lines
      /\ Advanced \in BufferedFile
      /\ Advanced.ifdef_stack_ptr = Current.ifdef_stack_ptr
  BY ReadLine
<1>2. l.arg \in Headers
  BY <1>1, PreprocAssumption DEF Include
<1>3. /\ file' = Append(t, new)
      /\ include_depth' = include_depth + 1
      /\ include_depth < IncludeStackSize
      /\ bof' = TRUE /\ endif' = FALSE
      /\ UNCHANGED <<content, ifdef_stack, skipping, a, cached, defines, phase>>
  BY DEF Include
<1>4. ~ skipping
  BY DEF Include, Process
<1>5. /\ file \in Seq(BufferedFile) /\ n \in Nat /\ n > 0
      /\ ifdefs \in Nat /\ include_depth \in Nat /\ include_depth < n
      /\ IncludeStackSize \in Nat
  BY <1>1, CurrentFile, LenProperties, PreprocAssumption DEF IInv, TypeOK, ifdefs, RunOK
<1>6. new \in BufferedFile /\ new.ifdef_stack_ptr = ifdefs
  BY <1>2, <1>5 DEF Opened, BufferedFile, Names
<1>7. /\ t \in Seq(BufferedFile) /\ Len(t) = n
      /\ t[n] = Advanced
      /\ \A i \in 1 .. n - 1 : t[i] = file[i]
  BY <1>1, <1>5, ReplaceLast
<1> HIDE DEF t, new
<1>8. /\ file' \in Seq(BufferedFile) /\ Len(file') = n + 1
      /\ file'[n + 1] = new
      /\ \A i \in 1 .. n : file'[i] = t[i]
  BY <1>3, <1>6, <1>7, OneMore
<1>9. \A i \in 1 .. n : file'[i].ifdef_stack_ptr = file[i].ifdef_stack_ptr
  <2>1. SUFFICES ASSUME NEW i \in 1 .. n
                 PROVE  t[i].ifdef_stack_ptr = file[i].ifdef_stack_ptr
    BY <1>8
  <2>2. CASE i = n
    BY <1>1, <1>7, <2>2 DEF Current, Last
  <2>3. CASE i # n
    <3>1. i \in 1 .. n - 1
      BY <1>5, <2>3
    <3> QED
      BY <1>7, <3>1
  <2> QED
    BY <2>2, <2>3
<1>10. Current' = new /\ ifdefs' = ifdefs
  BY <1>3, <1>8 DEF Current, Last, ifdefs
<1>11. DefineTypes' /\ DefinesOK'
  BY <1>3, DefinesKept
<1>12. TypeOK' /\ content' \in Contents
  <2>1. include_depth' \in 0 .. IncludeStackSize
    BY <1>3, <1>5
  <2> QED
    BY <1>3, <1>8, <1>10, <1>11, <2>1 DEF IInv, TypeOK, DefineTypes
<1>13. RunOK'
  BY <1>3, <1>5, <1>8 DEF RunOK
<1>14. PtrsOK'
  <2>1. Current'.ifdef_stack_ptr <= ifdefs'
    BY <1>5, <1>6, <1>10
  <2>2. ASSUME NEW i \in n - include_depth .. n + 1, NEW j \in n - include_depth .. n + 1,
               i <= j
        PROVE  file'[i].ifdef_stack_ptr <= file'[j].ifdef_stack_ptr
    <3>1. CASE j = n + 1
      <4>1. CASE i = n + 1
        BY <1>5, <1>6, <1>8, <3>1, <4>1
      <4>2. CASE i # n + 1
        <5>1. i \in n - include_depth .. n /\ i \in 1 .. n /\ i <= n
              /\ n \in n - include_depth .. n
          BY <1>5, <4>2
        <5>2. file[i].ifdef_stack_ptr <= file[n].ifdef_stack_ptr
          BY <1>1, <5>1 DEF IInv, PtrsOK
        <5>3. file[n].ifdef_stack_ptr <= ifdefs
          BY <1>1 DEF IInv, PtrsOK, Current, Last
        <5>4. file[i] \in BufferedFile /\ file[n] \in BufferedFile
          BY <1>5, <5>1, ElementOfSeq
        <5>5. file[i].ifdef_stack_ptr \in Nat /\ file[n].ifdef_stack_ptr \in Nat
          BY <5>4 DEF BufferedFile
        <5>6. file[i].ifdef_stack_ptr <= ifdefs
          BY <1>5, <5>2, <5>3, <5>5
        <5> QED
          BY <1>6, <1>8, <1>9, <3>1, <5>1, <5>6
      <4> QED
        BY <4>1, <4>2
    <3>2. CASE j # n + 1
      <4>1. /\ i \in n - include_depth .. n /\ j \in n - include_depth .. n
            /\ i \in 1 .. n /\ j \in 1 .. n
        BY <1>5, <2>2, <3>2
      <4>2. file[i].ifdef_stack_ptr <= file[j].ifdef_stack_ptr
        BY <1>1, <2>2, <4>1 DEF IInv, PtrsOK
      <4> QED
        BY <1>9, <4>1, <4>2
    <3> QED
      BY <3>1, <3>2
  <2>3. Len(file') - include_depth' = n - include_depth
    BY <1>3, <1>5, <1>8
  <2> QED
    BY <1>8, <2>1, <2>2, <2>3 DEF PtrsOK
<1>15. SelectedOK' /\ IdleOK' /\ BorrowOK'
  BY <1>1, <1>3, <1>4, <1>10 DEF IInv, SelectedOK, IdleOK, BorrowOK, Borrowed
<1> QED
  BY <1>11, <1>12, <1>13, <1>14, <1>15 DEF IInv

\* The includer goes on with the groups it had.
LEMMA EndOfIncludeOK ==
    ASSUME IInv, EndOfInclude
    PROVE  IInv'
<1> DEFINE n == Len(file)
<1>1. /\ phase = "run" /\ ~ skipping
      /\ include_depth > 0 /\ ifdefs = Current.ifdef_stack_ptr
      /\ cached' = IF endif /\ cached[Current.filename] = None
                   THEN [cached EXCEPT ![Current.filename] = Current.ifndef_macro_saved]
                   ELSE cached
      /\ endif' = FALSE
      /\ file' = Front(file)
      /\ include_depth' = include_depth - 1
      /\ UNCHANGED <<content, ifdef_stack, skipping, a, bof, defines, phase>>
  BY DEF EndOfInclude
<1>2. Current \in BufferedFile
  BY <1>1, CurrentFile
<1>3. /\ file \in Seq(BufferedFile) /\ n \in Nat /\ n > 0
      /\ ifdefs \in Nat /\ include_depth \in Nat /\ include_depth < n
      /\ include_depth <= IncludeStackSize /\ IncludeStackSize \in Nat
  BY <1>1, CurrentFile, LenProperties, PreprocAssumption DEF IInv, TypeOK, ifdefs, RunOK
<1>4. /\ file' \in Seq(BufferedFile) /\ Len(file') = n - 1
      /\ \A i \in 1 .. n - 1 : file'[i] = file[i]
  BY <1>1, <1>3, FrontOf
<1>5. n > 1
  BY <1>1, <1>3
<1>6. Current' = file[n - 1] /\ ifdefs' = ifdefs
  BY <1>1, <1>3, <1>4, <1>5 DEF Current, Last, ifdefs
<1>7. cached' \in [Names -> Macros \cup {None}]
  BY <1>1, <1>2 DEF IInv, TypeOK, BufferedFile
<1>8. include_depth' \in 0 .. IncludeStackSize
  BY <1>1, <1>3
<1>9. DefineTypes' /\ DefinesOK'
  BY <1>1, DefinesKept
<1>10. TypeOK' /\ content' \in Contents
  BY <1>1, <1>4, <1>6, <1>7, <1>8, <1>9 DEF IInv, TypeOK, DefineTypes
<1>11. RunOK'
  BY <1>1, <1>3, <1>4 DEF RunOK
<1>12. PtrsOK'
  <2>1. /\ n - 1 \in n - include_depth .. n /\ n \in n - include_depth .. n
        /\ n - 1 <= n
    BY <1>1, <1>3, <1>5
  <2>2. file[n - 1].ifdef_stack_ptr <= file[n].ifdef_stack_ptr
    BY <1>1, <2>1 DEF IInv, PtrsOK
  <2>3. Current'.ifdef_stack_ptr <= ifdefs'
    BY <1>1, <1>6, <2>2 DEF Current, Last
  <2>4. Len(file') - include_depth' = n - include_depth
    BY <1>1, <1>3, <1>4
  <2>5. ASSUME NEW i \in n - include_depth .. n - 1, NEW j \in n - include_depth .. n - 1,
               i <= j
        PROVE  file'[i].ifdef_stack_ptr <= file'[j].ifdef_stack_ptr
    <3>1. /\ i \in n - include_depth .. n /\ j \in n - include_depth .. n
          /\ i \in 1 .. n - 1 /\ j \in 1 .. n - 1
      BY <1>3
    <3>2. file[i].ifdef_stack_ptr <= file[j].ifdef_stack_ptr
      BY <1>1, <2>5, <3>1 DEF IInv, PtrsOK
    <3> QED
      BY <1>4, <3>1, <3>2
  <2> QED
    BY <1>4, <2>3, <2>4, <2>5 DEF PtrsOK
<1>13. SelectedOK' /\ IdleOK' /\ BorrowOK'
  BY <1>1, <1>6 DEF IInv, SelectedOK, IdleOK, BorrowOK, Borrowed
<1> QED
  BY <1>9, <1>10, <1>11, <1>12, <1>13 DEF IInv

\* A unit starts with one file and no group.
LEMMA StartUnitOK ==
    ASSUME IInv, StartUnit
    PROVE  IInv'
<1> DEFINE new == Opened(Main, 0)
           n == Len(file)
<1>1. /\ phase = "idle" /\ phase' = "run"
      /\ ifdef_stack' = <<>>
      /\ file' = Append(file, new)
      /\ include_depth' = 0
      /\ define_start' = Len(define_stack)
      /\ bof' = TRUE /\ endif' = FALSE
      /\ UNCHANGED <<content, skipping, a, cached, define_stack, sym_define>>
  BY DEF StartUnit
<1>2. file \in Seq(BufferedFile) /\ n \in Nat /\ ~ skipping
  BY <1>1, LenProperties DEF IInv, TypeOK, IdleOK
<1>3. new \in BufferedFile /\ new.ifdef_stack_ptr = 0
  BY DEF Opened, BufferedFile, Names
<1> HIDE DEF new
<1>4. /\ file' \in Seq(BufferedFile) /\ Len(file') = n + 1
      /\ file'[n + 1] = new
  BY <1>1, <1>2, <1>3, OneMore
<1>5. Current' = new
  BY <1>4 DEF Current, Last
<1>6. ifdefs' = 0 /\ ifdef_stack' \in Seq(0 .. 3)
  BY <1>1 DEF ifdefs
<1>7. Len(define_stack) \in Nat
  BY LenProperties DEF IInv, TypeOK
<1>8. TypeOK' /\ content' \in Contents
  <2>1. ifdefs' <= IfdefStackSize /\ include_depth' \in 0 .. IncludeStackSize
    BY <1>1, <1>6, PreprocAssumption
  <2> QED
    BY <1>1, <1>4, <1>6, <1>7, <2>1 DEF IInv, TypeOK
<1>9. RunOK'
  BY <1>1, <1>2, <1>4 DEF RunOK
<1>10. PtrsOK'
  <2>1. Current'.ifdef_stack_ptr <= ifdefs'
    BY <1>3, <1>5, <1>6
  <2>2. \A i, j \in Len(file') - include_depth' .. Len(file') : i = n + 1 /\ j = n + 1
    BY <1>1, <1>2, <1>4
  <2>3. file'[n + 1].ifdef_stack_ptr <= file'[n + 1].ifdef_stack_ptr
    BY <1>3, <1>4
  <2> QED
    BY <2>1, <2>2, <2>3 DEF PtrsOK
<1>11. SelectedOK' /\ IdleOK' /\ BorrowOK'
  BY <1>1, <1>2, <1>6 DEF SelectedOK, IdleOK, BorrowOK, Borrowed
<1>12. DefinesOK'
  BY <1>1, <1>7 DEF IInv, DefinesOK, DefinesExact, define_find
<1> QED
  BY <1>8, <1>9, <1>10, <1>11, <1>12 DEF IInv

\* The definitions of a unit are freed with their entries in the token table.
LEMMA FreeDefinesOK ==
    ASSUME IInv, FreeDefines
    PROVE  DefineTypes' /\ DefinesOK'
<1>1. /\ define_stack \in Seq(Macros \cup {None})
      /\ sym_define \in [Macros -> Nat]
      /\ define_start \in Nat /\ define_start <= Len(define_stack)
      /\ Len(define_stack) \in Nat
      /\ DefinesExact
  BY LenProperties DEF IInv, TypeOK, DefinesOK
<1>2. /\ sym_define' = [m \in Macros |->
             IF \E i \in define_start + 1 .. Len(define_stack) : define_stack[i] = m
             THEN 0 ELSE sym_define[m]]
      /\ define_stack' = SubSeq(define_stack, 1, define_start)
      /\ define_start' = define_start
  BY DEF FreeDefines
<1>3. /\ define_stack' \in Seq(Macros \cup {None})
      /\ Len(define_stack') = define_start
      /\ \A i \in 1 .. define_start : define_stack'[i] = define_stack[i]
  BY <1>1, <1>2, PrefixOf
<1>4. sym_define' \in [Macros -> Nat]
  BY <1>1, <1>2
<1>5. DefineTypes'
  BY <1>1, <1>2, <1>3, <1>4 DEF DefineTypes
<1>6. ASSUME NEW m \in Macros, define_find(m)'
      PROVE  /\ sym_define'[m] \in DOMAIN define_stack'
             /\ define_stack'[sym_define'[m]] = m
             /\ \A i \in sym_define'[m] + 1 .. Len(define_stack') : define_stack'[i] # m
  <2>1. /\ ~ \E i \in define_start + 1 .. Len(define_stack) : define_stack[i] = m
        /\ sym_define'[m] = sym_define[m]
        /\ define_find(m)
    BY <1>2, <1>6 DEF define_find
  <2>2. /\ sym_define[m] \in DOMAIN define_stack
        /\ define_stack[sym_define[m]] = m
        /\ \A i \in sym_define[m] + 1 .. Len(define_stack) : define_stack[i] # m
    BY <1>1, <2>1 DEF DefinesExact
  <2>3. sym_define[m] \in 1 .. Len(define_stack)
    BY <1>1, <2>2, LenProperties
  <2>4. sym_define[m] \in 1 .. define_start
    BY <1>1, <2>1, <2>2, <2>3
  <2>5. DOMAIN define_stack' = 1 .. define_start
    BY <1>3, LenProperties
  <2>6. ASSUME NEW i \in sym_define[m] + 1 .. define_start
        PROVE  define_stack'[i] # m
    <3>1. i \in 1 .. define_start /\ i \in sym_define[m] + 1 .. Len(define_stack)
      BY <1>1, <2>4
    <3> QED
      BY <1>3, <2>2, <3>1
  <2> QED
    BY <1>3, <2>1, <2>2, <2>4, <2>5, <2>6
<1>7. DefinesOK'
  BY <1>1, <1>2, <1>3, <1>6 DEF DefinesOK, DefinesExact
<1> QED
  BY <1>5, <1>7

\* A unit ends, or an error ends it, with any number of files open.
LEMMA EndUnitOK ==
    ASSUME IInv, phase = "run", EndUnit
    PROVE  IInv'
<1>1. /\ phase' = "idle"
      /\ FreeDefines
      /\ file' = Front(file)
      /\ skipping' = FALSE /\ a' = 0
      /\ UNCHANGED <<content, include_depth, ifdef_stack, flags, cached>>
  BY DEF EndUnit
<1>2. file \in Seq(BufferedFile) /\ Len(file) > 0
  BY CurrentFile DEF IInv, TypeOK
<1>3. file' \in Seq(BufferedFile)
  BY <1>1, <1>2, FrontOf
<1>4. DefineTypes' /\ DefinesOK'
  BY <1>1, FreeDefinesOK
<1>5. TypeOK' /\ content' \in Contents
  BY <1>1, <1>3, <1>4 DEF IInv, TypeOK, DefineTypes, flags, ifdefs
<1>6. RunOK' /\ PtrsOK' /\ SelectedOK' /\ IdleOK' /\ BorrowOK'
  BY <1>1 DEF RunOK, PtrsOK, SelectedOK, IdleOK, BorrowOK, Borrowed
<1> QED
  BY <1>4, <1>5, <1>6 DEF IInv

(***************************************************************************)
(* The invariant holds initially and every step preserves it.              *)
(***************************************************************************)

\* tcc_new with any macros defined by -D.
LEMMA InitOK ==
    ASSUME Init
    PROVE  IInv
<1>1. PICK D \in SUBSET Macros :
         /\ define_stack = SetToSeq(D)
         /\ sym_define = [m \in Macros |-> IF m \in D
                             THEN CHOOSE i \in DOMAIN define_stack : define_stack[i] = m
                             ELSE 0]
  BY DEF Init
<1>2. IsFiniteSet(D)
  BY PreprocAssumption, FS_Subset
<1>3. /\ define_stack \in Seq(D)
      /\ \A m \in D : \E i \in DOMAIN define_stack : define_stack[i] = m
      /\ \A i, j \in DOMAIN define_stack : define_stack[i] = define_stack[j] => i = j
  BY <1>1, <1>2, SetToSeqLists
<1>4. /\ define_stack \in Seq(Macros \cup {None})
      /\ DOMAIN define_stack = 1 .. Len(define_stack)
      /\ Len(define_stack) \in Nat
  <2>1. /\ Len(define_stack) \in Nat
        /\ DOMAIN define_stack = 1 .. Len(define_stack)
        /\ define_stack \in [1 .. Len(define_stack) -> D]
    BY <1>3, LenProperties
  <2>2. define_stack \in [1 .. Len(define_stack) -> Macros \cup {None}]
    BY <1>1, <2>1
  <2> QED
    BY <2>1, <2>2, SeqDef
<1>5. ASSUME NEW m \in Macros
      PROVE  /\ sym_define[m] \in Nat
             /\ sym_define[m] # 0 => /\ sym_define[m] \in DOMAIN define_stack
                                     /\ define_stack[sym_define[m]] = m
  <2>1. CASE m \in D
    <3>1. sym_define[m] = CHOOSE i \in DOMAIN define_stack : define_stack[i] = m
      BY <1>1, <2>1
    <3>2. sym_define[m] \in DOMAIN define_stack /\ define_stack[sym_define[m]] = m
      BY <1>3, <2>1, <3>1
    <3> QED
      BY <1>4, <3>2
  <2>2. CASE m \notin D
    BY <1>1, <2>2
  <2> QED
    BY <2>1, <2>2
<1>6. sym_define \in [Macros -> Nat]
  <2>1. DOMAIN sym_define = Macros /\ sym_define = [m \in Macros |-> sym_define[m]]
    BY <1>1
  <2> QED
    BY <1>5, <2>1
<1>7. DefinesExact
  <2>1. SUFFICES ASSUME NEW m \in Macros, define_find(m)
                 PROVE  /\ sym_define[m] \in DOMAIN define_stack
                        /\ define_stack[sym_define[m]] = m
                        /\ \A i \in sym_define[m] + 1 .. Len(define_stack) :
                              define_stack[i] # m
    BY DEF DefinesExact
  <2>2. sym_define[m] \in DOMAIN define_stack /\ define_stack[sym_define[m]] = m
    BY <1>5, <2>1 DEF define_find
  <2>3. ASSUME NEW i \in sym_define[m] + 1 .. Len(define_stack)
        PROVE  define_stack[i] # m
    <3>1. i \in DOMAIN define_stack /\ i # sym_define[m]
      BY <1>4, <2>2
    <3> QED
      BY <1>3, <2>2, <3>1
  <2> QED
    BY <2>2, <2>3
<1>8. /\ content \in Contents
      /\ file = <<>> /\ include_depth = 0
      /\ ifdef_stack = <<>>
      /\ skipping = FALSE /\ a = 0
      /\ bof = FALSE /\ endif = FALSE
      /\ cached = [f \in Names |-> None]
      /\ define_start = Len(define_stack)
      /\ phase = "idle"
  BY DEF Init
<1>9. TypeOK
  <2>1. content \in [Headers -> Seq(Lines)]
    BY <1>8, PreprocAssumption
  <2>2. /\ file \in Seq(BufferedFile) /\ ifdef_stack \in Seq(0 .. 3)
        /\ ifdefs <= IfdefStackSize /\ include_depth \in 0 .. IncludeStackSize
    BY <1>8, PreprocAssumption DEF ifdefs
  <2> QED
    BY <1>4, <1>6, <1>8, <2>1, <2>2 DEF TypeOK
<1>10. RunOK /\ PtrsOK /\ SelectedOK /\ IdleOK /\ BorrowOK
  BY <1>8 DEF RunOK, PtrsOK, SelectedOK, IdleOK, BorrowOK, Borrowed
<1> QED
  BY <1>4, <1>7, <1>8, <1>9, <1>10 DEF IInv, DefinesOK

\* A step that changes nothing.
LEMMA StutterOK ==
    ASSUME IInv, UNCHANGED vars
    PROVE  IInv'
<1>1. /\ UNCHANGED <<content, ifdef_stack, skipping, a, cached, phase>>
      /\ UNCHANGED files /\ UNCHANGED flags /\ UNCHANGED defines
  BY DEF vars
<1>2. UNCHANGED <<file, include_depth, bof, endif>>
  BY <1>1 DEF files, flags
<1>3. DefineTypes' /\ DefinesOK'
  BY <1>1, DefinesKept
<1>4. ifdefs' = ifdefs /\ Current' = Current
  BY <1>1, <1>2 DEF ifdefs, Current, Last
<1>5. TypeOK' /\ content' \in Contents
  BY <1>1, <1>2, <1>3, <1>4 DEF IInv, TypeOK, DefineTypes
<1>6. RunOK' /\ PtrsOK' /\ SelectedOK' /\ IdleOK' /\ BorrowOK'
  BY <1>1, <1>2, <1>4
     DEF IInv, RunOK, PtrsOK, SelectedOK, IdleOK, BorrowOK, Borrowed
<1> QED
  BY <1>3, <1>5, <1>6 DEF IInv

LEMMA LineStepOK ==
    ASSUME IInv, NEW l \in NextLines, LineStep(l)
    PROVE  IInv'
<1>1. CASE TextLine(l)
  BY <1>1, TextLineOK
<1>2. CASE LineDirective(l)
  BY <1>2, LineDirectiveOK
<1>3. CASE Define(l)
  BY <1>3, DefineOK
<1>4. CASE Undef(l)
  BY <1>4, UndefOK
<1>5. CASE IncludeCached(l)
  BY <1>5, IncludeCachedOK
<1>6. CASE Include(l)
  BY <1>6, IncludeOK
<1>7. CASE If(l)
  BY <1>7, IfOK
<1>8. CASE Else(l)
  BY <1>8, ElseOK
<1>9. CASE Elif(l)
  BY <1>9, ElifOK
<1>10. CASE Endif(l)
  BY <1>10, EndifOK
<1>11. CASE SkipLine(l)
  BY <1>11, SkipLineOK
<1> QED
  BY <1>1, <1>2, <1>3, <1>4, <1>5, <1>6, <1>7, <1>8, <1>9, <1>10, <1>11 DEF LineStep

LEMMA NextOK ==
    ASSUME IInv, [Next]_vars
    PROVE  IInv'
<1>1. CASE StartUnit
  BY <1>1, StartUnitOK
<1>2. CASE EndOfMain
  BY <1>2, EndUnitOK DEF EndOfMain
<1>3. CASE EndOfInclude
  BY <1>3, EndOfIncludeOK
<1>4. CASE Fail
  BY <1>4, EndUnitOK DEF Fail
<1>5. CASE Quit
  BY <1>5, StutterOK DEF Quit
<1>6. CASE \E l \in NextLines : LineStep(l)
  BY <1>6, LineStepOK
<1>7. CASE UNCHANGED vars
  BY <1>7, StutterOK
<1> QED
  BY <1>1, <1>2, <1>3, <1>4, <1>5, <1>6, <1>7 DEF Next

\* The inductive invariant holds in every state.
THEOREM Invariance == Spec => []IInv
<1>1. Init => IInv
  BY InitOK
<1>2. IInv /\ [Next]_vars => IInv'
  BY NextOK
<1> QED
  BY <1>1, <1>2, PTL DEF Spec

(***************************************************************************)
(* The theorems.                                                           *)
(***************************************************************************)

\* The variables keep their types: neither stack outgrows its array, and
\* every part of ifdef_stack is that of an open file.
THEOREM TypeCorrect == Spec => []TypeOK
<1>1. IInv => TypeOK
  BY DEF IInv
<1> QED
  BY <1>1, Invariance, PTL

\* Every open group around a line that takes effect is selected, and the
\* parts of ifdef_stack of the open files follow each other.
THEOREM BranchesSelected == Spec => []GroupsSelected
<1>1. ASSUME IInv, phase = "run"
      PROVE  /\ \A i \in 1 .. ifdefs : ifdef_stack[i] % 2 = 0 => skipping /\ i = ifdefs
             /\ \A i \in 1 .. Len(Unit) : Unit[i].ifdef_stack_ptr <= ifdefs
             /\ \A i \in 2 .. Len(Unit) :
                   Unit[i - 1].ifdef_stack_ptr <= Unit[i].ifdef_stack_ptr
  <2> DEFINE n == Len(file)
             b == n - include_depth
  <2>1. /\ file \in Seq(BufferedFile) /\ n \in Nat
        /\ include_depth \in Nat /\ include_depth < n
        /\ ifdefs \in Nat
    BY <1>1, LenProperties, PreprocAssumption DEF IInv, TypeOK, ifdefs, RunOK
  <2>2. b \in 1 .. n /\ n - b = include_depth
    BY <2>1
  <2>3. \A i \in b .. n : file[i] \in BufferedFile /\ file[i].ifdef_stack_ptr \in Nat
    <3>1. SUFFICES ASSUME NEW i \in b .. n
                   PROVE  file[i] \in BufferedFile
      BY DEF BufferedFile
    <3> QED
      BY <2>1, <2>2, ElementOfSeq
  <2>4. \A i, j \in b .. n :
           i <= j => file[i].ifdef_stack_ptr <= file[j].ifdef_stack_ptr
    BY <1>1 DEF IInv, PtrsOK
  <2>5. file[n].ifdef_stack_ptr <= ifdefs
    BY <1>1 DEF IInv, PtrsOK, Current, Last
  <2>6. Unit = SubSeq(file, b, n)
    BY DEF Unit
  <2> HIDE DEF b, n
  <2>7. /\ Len(Unit) = n - b + 1
        /\ \A i \in 1 .. n - b + 1 : Unit[i] = file[b + i - 1]
    BY <2>1, <2>2, <2>3, <2>6, SubSeqProperties
  <2>8. ASSUME NEW i \in 1 .. Len(Unit)
        PROVE  Unit[i].ifdef_stack_ptr <= ifdefs
    <3>1. b + i - 1 \in b .. n /\ n \in b .. n /\ b + i - 1 <= n
      BY <2>1, <2>2, <2>7
    <3>2. file[b + i - 1].ifdef_stack_ptr <= file[n].ifdef_stack_ptr
      BY <2>4, <3>1
    <3>3. file[b + i - 1].ifdef_stack_ptr \in Nat /\ file[n].ifdef_stack_ptr \in Nat
      BY <2>3, <3>1
    <3>4. file[b + i - 1].ifdef_stack_ptr <= ifdefs
      BY <2>1, <2>5, <3>2, <3>3
    <3> QED
      BY <2>7, <3>4
  <2>9. ASSUME NEW i \in 2 .. Len(Unit)
        PROVE  Unit[i - 1].ifdef_stack_ptr <= Unit[i].ifdef_stack_ptr
    <3>1. /\ b + i - 1 \in b .. n /\ b + (i - 1) - 1 \in b .. n
          /\ b + (i - 1) - 1 <= b + i - 1
          /\ i \in 1 .. n - b + 1 /\ i - 1 \in 1 .. n - b + 1
      BY <2>1, <2>2, <2>7
    <3>2. Unit[i] = file[b + i - 1] /\ Unit[i - 1] = file[b + (i - 1) - 1]
      BY <2>7, <3>1
    <3> QED
      BY <2>4, <3>1, <3>2
  <2> QED
    BY <1>1, <2>8, <2>9 DEF IInv, SelectedOK
<1>2. IInv => GroupsSelected
  BY <1>1 DEF GroupsSelected
<1> QED
  BY <1>2, Invariance, PTL

\* What the token table has for a macro is its last definition that is still
\* stacked, across units and after any error.
THEOREM DefinitionsExact == Spec => []DefinesExact
<1>1. IInv => DefinesExact
  BY DEF IInv, DefinesOK
<1> QED
  BY <1>1, Invariance, PTL

\* The current file stays the one whose part of ifdef_stack is empty.
LEMMA StillBorrowed ==
    ASSUME IInv, Borrowed, KeepsFiles, skipping', ifdefs' = ifdefs, phase' = phase
    PROVE  Borrowed'
<1>1. Current'.ifdef_stack_ptr = Current.ifdef_stack_ptr
  BY KeepsFilesPtrs DEF Borrowed
<1> QED
  BY <1>1 DEF Borrowed

LEMMA BorrowedLine ==
    ASSUME IInv, Borrowed, NEW l \in NextLines, LineStep(l)
    PROVE  Borrowed'
<1>1. /\ phase = "run"
      /\ Advanced \in BufferedFile
      /\ Advanced.ifdef_stack_ptr = Current.ifdef_stack_ptr
  BY ReadLine
<1>2. skipping /\ ifdefs = Current.ifdef_stack_ptr
  BY DEF Borrowed
<1>3. ifdefs # 0 /\ Last(ifdef_stack) \in {1, 2}
  BY LenProperties DEF IInv, BorrowOK
<1>4. CASE SkipLine(l)
  <2>1. KeepsFiles
    BY <1>1, <1>4, SetCurrentKeepsFiles DEF SkipLine
  <2>2. skipping' = skipping /\ ifdefs' = ifdefs /\ phase' = phase
    BY <1>4 DEF SkipLine, ifdefs
  <2> QED
    BY <1>2, <2>1, <2>2, StillBorrowed
<1>5. CASE Else(l)
  <2> DEFINE f == IF ifdefs = Current.ifdef_stack_ptr + 1
                  THEN [Advanced EXCEPT !.ifndef_macro = None] ELSE Advanced
             c == 3 - Last(ifdef_stack)
  <2>1. /\ TestElse(c) /\ Last(ifdef_stack) < 2 /\ phase' = phase
    BY <1>5 DEF Else
  <2>2. c = 2 /\ c \in 0 .. 3
    BY <1>3, <2>1
  <2>3. f \in BufferedFile /\ f.ifdef_stack_ptr = Current.ifdef_stack_ptr
    BY <1>1 DEF BufferedFile
  <2>4. SetCurrent(f) /\ ifdef_stack' = Append(Front(ifdef_stack), c)
        /\ skipping' = (c % 2 = 0)
    BY <2>1 DEF TestElse, TestSkip
  <2> HIDE DEF f, c
  <2>5. KeepsFiles
    BY <1>1, <2>3, <2>4, SetCurrentKeepsFiles
  <2>6. ifdefs' = ifdefs
    BY <1>3, <2>2, <2>4, SetGroup
  <2>7. skipping'
    <3>1. c % 2 = 0
      BY <2>2
    <3> QED
      BY <2>4, <3>1, Zenon
  <2> QED
    BY <2>1, <2>5, <2>6, <2>7, StillBorrowed
<1>6. CASE Elif(l)
  <2>1. /\ skipping' = TRUE /\ SetCurrent(Advanced)
        /\ UNCHANGED <<ifdef_stack, phase>>
    BY <1>3, <1>6 DEF Elif
  <2>2. KeepsFiles
    BY <1>1, <2>1, SetCurrentKeepsFiles
  <2>3. ifdefs' = ifdefs
    BY <2>1 DEF ifdefs
  <2> QED
    BY <2>1, <2>2, <2>3, StillBorrowed
<1>7. CASE Endif(l)
  <2>1. ifdefs > Current.ifdef_stack_ptr
    BY <1>7 DEF Endif
  <2>2. ifdefs \in Nat
    BY LenProperties DEF IInv, TypeOK, ifdefs
  <2>3. FALSE
    BY <1>2, <2>1, <2>2
  <2> QED
    BY <2>3
<1>8. CASE \/ TextLine(l) \/ LineDirective(l) \/ Define(l) \/ Undef(l)
           \/ IncludeCached(l) \/ Include(l) \/ If(l)
  <2>1. Process(l) /\ l.op \notin {"else", "elif", "endif"}
    BY <1>8 DEF TextLine, LineDirective, Define, Undef, IncludeCached, Include, If
  <2> QED
    BY <1>2, <2>1 DEF Process
<1> QED
  BY <1>4, <1>5, <1>6, <1>7, <1>8 DEF LineStep

\* An #else or #elif of an included file that was taken for one of its
\* includer selects nothing: the region it starts lasts to the error.
THEOREM BorrowRefused == Spec => BorrowedIsRefused
<1>1. ASSUME IInv, [Next]_vars, Borrowed
      PROVE  Borrowed' \/ phase' = "idle"
  <2>1. CASE StartUnit \/ EndOfMain \/ EndOfInclude \/ Quit
    BY <1>1, <2>1 DEF StartUnit, EndOfMain, EndOfInclude, Quit, Borrowed
  <2>2. CASE Fail
    BY <2>2 DEF Fail, EndUnit
  <2>3. CASE \E l \in NextLines : LineStep(l)
    BY <1>1, <2>3, BorrowedLine
  <2>4. CASE UNCHANGED vars
    <3>1. UNCHANGED <<ifdef_stack, skipping, phase>> /\ UNCHANGED file
      BY <2>4 DEF vars, files
    <3>2. ifdefs' = ifdefs /\ Current' = Current
      BY <3>1 DEF ifdefs, Current, Last
    <3> QED
      BY <1>1, <3>1, <3>2 DEF Borrowed
  <2> QED
    BY <1>1, <2>1, <2>2, <2>3, <2>4 DEF Next
<1>2. IInv /\ [Next]_vars => [Borrowed => Borrowed' \/ phase' = "idle"]_vars
  BY <1>1
<1> QED
  BY <1>2, Invariance, PTL DEF Spec, BorrowedIsRefused

\* The files of the list that are not the current one.
LEMMA BelowCurrent ==
    ASSUME IInv, phase = "run", NEW f
    PROVE  LET t == Append(Front(file), f)
           IN  Len(t) = Len(file) /\ \A i \in 1 .. Len(file) - 1 : t[i] = file[i]
<1>1. file \in Seq(BufferedFile) /\ Len(file) > 0
  BY CurrentFile DEF IInv, TypeOK
<1>2. file \in Seq(BufferedFile \cup {f})
  <2>1. /\ Len(file) \in Nat
        /\ file \in [1 .. Len(file) -> BufferedFile]
    BY <1>1, LenProperties
  <2>2. file \in [1 .. Len(file) -> BufferedFile \cup {f}]
    BY <2>1
  <2> QED
    BY <2>1, <2>2, SeqDef
<1>3. f \in BufferedFile \cup {f}
  OBVIOUS
<1> QED
  BY <1>1, <1>2, <1>3, ReplaceLast

\* Each line changes the current file alone, and #include adds one above it.
LEMMA LineBelow ==
    ASSUME IInv, NEW l \in NextLines, LineStep(l)
    PROVE  Len(file') >= Len(file) /\ \A i \in 1 .. Len(file) - 1 : file'[i] = file[i]
<1> DEFINE Same(s) == /\ Len(s) >= Len(file)
                      /\ \A i \in 1 .. Len(file) - 1 : s[i] = file[i]
<1>1. /\ phase = "run" /\ Len(file) \in Nat /\ Len(file) > 0
      /\ file \in Seq(BufferedFile)
  BY ReadLine, CurrentFile DEF IInv, TypeOK
<1>2. ASSUME NEW f, SetCurrent(f)
      PROVE  Same(file')
  <2>1. /\ Len(Append(Front(file), f)) = Len(file)
        /\ \A i \in 1 .. Len(file) - 1 : Append(Front(file), f)[i] = file[i]
    BY <1>1, BelowCurrent
  <2> QED
    BY <1>1, <1>2, <2>1 DEF SetCurrent
<1>3. CASE Include(l)
  <2> DEFINE t == Append(Front(file), Advanced)
             new == Opened(l.arg, ifdefs)
  <2>1. file' = Append(t, new)
    BY <1>3 DEF Include
  <2>2. l.arg \in Headers /\ Advanced \in BufferedFile
    BY <1>3, ReadLine, PreprocAssumption DEF Include
  <2>3. new \in BufferedFile
    BY <2>2, LenProperties DEF Opened, BufferedFile, Names, IInv, TypeOK, ifdefs
  <2>4. t \in Seq(BufferedFile) /\ Len(t) = Len(file)
        /\ \A i \in 1 .. Len(file) - 1 : t[i] = file[i]
    BY <1>1, <2>2, ReplaceLast
  <2> HIDE DEF t, new
  <2>5. Len(file') = Len(file) + 1 /\ \A i \in 1 .. Len(file) : file'[i] = t[i]
    BY <2>1, <2>3, <2>4, OneMore
  <2>6. \A i \in 1 .. Len(file) - 1 : i \in 1 .. Len(file)
    BY <1>1
  <2> QED
    BY <1>1, <2>4, <2>5, <2>6
<1>4. CASE \/ TextLine(l) \/ LineDirective(l) \/ Define(l) \/ Undef(l)
           \/ IncludeCached(l) \/ If(l) \/ Else(l) \/ Elif(l) \/ Endif(l) \/ SkipLine(l)
  <2>1. \E f : SetCurrent(f)
    <3>1. CASE TextLine(l) \/ Define(l) \/ Undef(l) \/ IncludeCached(l) \/ SkipLine(l)
      BY <3>1 DEF TextLine, Define, Undef, IncludeCached, SkipLine
    <3>2. CASE LineDirective(l)
      BY <3>2, Zenon DEF LineDirective
    <3>3. CASE If(l)
      BY <3>3, Zenon DEF If
    <3>4. CASE Else(l)
      BY <3>4, Zenon DEF Else, TestElse
    <3>5. CASE Elif(l)
      BY <3>5, Zenon DEF Elif, TestElse
    <3>6. CASE Endif(l)
      BY <3>6, Zenon DEF Endif
    <3> QED
      BY <1>4, <3>1, <3>2, <3>3, <3>4, <3>5, <3>6
  <2>2. PICK f : SetCurrent(f)
    BY <2>1
  <2> QED
    BY <1>2, <2>2
<1> QED
  BY <1>3, <1>4 DEF LineStep

\* What an error left on the list is below every file of the units after it,
\* which neither read, nor change, nor close it.
THEOREM StaleFilesUntouched == Spec => StaleUntouched
<1> DEFINE Untouched ==
        /\ phase = "idle" /\ phase' = "run" => Stale' = Len(file)
        /\ phase = "run" => \A i \in 1 .. Stale : Len(file') >= i /\ file'[i] = file[i]
<1>1. ASSUME IInv, StartUnit
      PROVE  Untouched
  <2>1. /\ phase = "idle" /\ include_depth' = 0
        /\ file' = Append(file, Opened(Main, 0))
    BY <1>1 DEF StartUnit
  <2>2. file \in Seq(BufferedFile) /\ Len(file) \in Nat
    BY <1>1, LenProperties DEF IInv, TypeOK
  <2>3. Opened(Main, 0) \in BufferedFile
    BY DEF Opened, BufferedFile, Names
  <2>4. Len(file') = Len(file) + 1
    BY <2>1, <2>2, <2>3, OneMore
  <2> QED
    BY <2>1, <2>2, <2>4 DEF Stale
<1>2. ASSUME IInv, phase = "run", [Next]_vars
      PROVE  \A i \in 1 .. Stale : Len(file') >= i /\ file'[i] = file[i]
  <2>1. /\ file \in Seq(BufferedFile) /\ Len(file) \in Nat
        /\ include_depth \in Nat /\ include_depth < Len(file)
    BY <1>2, LenProperties, PreprocAssumption DEF IInv, TypeOK, RunOK
  <2>2. \A i \in 1 .. Stale : i \in 1 .. Len(file) - 1 /\ i <= Len(file) - 1
    BY <2>1 DEF Stale
  <2>3. CASE EndOfMain \/ EndOfInclude \/ Fail
    <3>1. file' = Front(file)
      BY <2>3 DEF EndOfMain, EndOfInclude, Fail, EndUnit
    <3>2. /\ Len(file') = Len(file) - 1
          /\ \A i \in 1 .. Len(file) - 1 : file'[i] = file[i]
      BY <2>1, <3>1, FrontOf
    <3> QED
      BY <2>1, <2>2, <3>2
  <2>4. CASE \E l \in NextLines : LineStep(l)
    <3>1. Len(file') >= Len(file) /\ \A i \in 1 .. Len(file) - 1 : file'[i] = file[i]
      BY <1>2, <2>4, LineBelow
    <3>2. Len(file') \in Nat
      BY <1>2, NextOK, LenProperties DEF IInv, TypeOK
    <3> QED
      BY <2>1, <2>2, <3>1, <3>2
  <2>5. CASE UNCHANGED vars
    BY <2>1, <2>2, <2>5 DEF vars, files
  <2>6. ~ StartUnit /\ ~ Quit
    BY <1>2 DEF StartUnit, Quit
  <2> QED
    BY <1>2, <2>3, <2>4, <2>5, <2>6 DEF Next
<1>3. ASSUME IInv, [Next]_vars, phase = "idle", phase' = "run"
      PROVE  StartUnit
  <2>1. ~ \E l \in NextLines : LineStep(l)
    BY <1>3 DEF NextLines
  <2>2. ~ EndOfMain /\ ~ EndOfInclude /\ ~ Fail
    BY <1>3 DEF EndOfMain, EndOfInclude, Fail
  <2>3. UNCHANGED vars => phase' = phase
    BY DEF vars
  <2> QED
    BY <1>3, <2>1, <2>2, <2>3 DEF Next, Quit
<1>4. IInv /\ [Next]_vars => Untouched
  BY <1>1, <1>2, <1>3
<1>5. IInv /\ [Next]_vars => [Untouched]_vars
  BY <1>4
<1> QED
  BY <1>5, Invariance, PTL DEF Spec, StaleUntouched

-----------------------------------------------------------------------------
(***************************************************************************)
(* What Preproc promises a program: a header that the cache lets #include  *)
(* leave unread has no effect, and the lines that take effect are those    *)
(* that CondInclusion selects.                                             *)
(*                                                                         *)
(* The invariant above knows nothing of the flags that make a file count   *)
(* as guarded.  CacheInv adds what they say of the lines that were read of *)
(* the current file.  Whether lines have an effect is defined by a         *)
(* function of the number of lines; its values are followed step by step,  *)
(* one line at a time, from when the file is opened until it ends.         *)
(***************************************************************************)

(***************************************************************************)
(* The groups that a file opens, line by line.                             *)
(***************************************************************************)

\* CondInclusion has these operators of its own.
LEMMA FrontAndLast == \A s : Abs!Front(s) = Front(s) /\ Abs!Last(s) = Last(s)
  BY DEF Abs!Front, Abs!Last, Front, Last

\* G[i]: the groups after i of the first n lines of c, with the macros D.
IsWalk(G, c, D, n) ==
    G = [i \in 0 .. n |->
            IF i = 0 THEN <<>> ELSE Abs!After(G[i - 1], c[i], D, TRUE)]

\* k groups, the outermost of which has no branch selected.
Unselected(g, k) ==
    /\ g \in Seq(Abs!Group) /\ Len(g) = k
    /\ k > 0 => g[1].st = "seek"

\* The first n lines of c have no effect with the macros D, and leave k
\* groups open around the next.
NoEffect(c, D, n, k) ==
    /\ \E G : IsWalk(G, c, D, n)
    /\ \A G : IsWalk(G, c, D, n) =>
          /\ Unselected(G[n], k)
          /\ \A i \in 1 .. n : Abs!Conditional(c[i]) \/ ~ Abs!AllOn(G[i - 1])

\* No line was read.
LEMMA NoEffectYet ==
    ASSUME NEW c, NEW D
    PROVE  NoEffect(c, D, 0, 0)
<1> DEFINE G == [i \in 0 .. 0 |-> <<>>]
<1>1. IsWalk(G, c, D, 0)
  BY DEF IsWalk
<1>2. ASSUME NEW H, IsWalk(H, c, D, 0)
      PROVE  Unselected(H[0], 0)
  BY <1>2 DEF IsWalk, Unselected
<1>3. 1 .. 0 = {}
  OBVIOUS
<1> QED
  BY <1>1, <1>2, <1>3 DEF NoEffect

\* A group that is not selected has no active lines in it.
LEMMA UnselectedSkips ==
    ASSUME NEW k \in Nat, k > 0, NEW g, Unselected(g, k)
    PROVE  ~ Abs!AllOn(g)
<1>1. 1 \in 1 .. Len(g) /\ g[1].st = "seek"
  BY DEF Unselected
<1> QED
  BY <1>1 DEF Abs!AllOn

\* What a line does to the number of open groups of which the outermost is
\* not selected; the first opens it.
GroupsAfter(l, D, k, k2) ==
    \/ k = 0 /\ k2 = 1 /\ Abs!IsOpen(l) /\ ~ Abs!Holds(l, D)
    \/ k > 0 /\ k2 = k + 1 /\ Abs!IsOpen(l)
    \/ k > 0 /\ k2 = k - 1 /\ Abs!IsEnd(l)
    \/ k > 1 /\ k2 = k /\ Abs!IsNext(l)
    \/ k > 0 /\ k2 = k /\ ~ Abs!Conditional(l)

LEMMA AfterUnselected ==
    ASSUME NEW k \in Nat, NEW k2, NEW g, Unselected(g, k), NEW l, NEW D,
           GroupsAfter(l, D, k, k2)
    PROVE  /\ Unselected(Abs!After(g, l, D, TRUE), k2)
           /\ Abs!Conditional(l) \/ ~ Abs!AllOn(g)
<1>1. g \in Seq(Abs!Group) /\ Len(g) = k /\ (k > 0 => g[1].st = "seek")
  BY DEF Unselected
<1>2. CASE k = 0 /\ k2 = 1 /\ Abs!IsOpen(l) /\ ~ Abs!Holds(l, D)
  <2> DEFINE e == [st |-> "seek", els |-> FALSE]
  <2>1. Abs!AllOn(g)
    BY <1>1, <1>2 DEF Abs!AllOn
  <2>2. Abs!After(g, l, D, TRUE) = Append(g, e)
    BY <1>2, <2>1 DEF Abs!After, Abs!Opened, Abs!IsOpen, Abs!IsNext, Abs!IsEnd
  <2>3. e \in Abs!Group
    BY DEF Abs!Group
  <2>4. /\ Append(g, e) \in Seq(Abs!Group) /\ Len(Append(g, e)) = 1
        /\ Append(g, e)[1].st = "seek"
    BY <1>1, <1>2, <2>3
  <2> QED
    BY <1>2, <2>2, <2>4 DEF Unselected, Abs!Conditional
<1>3. CASE k > 0 /\ k2 = k + 1 /\ Abs!IsOpen(l)
  <2> DEFINE e == [st |-> "done", els |-> FALSE]
  <2>1. ~ Abs!AllOn(g)
    BY <1>3, UnselectedSkips
  <2>2. Abs!After(g, l, D, TRUE) = Append(g, e)
    BY <1>3, <2>1 DEF Abs!After, Abs!Opened, Abs!IsOpen, Abs!IsNext, Abs!IsEnd
  <2>3. e \in Abs!Group
    BY DEF Abs!Group
  <2>4. /\ Append(g, e) \in Seq(Abs!Group) /\ Len(Append(g, e)) = k2
        /\ Append(g, e)[1] = g[1]
    BY <1>1, <1>3, <2>3
  <2> QED
    BY <1>1, <1>3, <2>1, <2>2, <2>4 DEF Unselected, Abs!Conditional
<1>4. CASE k > 0 /\ k2 = k - 1 /\ Abs!IsEnd(l)
  <2>1. g # <<>>
    BY <1>1, <1>4
  <2>2. Abs!After(g, l, D, TRUE) = Front(g)
    <3>1. ~ Abs!IsOpen(l) /\ ~ Abs!IsNext(l)
      BY <1>4 DEF Abs!IsOpen, Abs!IsNext, Abs!IsEnd
    <3> QED
      BY <1>4, <2>1, <3>1, FrontAndLast DEF Abs!After
  <2>3. /\ Front(g) \in Seq(Abs!Group) /\ Len(Front(g)) = k2
        /\ \A i \in 1 .. Len(g) - 1 : Front(g)[i] = g[i]
    BY <1>1, <1>4, FrontOf
  <2>4. k2 > 0 => 1 \in 1 .. Len(g) - 1
    BY <1>1, <1>4
  <2> QED
    BY <1>1, <1>4, <2>2, <2>3, <2>4 DEF Unselected, Abs!Conditional
<1>5. CASE k > 1 /\ k2 = k /\ Abs!IsNext(l)
  <2>1. ~ Abs!AllOn(Front(g))
    <3>1. /\ Front(g) \in Seq(Abs!Group) /\ Len(Front(g)) = k - 1
          /\ \A i \in 1 .. Len(g) - 1 : Front(g)[i] = g[i]
      BY <1>1, <1>5, FrontOf
    <3>2. 1 \in 1 .. Len(g) - 1 /\ 1 \in 1 .. Len(Front(g)) /\ Front(g)[1].st = "seek"
      BY <1>1, <1>5, <3>1
    <3> QED
      BY <3>2 DEF Abs!AllOn
  <2>2. Abs!After(g, l, D, TRUE) = g
    <3>1. ~ Abs!IsOpen(l) /\ ~ Abs!IsEnd(l)
      BY <1>5 DEF Abs!IsOpen, Abs!IsNext, Abs!IsEnd
    <3>2. Abs!Continued(g, l, D, TRUE) = g
      BY <2>1, FrontAndLast DEF Abs!Continued
    <3> QED
      BY <1>5, <3>1, <3>2, Zenon DEF Abs!After
  <2> QED
    BY <1>5, <2>2 DEF Abs!Conditional
<1>6. CASE k > 0 /\ k2 = k /\ ~ Abs!Conditional(l)
  <2>1. Abs!After(g, l, D, TRUE) = g
    BY <1>6 DEF Abs!After, Abs!Conditional
  <2> QED
    BY <1>6, <2>1, UnselectedSkips
<1> QED
  BY <1>2, <1>3, <1>4, <1>5, <1>6 DEF GroupsAfter

\* One more line is read.
LEMMA NoEffectLine ==
    ASSUME NEW c, NEW D, NEW n \in Nat, NEW k \in Nat, NEW k2,
           NoEffect(c, D, n, k), GroupsAfter(c[n + 1], D, k, k2)
    PROVE  NoEffect(c, D, n + 1, k2)
<1> DEFINE Step(G, i) == Abs!After(G[i - 1], c[i], D, TRUE)
<1>1. PICK G : IsWalk(G, c, D, n)
  BY DEF NoEffect
<1>2. \E H : IsWalk(H, c, D, n + 1)
  <2> DEFINE H == [i \in 0 .. n + 1 |-> IF i = n + 1 THEN Abs!After(G[n], c[n + 1], D, TRUE)
                                        ELSE G[i]]
  <2>1. ASSUME NEW i \in 0 .. n + 1
        PROVE  H[i] = IF i = 0 THEN <<>> ELSE Abs!After(H[i - 1], c[i], D, TRUE)
    <3>1. CASE i = n + 1
      <4>1. n \in 0 .. n + 1 /\ n # n + 1 /\ i - 1 = n /\ i # 0
        BY <3>1
      <4>2. H[n] = G[n] /\ H[i] = Abs!After(G[n], c[n + 1], D, TRUE)
        BY <3>1, <4>1
      <4> QED
        BY <3>1, <4>1, <4>2
    <3>2. CASE i # n + 1 /\ i = 0
      BY <1>1, <3>2 DEF IsWalk
    <3>3. CASE i # n + 1 /\ i # 0
      <4>1. i \in 0 .. n /\ i - 1 \in 0 .. n + 1 /\ i - 1 # n + 1
        BY <3>3
      <4>2. H[i] = G[i] /\ H[i - 1] = G[i - 1]
        BY <3>3, <4>1
      <4>3. G[i] = Abs!After(G[i - 1], c[i], D, TRUE)
        BY <1>1, <3>3, <4>1 DEF IsWalk
      <4> QED
        BY <3>3, <4>2, <4>3
    <3> QED
      BY <3>1, <3>2, <3>3
  <2>2. H = [i \in 0 .. n + 1 |->
                IF i = 0 THEN <<>> ELSE Abs!After(H[i - 1], c[i], D, TRUE)]
    BY <2>1
  <2> QED
    BY <2>2 DEF IsWalk
<1>3. ASSUME NEW H, IsWalk(H, c, D, n + 1)
      PROVE  /\ Unselected(H[n + 1], k2)
             /\ \A i \in 1 .. n + 1 : Abs!Conditional(c[i]) \/ ~ Abs!AllOn(H[i - 1])
  <2> DEFINE R == [i \in 0 .. n |-> H[i]]
  <2>1. \A i \in 0 .. n + 1 :
           H[i] = IF i = 0 THEN <<>> ELSE Abs!After(H[i - 1], c[i], D, TRUE)
    BY <1>3 DEF IsWalk
  <2>2. ASSUME NEW i \in 0 .. n
        PROVE  R[i] = IF i = 0 THEN <<>> ELSE Abs!After(R[i - 1], c[i], D, TRUE)
    <3>1. i \in 0 .. n + 1 /\ (i # 0 => i - 1 \in 0 .. n)
      OBVIOUS
    <3> QED
      BY <2>1, <3>1
  <2>3. R = [i \in 0 .. n |-> IF i = 0 THEN <<>> ELSE Abs!After(R[i - 1], c[i], D, TRUE)]
    BY <2>2
  <2>4. IsWalk(R, c, D, n)
    BY <2>3 DEF IsWalk
  <2>5. n \in 0 .. n /\ R[n] = H[n]
    OBVIOUS
  <2>6. /\ Unselected(R[n], k)
        /\ \A i \in 1 .. n : Abs!Conditional(c[i]) \/ ~ Abs!AllOn(R[i - 1])
    BY <2>4 DEF NoEffect
  <2>7. /\ Unselected(Abs!After(H[n], c[n + 1], D, TRUE), k2)
        /\ Abs!Conditional(c[n + 1]) \/ ~ Abs!AllOn(H[n])
    BY <2>5, <2>6, AfterUnselected
  <2>8. H[n + 1] = Abs!After(H[n], c[n + 1], D, TRUE)
    <3>1. n + 1 \in 0 .. n + 1 /\ n + 1 # 0 /\ (n + 1) - 1 = n
      OBVIOUS
    <3> QED
      BY <2>1, <3>1
  <2>9. ASSUME NEW i \in 1 .. n + 1
        PROVE  Abs!Conditional(c[i]) \/ ~ Abs!AllOn(H[i - 1])
    <3>1. CASE i = n + 1
      <4>1. i - 1 = n
        BY <3>1
      <4> QED
        BY <2>7, <3>1, <4>1
    <3>2. CASE i # n + 1
      <4>1. i \in 1 .. n /\ i - 1 \in 0 .. n
        BY <3>2
      <4>2. R[i - 1] = H[i - 1]
        BY <4>1
      <4> QED
        BY <2>6, <4>1, <4>2
    <3> QED
      BY <3>1, <3>2
  <2> QED
    BY <2>7, <2>8, <2>9
<1> QED
  BY <1>2, <1>3 DEF NoEffect

\* All lines were read.
LEMMA NoEffectInert ==
    ASSUME NEW c, NEW D, NEW k, NoEffect(c, D, Len(c), k)
    PROVE  Abs!Inert(c, D)
<1> DEFINE G[i \in 0 .. Len(c)] ==
               IF i = 0 THEN <<>> ELSE Abs!After(G[i - 1], c[i], D, TRUE)
<1>1. \E H : IsWalk(H, c, D, Len(c))
  BY DEF NoEffect
<1>2. \E H : H = [i \in 0 .. Len(c) |->
                     IF i = 0 THEN <<>> ELSE Abs!After(H[i - 1], c[i], D, TRUE)]
  BY <1>1 DEF IsWalk
<1>3. G = [i \in 0 .. Len(c) |->
              IF i = 0 THEN <<>> ELSE Abs!After(G[i - 1], c[i], D, TRUE)]
  BY <1>2
<1>4. IsWalk(G, c, D, Len(c))
  BY <1>3 DEF IsWalk
<1>5. \A i \in 1 .. Len(c) : Abs!Conditional(c[i]) \/ ~ Abs!AllOn(G[i - 1])
  BY <1>4 DEF NoEffect
<1> QED
  BY <1>5 DEF Abs!Inert

(***************************************************************************)
(* The invariant of the cache.                                             *)
(***************************************************************************)

\* The place of the main file in the list.
Base == Len(file) - include_depth

\* No line of h keeps it from being taken for guarded when it is not.
Plain(h) == \A i \in DOMAIN content[h] : content[h][i].op \notin {"elif", "include"}

\* Some #line gives a file the name h.
Renamed(h) ==
    \/ \E g \in Headers : \E i \in DOMAIN content[g] :
          content[g][i].op = "line" /\ content[g][i].arg = h
    \/ \E l \in MainLines(content) : l.op = "line" /\ l.arg = h

\* The main file is the first of the unit, each includer has an #include, and
\* a file that has another name was given it by #line.
FilesRead ==
    phase = "run" =>
        \A i \in Base .. Len(file) :
            /\ file[i].name = Main <=> i = Base
            /\ file[i].name \in Headers => file[i].pos <= Len(content[file[i].name])
            /\ file[i].name \in Headers /\ i < Len(file) => ~ Plain(file[i].name)
            /\ file[i].filename # file[i].name => Renamed(file[i].filename)

\* TOK_FLAG_BOF is set before the first line, or by an #include.
FlagsOK ==
    /\ ~ skipping => a = 0
    /\ phase = "run" =>
          /\ bof \/ endif => ~ skipping
          /\ bof /\ Current.name \in Headers =>
                \/ Current.pos = 0 /\ ifdefs = Current.ifdef_stack_ptr
                \/ ~ Plain(Current.name)

\* While ifndef_macro is set, the lines read so far have no effect where it is
\* defined; after an #endif with TOK_FLAG_ENDIF, none has where the saved
\* macro is.
GuardOK ==
    phase = "run" /\ Current.name \in Headers /\ Plain(Current.name) =>
        /\ Current.ifndef_macro # None =>
              /\ ifdefs > Current.ifdef_stack_ptr
              /\ \A D \in SUBSET Macros :
                    Current.ifndef_macro \in D =>
                        NoEffect(content[Current.name], D, Current.pos,
                                 ifdefs - Current.ifdef_stack_ptr + a)
        /\ endif =>
              \A D \in SUBSET Macros :
                  Current.ifndef_macro_saved \in D =>
                      NoEffect(content[Current.name], D, Current.pos, 0)

CacheInv ==
    /\ IInv
    /\ FilesRead
    /\ FlagsOK
    /\ GuardOK
    /\ CacheExact

\* What the invariants say of the current file and the stacks, in numbers.
LEMMA Places ==
    ASSUME IInv, phase = "run"
    PROVE  /\ file \in Seq(BufferedFile) /\ Len(file) \in Nat /\ Len(file) > 0
           /\ include_depth \in Nat /\ include_depth < Len(file)
           /\ Base \in 1 .. Len(file)
           /\ Current \in BufferedFile /\ Current = file[Len(file)]
           /\ ifdefs \in Nat /\ Current.ifdef_stack_ptr \in Nat
           /\ Current.ifdef_stack_ptr <= ifdefs
           /\ a \in Nat /\ Current.pos \in Nat
<1>1. /\ file \in Seq(BufferedFile) /\ Len(file) \in Nat /\ Len(file) > 0
      /\ Current \in BufferedFile /\ Current = file[Len(file)]
  BY CurrentFile DEF IInv, TypeOK, Current, Last
<1>2. include_depth \in Nat /\ include_depth < Len(file)
  BY PreprocAssumption DEF IInv, TypeOK, RunOK
<1>3. Base \in 1 .. Len(file)
  BY <1>1, <1>2 DEF Base
<1>4. ifdefs \in Nat
  BY LenProperties DEF IInv, TypeOK, ifdefs
<1>5. Current.ifdef_stack_ptr \in Nat /\ Current.pos \in Nat
  BY <1>1 DEF BufferedFile
<1>6. Current.ifdef_stack_ptr <= ifdefs /\ a \in Nat
  BY DEF IInv, PtrsOK, TypeOK
<1> QED
  BY <1>1, <1>2, <1>3, <1>4, <1>5, <1>6

\* A line of a header, and the current file after it.
LEMMA HeaderLine ==
    ASSUME CacheInv, NEW l \in NextLines, Current.name \in Headers
    PROVE  /\ content[Current.name] \in Seq(Lines)
           /\ Current.pos + 1 \in DOMAIN content[Current.name]
           /\ Current.pos + 1 <= Len(content[Current.name])
           /\ l = content[Current.name][Current.pos + 1]
           /\ Advanced.pos = Current.pos + 1
<1>1. phase = "run"
  BY ReadLine DEF CacheInv
<1>2. Current \in BufferedFile /\ Current.pos \in Nat
  BY <1>1, Places DEF CacheInv
<1>3. content[Current.name] \in Seq(Lines)
  BY DEF CacheInv, IInv, TypeOK
<1>4. Current.name # Main
  BY PreprocAssumption
<1>5. /\ Current.pos + 1 \in DOMAIN content[Current.name]
      /\ l = content[Current.name][Current.pos + 1]
  BY <1>1, <1>4 DEF NextLines
<1>6. Current.pos + 1 <= Len(content[Current.name])
  BY <1>3, <1>5
<1>7. Advanced.pos = Current.pos + 1
  BY <1>2, <1>4 DEF Advanced, BufferedFile
<1> QED
  BY <1>3, <1>5, <1>6, <1>7

\* What reading a line leaves of the current file.
LEMMA AdvancedFields ==
    ASSUME IInv, phase = "run"
    PROVE  /\ Advanced \in BufferedFile
           /\ Advanced.name = Current.name
           /\ Advanced.filename = Current.filename
           /\ Advanced.pos \in Nat
           /\ Advanced.ifdef_stack_ptr = Current.ifdef_stack_ptr
           /\ Advanced.ifndef_macro = Current.ifndef_macro
           /\ Advanced.ifndef_macro_saved = Current.ifndef_macro_saved
<1>1. Current \in BufferedFile
  BY Places
<1> QED
  BY <1>1 DEF Advanced, BufferedFile

\* The cache is not changed.
LEMMA CacheKept ==
    ASSUME CacheExact, UNCHANGED <<content, cached>>
    PROVE  CacheExact'
  BY DEF CacheExact, Misleading, Guarded

\* A line replaces the current file by f.
LEMMA SameFile ==
    ASSUME CacheInv, NEW l \in NextLines, NEW f \in BufferedFile, SetCurrent(f),
           f.name = Current.name, f.pos = Advanced.pos,
           f.filename = Current.filename \/ (l.op = "line" /\ f.filename = l.arg),
           UNCHANGED <<content, include_depth, phase>>
    PROVE  FilesRead' /\ Current' = f /\ Len(file') = Len(file)
<1> DEFINE n == Len(file)
<1>1. phase = "run" /\ phase' = "run"
  BY ReadLine DEF CacheInv
<1>2. /\ file \in Seq(BufferedFile) /\ n \in Nat /\ n > 0
      /\ Base \in 1 .. n /\ Current = file[n] /\ Current \in BufferedFile
  BY <1>1, Places DEF CacheInv
<1>3. /\ file' \in Seq(BufferedFile) /\ Len(file') = n /\ file'[n] = f
      /\ \A i \in 1 .. n - 1 : file'[i] = file[i]
  <2>1. /\ Append(Front(file), f) \in Seq(BufferedFile)
        /\ Len(Append(Front(file), f)) = Len(file)
        /\ Append(Front(file), f)[Len(file)] = f
        /\ \A i \in 1 .. Len(file) - 1 : Append(Front(file), f)[i] = file[i]
    BY <1>2, ReplaceLast
  <2> QED
    BY <2>1 DEF SetCurrent
<1>4. Base' = Base /\ Current' = f
  BY <1>3 DEF Base, Current, Last
<1> HIDE DEF n
<1>5. /\ Current.name = Main <=> n = Base
      /\ Current.filename # Current.name => Renamed(Current.filename)
  <2>1. n \in Base .. n
    BY <1>2
  <2> QED
    BY <1>1, <1>2, <2>1 DEF CacheInv, FilesRead, n
<1>6. ASSUME l.op = "line"
      PROVE  Renamed(l.arg)
  <2>1. CASE Current.name = Main
    BY <1>1, <1>6, <2>1 DEF NextLines, Renamed
  <2>2. CASE Current.name # Main
    <3>1. Current.name \in Headers
      BY <1>2, <2>2 DEF BufferedFile, Names
    <3> QED
      BY <1>6, <3>1, HeaderLine DEF Renamed
  <2> QED
    BY <2>1, <2>2
<1>7. f.name \in Headers => f.pos <= Len(content[f.name])
  BY HeaderLine
<1>8. f.filename # f.name => Renamed(f.filename)
  BY <1>5, <1>6
<1>9. \A h : Plain(h)' <=> Plain(h)
  BY DEF Plain
<1>10. \A h : Renamed(h)' <=> Renamed(h)
  BY DEF Renamed
<1>11. ASSUME NEW i \in Base .. n
       PROVE  /\ file'[i].name = Main <=> i = Base
              /\ file'[i].name \in Headers => file'[i].pos <= Len(content[file'[i].name])
              /\ file'[i].name \in Headers /\ i < n => ~ Plain(file'[i].name)
              /\ file'[i].filename # file'[i].name => Renamed(file'[i].filename)
  <2>1. CASE i = n
    <3>1. file'[i] = f /\ ~ i < n
      BY <1>2, <1>3, <2>1
    <3> QED
      BY <1>5, <1>7, <1>8, <2>1, <3>1
  <2>2. CASE i # n
    <3>1. file'[i] = file[i]
      BY <1>2, <1>3, <2>2
    <3> QED
      BY <1>1, <3>1 DEF CacheInv, FilesRead, n
  <2> QED
    BY <2>1, <2>2
<1>12. FilesRead'
  BY <1>3, <1>4, <1>9, <1>10, <1>11 DEF FilesRead
<1> QED
  BY <1>3, <1>4, <1>12 DEF n

\* A line by which the current file does not begin to count as guarded.
LEMMA GuardLine ==
    ASSUME CacheInv, NEW l \in NextLines, NEW f \in BufferedFile, SetCurrent(f),
           f.name = Current.name, f.pos = Advanced.pos,
           f.filename = Current.filename \/ (l.op = "line" /\ f.filename = l.arg),
           f.ifdef_stack_ptr = Current.ifdef_stack_ptr,
           UNCHANGED <<content, include_depth, phase>>,
           ~ endif',
           /\ Current.name \in Headers /\ Plain(Current.name) /\ f.ifndef_macro # None
           => /\ f.ifndef_macro = Current.ifndef_macro
              /\ ifdefs' > Current.ifdef_stack_ptr
              /\ \A D \in SUBSET Macros :
                    GroupsAfter(l, D, ifdefs - Current.ifdef_stack_ptr + a,
                                ifdefs' - Current.ifdef_stack_ptr + a')
    PROVE  GuardOK'
<1>1. phase = "run"
  BY ReadLine DEF CacheInv
<1>2. Current' = f
  BY SameFile
<1>3. \A h : Plain(h)' <=> Plain(h)
  BY DEF Plain
<1>4. /\ ifdefs \in Nat /\ Current.ifdef_stack_ptr \in Nat
      /\ Current.ifdef_stack_ptr <= ifdefs
      /\ a \in Nat /\ Current.pos \in Nat
  BY <1>1, Places DEF CacheInv
<1>5. ASSUME Current.name \in Headers, Plain(Current.name), f.ifndef_macro # None,
             NEW D \in SUBSET Macros, f.ifndef_macro \in D
      PROVE  NoEffect(content[Current.name], D, f.pos,
                      ifdefs' - Current.ifdef_stack_ptr + a')
  <2> DEFINE k == ifdefs - Current.ifdef_stack_ptr + a
             k2 == ifdefs' - Current.ifdef_stack_ptr + a'
             c == content[Current.name]
  <2>1. NoEffect(c, D, Current.pos, k)
    BY <1>1, <1>5 DEF CacheInv, GuardOK
  <2>2. l = c[Current.pos + 1] /\ f.pos = Current.pos + 1
    BY <1>5, HeaderLine
  <2>3. GroupsAfter(l, D, k, k2)
    BY <1>5
  <2>4. k \in Nat
    BY <1>4
  <2> HIDE DEF k, k2, c
  <2>5. NoEffect(c, D, Current.pos + 1, k2)
    BY <1>4, <2>1, <2>2, <2>3, <2>4, NoEffectLine
  <2> QED
    BY <2>2, <2>5 DEF k2, c
<1> QED
  BY <1>2, <1>3, <1>5 DEF GuardOK

\* A line preserves the invariant when it does so for the flags and the guard.
LEMMA CacheLine ==
    ASSUME CacheInv, NEW l \in NextLines, NEW f \in BufferedFile, SetCurrent(f),
           f.name = Current.name, f.pos = Advanced.pos,
           f.filename = Current.filename \/ (l.op = "line" /\ f.filename = l.arg),
           UNCHANGED <<content, include_depth, cached, phase>>,
           IInv', FlagsOK', GuardOK'
    PROVE  CacheInv'
<1>1. FilesRead'
  BY SameFile
<1>2. CacheExact'
  BY CacheKept DEF CacheInv
<1> QED
  BY <1>1, <1>2 DEF CacheInv

\* The flags after every line but one of a skipped region.
LEMMA FlagsCleared ==
    ASSUME NoFlags, ~ skipping' => a' = 0
    PROVE  FlagsOK' /\ ~ endif'
  BY DEF NoFlags, FlagsOK

\* Lines that open, continue or end no group, where groups are selected.
LEMMA PlainLine ==
    ASSUME CacheInv, NEW l \in NextLines, Process(l),
           l.op \notin {"if", "ifndef", "elif", "else", "endif"},
           NEW f \in BufferedFile, SetCurrent(f),
           f.name = Current.name, f.pos = Advanced.pos,
           f.filename = Current.filename \/ (l.op = "line" /\ f.filename = l.arg),
           f.ifdef_stack_ptr = Current.ifdef_stack_ptr,
           f.ifndef_macro = Current.ifndef_macro,
           NoFlags, IInv',
           UNCHANGED <<content, include_depth, ifdef_stack, skipping, a, cached, phase>>
    PROVE  CacheInv'
<1>1. phase = "run"
  BY ReadLine DEF CacheInv
<1>2. FlagsOK' /\ ~ endif'
  BY FlagsCleared DEF CacheInv, FlagsOK
<1>3. /\ ifdefs \in Nat /\ Current.ifdef_stack_ptr \in Nat /\ a \in Nat
      /\ ifdefs' = ifdefs
  BY <1>1, Places DEF CacheInv, ifdefs
<1>4. ~ Abs!Conditional(l)
  BY DEF Abs!Conditional, Abs!IsOpen, Abs!IsNext, Abs!IsEnd
<1>5. ASSUME Current.name \in Headers, Plain(Current.name), f.ifndef_macro # None
      PROVE  /\ ifdefs' > Current.ifdef_stack_ptr
             /\ \A D \in SUBSET Macros :
                   GroupsAfter(l, D, ifdefs - Current.ifdef_stack_ptr + a,
                               ifdefs' - Current.ifdef_stack_ptr + a')
  <2>1. ifdefs > Current.ifdef_stack_ptr
    BY <1>1, <1>5 DEF CacheInv, GuardOK
  <2>2. ifdefs - Current.ifdef_stack_ptr + a > 0
    BY <1>3, <2>1
  <2> QED
    BY <1>3, <1>4, <2>1, <2>2 DEF GroupsAfter
<1>6. GuardOK'
  BY <1>2, <1>5, GuardLine
<1> QED
  BY <1>2, <1>6, CacheLine

\* Text, #define, #undef, #line, and #include of a file that is left unread.
LEMMA PlainLinesOK ==
    ASSUME CacheInv, NEW l \in NextLines, IInv',
           \/ TextLine(l) \/ LineDirective(l) \/ Define(l) \/ Undef(l) \/ IncludeCached(l)
    PROVE  CacheInv'
<1>1. phase = "run" /\ l \in Lines
  BY ReadLine DEF CacheInv
<1>2. /\ Advanced \in BufferedFile
      /\ Advanced.name = Current.name
      /\ Advanced.filename = Current.filename
      /\ Advanced.pos \in Nat
      /\ Advanced.ifdef_stack_ptr = Current.ifdef_stack_ptr
      /\ Advanced.ifndef_macro = Current.ifndef_macro
  BY <1>1, AdvancedFields DEF CacheInv
<1>3. CASE TextLine(l) \/ Define(l) \/ Undef(l) \/ IncludeCached(l)
  <2>1. /\ Process(l) /\ l.op \notin {"if", "ifndef", "elif", "else", "endif"}
        /\ SetCurrent(Advanced) /\ NoFlags
        /\ UNCHANGED <<content, include_depth, ifdef_stack, skipping, a, cached, phase>>
    BY <1>3 DEF TextLine, Define, Undef, IncludeCached
  <2> QED
    BY <1>2, <2>1, PlainLine
<1>4. CASE LineDirective(l)
  <2> DEFINE f == [Advanced EXCEPT !.filename = l.arg]
  <2>1. l.arg \in Headers
    BY <1>1, <1>4, PreprocAssumption DEF LineDirective
  <2>2. /\ f \in BufferedFile /\ f.name = Current.name /\ f.pos = Advanced.pos
        /\ f.filename = l.arg /\ f.ifdef_stack_ptr = Current.ifdef_stack_ptr
        /\ f.ifndef_macro = Current.ifndef_macro
    BY <1>2, <2>1 DEF BufferedFile, Names
  <2>3. /\ Process(l) /\ l.op = "line" /\ SetCurrent(f) /\ NoFlags
        /\ UNCHANGED <<content, include_depth, ifdef_stack, skipping, a, cached, phase>>
    BY <1>4 DEF LineDirective
  <2> HIDE DEF f
  <2> QED
    BY <2>2, <2>3, PlainLine
<1> QED
  BY <1>3, <1>4

\* A line of a skipped region: groups nested in it are counted.
LEMMA SkipLineCache ==
    ASSUME CacheInv, NEW l \in NextLines, IInv', SkipLine(l)
    PROVE  CacheInv'
<1>1. phase = "run"
  BY ReadLine DEF CacheInv
<1>2. /\ Advanced \in BufferedFile
      /\ Advanced.name = Current.name
      /\ Advanced.filename = Current.filename
      /\ Advanced.ifdef_stack_ptr = Current.ifdef_stack_ptr
      /\ Advanced.ifndef_macro = Current.ifndef_macro
  BY <1>1, AdvancedFields DEF CacheInv
<1>3. /\ skipping /\ ~ (a = 0 /\ l.op \in {"else", "elif", "endif"})
      /\ a' = CASE l.op \in {"if", "ifndef"} -> a + 1
                [] l.op = "endif"            -> a - 1
                [] OTHER                     -> a
      /\ SetCurrent(Advanced)
      /\ UNCHANGED <<content, include_depth, ifdef_stack, skipping, bof, endif,
                     cached, phase>>
  BY DEF SkipLine, flags
<1>4. /\ ifdefs \in Nat /\ Current.ifdef_stack_ptr \in Nat /\ a \in Nat
      /\ ifdefs' = ifdefs
  BY <1>1, <1>3, Places DEF CacheInv, ifdefs
<1>5. ~ bof /\ ~ endif
  BY <1>1, <1>3 DEF CacheInv, FlagsOK
<1>6. FlagsOK'
  BY <1>3, <1>5 DEF FlagsOK
<1>7. ASSUME Current.name \in Headers, Plain(Current.name), Advanced.ifndef_macro # None
      PROVE  /\ ifdefs' > Current.ifdef_stack_ptr
             /\ \A D \in SUBSET Macros :
                   GroupsAfter(l, D, ifdefs - Current.ifdef_stack_ptr + a,
                               ifdefs' - Current.ifdef_stack_ptr + a')
  <2> DEFINE d == ifdefs - Current.ifdef_stack_ptr
  <2>1. ifdefs > Current.ifdef_stack_ptr
    BY <1>1, <1>2, <1>7 DEF CacheInv, GuardOK
  <2>2. d \in Nat /\ d > 0
    BY <1>4, <2>1
  <2> HIDE DEF d
  <2>3. CASE Abs!IsOpen(l)
    <3>1. a' = a + 1
      BY <1>3, <2>3 DEF Abs!IsOpen
    <3>2. d + a > 0 /\ d + a' = d + a + 1
      BY <1>4, <2>2, <3>1
    <3> QED
      BY <1>4, <2>1, <2>3, <3>2 DEF GroupsAfter, d
  <2>4. CASE Abs!IsEnd(l)
    <3>1. a' = a - 1
      BY <1>3, <2>4 DEF Abs!IsEnd
    <3>2. d + a > 0 /\ d + a' = d + a - 1
      BY <1>4, <2>2, <3>1
    <3> QED
      BY <1>4, <2>1, <2>4, <3>2 DEF GroupsAfter, d
  <2>5. CASE Abs!IsNext(l)
    <3>1. a' = a /\ a # 0
      BY <1>3, <2>5 DEF Abs!IsNext
    <3>2. d + a > 1 /\ d + a' = d + a
      BY <1>4, <2>2, <3>1
    <3> QED
      BY <1>4, <2>1, <2>5, <3>2 DEF GroupsAfter, d
  <2>6. CASE ~ Abs!Conditional(l)
    <3>1. a' = a
      BY <1>3, <2>6 DEF Abs!Conditional, Abs!IsOpen, Abs!IsEnd
    <3>2. d + a > 0 /\ d + a' = d + a
      BY <1>4, <2>2, <3>1
    <3> QED
      BY <1>4, <2>1, <2>6, <3>2 DEF GroupsAfter, d
  <2> QED
    BY <2>3, <2>4, <2>5, <2>6 DEF Abs!Conditional
<1>8. GuardOK'
  BY <1>2, <1>3, <1>5, <1>7, GuardLine
<1> QED
  BY <1>2, <1>3, <1>6, <1>8, CacheLine

\* #ifndef as the first line makes the file count as guarded; any other group
\* is one more.
LEMMA IfCache ==
    ASSUME CacheInv, NEW l \in NextLines, IInv', If(l)
    PROVE  CacheInv'
<1> DEFINE c == IF Condition(l) THEN 1 ELSE 0
           f == IF bof /\ l.op = "ifndef"
                THEN [Advanced EXCEPT !.ifndef_macro = l.arg] ELSE Advanced
<1>1. phase = "run" /\ l \in Lines /\ l.arg \in Macros
  BY ReadLine, PreprocAssumption DEF CacheInv, If
<1>2. /\ Advanced \in BufferedFile
      /\ Advanced.name = Current.name
      /\ Advanced.filename = Current.filename
      /\ Advanced.ifdef_stack_ptr = Current.ifdef_stack_ptr
      /\ Advanced.ifndef_macro = Current.ifndef_macro
  BY <1>1, AdvancedFields DEF CacheInv
<1>3. /\ f \in BufferedFile /\ f.name = Current.name /\ f.pos = Advanced.pos
      /\ f.filename = Current.filename
      /\ f.ifdef_stack_ptr = Current.ifdef_stack_ptr
      /\ f.ifndef_macro = IF bof /\ l.op = "ifndef" THEN l.arg ELSE Current.ifndef_macro
  BY <1>1, <1>2 DEF BufferedFile
<1>4. /\ SetCurrent(f)
      /\ ifdef_stack' = Append(ifdef_stack, c)
      /\ TestSkip(c) /\ ~ skipping /\ l.op \in {"if", "ifndef"}
      /\ NoFlags
      /\ UNCHANGED <<content, include_depth, cached, phase>>
  BY DEF If, Process
<1> HIDE DEF c, f
<1>5. /\ ifdefs \in Nat /\ Current.ifdef_stack_ptr \in Nat /\ a = 0
      /\ Current.ifdef_stack_ptr <= ifdefs /\ Current.pos \in Nat
  BY <1>1, <1>4, Places DEF CacheInv, FlagsOK
<1>6. ifdefs' = ifdefs + 1 /\ a' = 0
  <2>1. ifdef_stack \in Seq(0 .. 3) /\ c \in 0 .. 3
    BY DEF CacheInv, IInv, TypeOK, c
  <2> QED
    BY <1>4, <2>1, OneMore DEF ifdefs, TestSkip
<1>7. FlagsOK' /\ ~ endif'
  BY <1>4, <1>6, FlagsCleared
<1>8. Abs!IsOpen(l)
  BY <1>4 DEF Abs!IsOpen
<1>9. CASE ~ (bof /\ l.op = "ifndef" /\ Current.name \in Headers /\ Plain(Current.name))
  <2>1. ASSUME Current.name \in Headers, Plain(Current.name), f.ifndef_macro # None
        PROVE  /\ f.ifndef_macro = Current.ifndef_macro
               /\ ifdefs' > Current.ifdef_stack_ptr
               /\ \A D \in SUBSET Macros :
                     GroupsAfter(l, D, ifdefs - Current.ifdef_stack_ptr + a,
                                 ifdefs' - Current.ifdef_stack_ptr + a')
    <3>1. f.ifndef_macro = Current.ifndef_macro
      BY <1>3, <1>9, <2>1
    <3>2. ifdefs > Current.ifdef_stack_ptr
      BY <1>1, <2>1, <3>1 DEF CacheInv, GuardOK
    <3>3. /\ ifdefs - Current.ifdef_stack_ptr + a > 0
          /\ ifdefs' - Current.ifdef_stack_ptr + a' = ifdefs - Current.ifdef_stack_ptr + a + 1
          /\ ifdefs' > Current.ifdef_stack_ptr
      BY <1>5, <1>6, <3>2
    <3> QED
      BY <1>8, <3>1, <3>3 DEF GroupsAfter
  <2>2. GuardOK'
    BY <1>3, <1>4, <1>7, <2>1, GuardLine
  <2> QED
    BY <1>3, <1>4, <1>7, <2>2, CacheLine
<1>10. CASE bof /\ l.op = "ifndef" /\ Current.name \in Headers /\ Plain(Current.name)
  <2>1. Current.pos = 0 /\ ifdefs = Current.ifdef_stack_ptr
    BY <1>1, <1>10 DEF CacheInv, FlagsOK
  <2>2. /\ l = content[Current.name][0 + 1] /\ f.pos = 0 + 1
    BY <1>3, <1>10, <2>1, HeaderLine
  <2>3. ASSUME NEW D \in SUBSET Macros, l.arg \in D
        PROVE  NoEffect(content[Current.name], D, f.pos, 1)
    <3>1. ~ Abs!Holds(l, D)
      BY <1>10, <2>3 DEF Abs!Holds
    <3>2. GroupsAfter(content[Current.name][0 + 1], D, 0, 1)
      BY <1>8, <2>2, <3>1 DEF GroupsAfter
    <3>3. NoEffect(content[Current.name], D, 0, 0)
      BY NoEffectYet
    <3>4. NoEffect(content[Current.name], D, 0 + 1, 1)
      BY <3>2, <3>3, NoEffectLine
    <3> QED
      BY <2>2, <3>4
  <2>4. ifdefs' > Current.ifdef_stack_ptr /\ ifdefs' - Current.ifdef_stack_ptr + a' = 1
    BY <1>5, <1>6, <2>1
  <2>5. Current' = f
    BY <1>3, <1>4, SameFile
  <2>6. f.ifndef_macro = l.arg
    BY <1>3, <1>10
  <2>7. GuardOK'
    BY <1>3, <1>4, <1>7, <2>3, <2>4, <2>5, <2>6 DEF GuardOK
  <2> QED
    BY <1>3, <1>4, <1>7, <2>7, CacheLine
<1> QED
  BY <1>9, <1>10

\* #else and #elif where they change the entry of the innermost group: of a
\* file that counts as guarded, it is nested in the guard.
LEMMA TestElseCache ==
    ASSUME CacheInv, NEW l \in NextLines, IInv', Process(l),
           l.op \in {"else", "elif"}, ifdefs # 0,
           NEW c \in 0 .. 3, TestElse(c), NoFlags,
           UNCHANGED <<content, include_depth, cached, phase>>
    PROVE  CacheInv'
<1> DEFINE f == IF ifdefs = Current.ifdef_stack_ptr + 1
                THEN [Advanced EXCEPT !.ifndef_macro = None] ELSE Advanced
<1>1. phase = "run"
  BY ReadLine DEF CacheInv
<1>2. /\ Advanced \in BufferedFile
      /\ Advanced.name = Current.name
      /\ Advanced.filename = Current.filename
      /\ Advanced.ifdef_stack_ptr = Current.ifdef_stack_ptr
      /\ Advanced.ifndef_macro = Current.ifndef_macro
  BY <1>1, AdvancedFields DEF CacheInv
<1>3. /\ f \in BufferedFile /\ f.name = Current.name /\ f.pos = Advanced.pos
      /\ f.filename = Current.filename
      /\ f.ifdef_stack_ptr = Current.ifdef_stack_ptr
      /\ f.ifndef_macro # None => /\ f.ifndef_macro = Current.ifndef_macro
                                  /\ ifdefs # Current.ifdef_stack_ptr + 1
  BY <1>2 DEF BufferedFile
<1>4. /\ SetCurrent(f) /\ a' = 0
      /\ ifdef_stack' = Append(Front(ifdef_stack), c)
  BY DEF TestElse, TestSkip
<1> HIDE DEF f
<1>5. ifdefs' = ifdefs
  BY <1>4, SetGroup DEF CacheInv
<1>6. /\ ifdefs \in Nat /\ Current.ifdef_stack_ptr \in Nat /\ a = 0
  BY <1>1, Places DEF CacheInv, FlagsOK, Process
<1>7. FlagsOK' /\ ~ endif'
  BY <1>4, FlagsCleared
<1>8. ASSUME Current.name \in Headers, Plain(Current.name), f.ifndef_macro # None
      PROVE  /\ f.ifndef_macro = Current.ifndef_macro
             /\ ifdefs' > Current.ifdef_stack_ptr
             /\ \A D \in SUBSET Macros :
                   GroupsAfter(l, D, ifdefs - Current.ifdef_stack_ptr + a,
                               ifdefs' - Current.ifdef_stack_ptr + a')
  <2>1. ifdefs > Current.ifdef_stack_ptr /\ ifdefs # Current.ifdef_stack_ptr + 1
    BY <1>1, <1>3, <1>8 DEF CacheInv, GuardOK
  <2>2. /\ ifdefs - Current.ifdef_stack_ptr + a > 1
        /\ ifdefs' - Current.ifdef_stack_ptr + a' = ifdefs - Current.ifdef_stack_ptr + a
    BY <1>4, <1>5, <1>6, <2>1
  <2>3. Abs!IsNext(l)
    BY DEF Abs!IsNext
  <2> QED
    BY <1>3, <1>5, <1>8, <2>1, <2>2, <2>3 DEF GroupsAfter
<1>9. GuardOK'
  BY <1>3, <1>4, <1>7, <1>8, GuardLine
<1> QED
  BY <1>3, <1>4, <1>7, <1>9, CacheLine

LEMMA ElseCache ==
    ASSUME CacheInv, NEW l \in NextLines, IInv', Else(l)
    PROVE  CacheInv'
<1> DEFINE c == 3 - Last(ifdef_stack)
<1>1. /\ Process(l) /\ l.op = "else" /\ ifdefs # 0
      /\ TestElse(c) /\ NoFlags
      /\ UNCHANGED <<content, include_depth, cached, phase>>
  BY DEF Else
<1>2. c \in 0 .. 3
  BY <1>1, ReadLine, InnermostGroup DEF CacheInv
<1> HIDE DEF c
<1> QED
  BY <1>1, <1>2, TestElseCache

\* A file with #elif is not plain, so that nothing is known of its guard.
LEMMA ElifCache ==
    ASSUME CacheInv, NEW l \in NextLines, IInv', Elif(l)
    PROVE  CacheInv'
<1>1. /\ Process(l) /\ l.op = "elif" /\ ifdefs # 0 /\ NoFlags
      /\ UNCHANGED <<content, include_depth, cached, phase>>
  BY DEF Elif
<1>2. CASE Last(ifdef_stack) = 0 /\ TestElse(IF Condition(l) THEN 1 ELSE 0)
  <2> DEFINE c == IF Condition(l) THEN 1 ELSE 0
  <2>1. c \in 0 .. 3 /\ TestElse(c)
    BY <1>2
  <2> HIDE DEF c
  <2> QED
    BY <1>1, <2>1, TestElseCache
<1>3. CASE a' = 0 /\ SetCurrent(Advanced)
  <2>1. /\ Advanced \in BufferedFile
        /\ Advanced.name = Current.name
        /\ Advanced.filename = Current.filename
        /\ Advanced.ifdef_stack_ptr = Current.ifdef_stack_ptr
    BY ReadLine, AdvancedFields DEF CacheInv
  <2>2. FlagsOK' /\ ~ endif'
    BY <1>1, <1>3, FlagsCleared
  <2>3. ~ (Current.name \in Headers /\ Plain(Current.name))
    BY <1>1, HeaderLine DEF Plain
  <2>4. GuardOK'
    BY <1>1, <1>3, <2>1, <2>2, <2>3, GuardLine
  <2> QED
    BY <1>1, <1>3, <2>1, <2>2, <2>4, CacheLine
<1> QED
  BY <1>2, <1>3 DEF Elif

\* The #endif of the guard saves its macro; another ends a nested group.
LEMMA EndifCache ==
    ASSUME CacheInv, NEW l \in NextLines, IInv', Endif(l)
    PROVE  CacheInv'
<1> DEFINE guard == /\ Current.ifndef_macro # None
                    /\ ifdefs - 1 = Current.ifdef_stack_ptr
           f == IF guard
                THEN [Advanced EXCEPT !.ifndef_macro_saved = Current.ifndef_macro,
                                      !.ifndef_macro = None]
                ELSE Advanced
<1>1. phase = "run"
  BY ReadLine DEF CacheInv
<1>2. /\ Advanced \in BufferedFile
      /\ Advanced.name = Current.name
      /\ Advanced.filename = Current.filename
      /\ Advanced.ifdef_stack_ptr = Current.ifdef_stack_ptr
      /\ Advanced.ifndef_macro = Current.ifndef_macro
      /\ Current \in BufferedFile
  BY <1>1, AdvancedFields, Places DEF CacheInv
<1>3. /\ f \in BufferedFile /\ f.name = Current.name /\ f.pos = Advanced.pos
      /\ f.filename = Current.filename
      /\ f.ifdef_stack_ptr = Current.ifdef_stack_ptr
      /\ guard => f.ifndef_macro = None /\ f.ifndef_macro_saved = Current.ifndef_macro
      /\ ~ guard => f.ifndef_macro = Current.ifndef_macro
  BY <1>2 DEF BufferedFile
<1>4. /\ Process(l) /\ l.op = "endif" /\ ifdefs > Current.ifdef_stack_ptr
      /\ ifdef_stack' = Front(ifdef_stack)
      /\ SetCurrent(f)
      /\ bof' = FALSE /\ endif' = guard /\ ~ skipping' /\ a' = 0
      /\ UNCHANGED <<content, include_depth, cached, phase>>
  BY DEF Endif
<1> HIDE DEF f
<1>5. /\ ifdefs \in Nat /\ Current.ifdef_stack_ptr \in Nat /\ a = 0 /\ Current.pos \in Nat
  BY <1>1, <1>4, Places DEF CacheInv, FlagsOK, Process
<1>6. ifdefs' = ifdefs - 1
  <2>1. ifdef_stack \in Seq(0 .. 3) /\ Len(ifdef_stack) > 0
    BY <1>4, <1>5 DEF CacheInv, IInv, TypeOK, ifdefs
  <2> QED
    BY <1>4, <2>1, FrontOf DEF ifdefs
<1>7. FlagsOK'
  BY <1>4 DEF FlagsOK
<1>8. Abs!IsEnd(l)
  BY <1>4 DEF Abs!IsEnd
<1>9. CASE ~ guard
  <2>1. ASSUME Current.name \in Headers, Plain(Current.name), f.ifndef_macro # None
        PROVE  /\ f.ifndef_macro = Current.ifndef_macro
               /\ ifdefs' > Current.ifdef_stack_ptr
               /\ \A D \in SUBSET Macros :
                     GroupsAfter(l, D, ifdefs - Current.ifdef_stack_ptr + a,
                                 ifdefs' - Current.ifdef_stack_ptr + a')
    <3>1. f.ifndef_macro = Current.ifndef_macro /\ ifdefs - 1 # Current.ifdef_stack_ptr
      BY <1>3, <1>9, <2>1
    <3>2. ifdefs' > Current.ifdef_stack_ptr
      BY <1>4, <1>5, <1>6, <3>1
    <3> DEFINE k  == ifdefs - Current.ifdef_stack_ptr + a
               k2 == ifdefs' - Current.ifdef_stack_ptr + a'
    <3>3. k > 0 /\ k2 = k - 1
      BY <1>4, <1>5, <1>6
    <3> HIDE DEF k, k2
    <3>4. \A D \in SUBSET Macros : GroupsAfter(l, D, k, k2)
      BY <1>8, <3>3 DEF GroupsAfter
    <3> QED
      BY <3>1, <3>2, <3>4 DEF k, k2
  <2>2. ~ endif'
    BY <1>4, <1>9
  <2>3. GuardOK'
    BY <1>3, <1>4, <2>1, <2>2, GuardLine
  <2> QED
    BY <1>3, <1>4, <1>7, <2>3, CacheLine
<1>10. CASE guard
  <2>1. ASSUME Current.name \in Headers, Plain(Current.name),
               NEW D \in SUBSET Macros, Current.ifndef_macro \in D
        PROVE  NoEffect(content[Current.name], D, f.pos, 0)
    <3>1. ifdefs - Current.ifdef_stack_ptr + a = 1
      BY <1>5, <1>10
    <3>2. NoEffect(content[Current.name], D, Current.pos, 1)
      BY <1>1, <1>10, <2>1, <3>1 DEF CacheInv, GuardOK
    <3>3. l = content[Current.name][Current.pos + 1] /\ f.pos = Current.pos + 1
      BY <1>3, <2>1, HeaderLine
    <3>4. GroupsAfter(l, D, 1, 0)
      BY <1>8 DEF GroupsAfter
    <3>5. NoEffect(content[Current.name], D, Current.pos + 1, 0)
      BY <1>5, <3>2, <3>3, <3>4, NoEffectLine
    <3> QED
      BY <3>3, <3>5
  <2>2. Current' = f
    BY <1>3, <1>4, SameFile
  <2>3. /\ f.ifndef_macro = None /\ f.ifndef_macro_saved = Current.ifndef_macro
    BY <1>3, <1>10
  <2>4. \A h : Plain(h)' <=> Plain(h)
    BY <1>4 DEF Plain
  <2>5. GuardOK'
    BY <1>3, <1>4, <2>1, <2>2, <2>3, <2>4 DEF GuardOK
  <2> QED
    BY <1>3, <1>4, <1>7, <2>5, CacheLine
<1> QED
  BY <1>9, <1>10

\* The file that #include opens counts as nothing yet; its includer has an
\* #include.
LEMMA IncludeCache ==
    ASSUME CacheInv, NEW l \in NextLines, IInv', Include(l)
    PROVE  CacheInv'
<1> DEFINE t == Append(Front(file), Advanced)
           new == Opened(l.arg, ifdefs)
           n == Len(file)
<1>1. phase = "run" /\ l \in Lines /\ l.arg \in Headers
  BY ReadLine, PreprocAssumption DEF CacheInv, Include
<1>2. /\ file' = Append(t, new) /\ l.op = "include"
      /\ include_depth' = include_depth + 1
      /\ bof' = TRUE /\ endif' = FALSE /\ ~ skipping
      /\ UNCHANGED <<content, ifdef_stack, skipping, a, cached, phase>>
  BY DEF Include, Process
<1>3. /\ file \in Seq(BufferedFile) /\ n \in Nat /\ n > 0
      /\ include_depth \in Nat /\ include_depth < n
      /\ Base \in 1 .. n /\ Current \in BufferedFile /\ Current = file[n]
      /\ ifdefs \in Nat
  BY <1>1, Places DEF CacheInv
<1>4. new \in BufferedFile
  BY <1>1, <1>3 DEF Opened, BufferedFile, Names
<1>5. /\ Advanced \in BufferedFile
      /\ Advanced.name = Current.name
      /\ Advanced.filename = Current.filename
  BY <1>1, AdvancedFields DEF CacheInv
<1>6. /\ t \in Seq(BufferedFile) /\ Len(t) = n
      /\ t[n] = Advanced
      /\ \A i \in 1 .. n - 1 : t[i] = file[i]
  BY <1>3, <1>5, ReplaceLast
<1>7. /\ new.name = l.arg /\ new.filename = l.arg /\ new.pos = 0
      /\ new.ifdef_stack_ptr = ifdefs /\ new.ifndef_macro = None
  BY DEF Opened
<1> HIDE DEF t, new
<1>8. /\ Len(file') = n + 1
      /\ file'[n + 1] = new
      /\ \A i \in 1 .. n : file'[i] = t[i]
  BY <1>2, <1>4, <1>6, OneMore
<1>9. Current' = new /\ Base' = Base /\ ifdefs' = ifdefs
  BY <1>2, <1>3, <1>8 DEF Current, Last, Base, ifdefs
<1>10. /\ Current.name = Main <=> n = Base
       /\ Current.filename # Current.name => Renamed(Current.filename)
  <2>1. n \in Base .. n
    BY <1>3
  <2> QED
    BY <1>1, <1>3, <2>1 DEF CacheInv, FilesRead
<1>11. ASSUME Current.name \in Headers
       PROVE  Advanced.pos <= Len(content[Current.name]) /\ ~ Plain(Current.name)
  <2>1. /\ Advanced.pos <= Len(content[Current.name])
        /\ Current.pos + 1 \in DOMAIN content[Current.name]
        /\ l = content[Current.name][Current.pos + 1]
    BY <1>11, HeaderLine
  <2> QED
    BY <1>2, <2>1 DEF Plain
<1>12. ASSUME NEW i \in Base .. n + 1
       PROVE  /\ file'[i].name = Main <=> i = Base
              /\ file'[i].name \in Headers => file'[i].pos <= Len(content[file'[i].name])
              /\ file'[i].name \in Headers /\ i < n + 1 => ~ Plain(file'[i].name)
              /\ file'[i].filename # file'[i].name => Renamed(file'[i].filename)
  <2>1. CASE i = n + 1
    <3>1. file'[i] = new /\ ~ i < n + 1 /\ i # Base
      BY <1>3, <1>8, <2>1
    <3>2. content[l.arg] \in Seq(Lines) /\ 0 <= Len(content[l.arg])
      BY <1>1 DEF CacheInv, IInv, TypeOK
    <3> QED
      BY <1>1, <1>7, <3>1, <3>2, PreprocAssumption
  <2>2. CASE i = n
    <3>1. file'[i] = Advanced
      BY <1>3, <1>6, <1>8, <2>2
    <3> QED
      BY <1>5, <1>10, <1>11, <2>2, <3>1
  <2>3. CASE i # n + 1 /\ i # n
    <3>1. i \in Base .. n /\ i < n
      BY <1>3, <2>3
    <3>2. i \in 1 .. n - 1 /\ i \in 1 .. n
      BY <1>3, <3>1
    <3>3. file'[i] = t[i] /\ t[i] = file[i]
      BY <1>6, <1>8, <3>2
    <3> QED
      BY <1>1, <3>1, <3>3 DEF CacheInv, FilesRead
  <2> QED
    BY <2>1, <2>2, <2>3
<1>13. \A h : (Plain(h)' <=> Plain(h)) /\ (Renamed(h)' <=> Renamed(h))
  BY <1>2 DEF Plain, Renamed
<1>14. FilesRead'
  BY <1>2, <1>8, <1>9, <1>12, <1>13 DEF FilesRead
<1>15. FlagsOK'
  BY <1>2, <1>7, <1>9 DEF FlagsOK, CacheInv
<1>16. GuardOK'
  BY <1>2, <1>7, <1>9 DEF GuardOK
<1>17. CacheExact'
  BY <1>2, CacheKept DEF CacheInv
<1> QED
  BY <1>14, <1>15, <1>16, <1>17 DEF CacheInv

\* What the cache gets of a file at its end is a guard of it.
LEMMA NewGuard ==
    ASSUME CacheInv, EndOfInclude, NEW h \in Headers, cached'[h] # None, ~ Misleading(h)
    PROVE  Guarded(h)'
<1>1. /\ phase = "run" /\ include_depth > 0 /\ AtEnd
      /\ cached' = IF endif /\ cached[Current.filename] = None
                   THEN [cached EXCEPT ![Current.filename] = Current.ifndef_macro_saved]
                   ELSE cached
      /\ content' = content
  BY DEF EndOfInclude
<1>2. /\ Current \in BufferedFile /\ Current = file[Len(file)]
      /\ Base \in 1 .. Len(file) /\ Len(file) \in Nat
  BY <1>1, Places DEF CacheInv
<1>3. CASE cached'[h] = cached[h]
  <2>1. Guarded(h)
    BY <1>3 DEF CacheInv, CacheExact
  <2> QED
    BY <1>1, <1>3, <2>1 DEF Guarded
<1>4. CASE cached'[h] # cached[h]
  <2>1. cached \in [Names -> Macros \cup {None}] /\ Current.filename \in Names
    BY <1>2 DEF CacheInv, IInv, TypeOK, BufferedFile
  <2>2. endif /\ Current.filename = h /\ cached'[h] = Current.ifndef_macro_saved
    BY <1>1, <1>4, <2>1
  <2>3. ~ Renamed(h) /\ Plain(h)
    BY DEF Misleading, Renamed, Plain
  <2>4. Len(file) \in Base .. Len(file) /\ Len(file) # Base
    BY <1>1, <1>2 DEF Base, CacheInv, IInv, TypeOK
  <2>5. /\ Current.name # Main /\ Current.name = h
        /\ Current.pos <= Len(content[h])
    BY <1>1, <1>2, <2>2, <2>3, <2>4 DEF CacheInv, FilesRead
  <2>6. Current.pos = Len(content[h])
    BY <1>1, <2>5 DEF AtEnd
  <2>7. ASSUME NEW D \in SUBSET Macros, cached'[h] \in D
        PROVE  Abs!Inert(content[h], D)
    <3>1. NoEffect(content[h], D, Len(content[h]), 0)
      BY <1>1, <2>2, <2>3, <2>5, <2>6, <2>7 DEF CacheInv, GuardOK
    <3> QED
      BY <3>1, NoEffectInert
  <2> QED
    BY <1>1, <2>7 DEF Guarded
<1> QED
  BY <1>3, <1>4

LEMMA EndOfIncludeCache ==
    ASSUME CacheInv, IInv', EndOfInclude
    PROVE  CacheInv'
<1> DEFINE n == Len(file)
<1>1. /\ phase = "run" /\ ~ skipping /\ include_depth > 0
      /\ endif' = FALSE /\ file' = Front(file)
      /\ include_depth' = include_depth - 1
      /\ UNCHANGED <<content, ifdef_stack, skipping, a, bof, phase>>
  BY DEF EndOfInclude
<1>2. /\ file \in Seq(BufferedFile) /\ n \in Nat /\ n > 0
      /\ include_depth \in Nat /\ include_depth < n
  BY <1>1, Places DEF CacheInv
<1>3. /\ Len(file') = n - 1
      /\ \A i \in 1 .. n - 1 : file'[i] = file[i]
  BY <1>1, <1>2, FrontOf
<1>4. Current' = file[n - 1] /\ Base' = Base
  BY <1>1, <1>2, <1>3 DEF Current, Last, Base
<1>5. n - 1 \in Base .. n /\ n - 1 < n
  BY <1>1, <1>2 DEF Base
<1>6. \A h : (Plain(h)' <=> Plain(h)) /\ (Renamed(h)' <=> Renamed(h))
  BY <1>1 DEF Plain, Renamed
<1>7. Current'.name \in Headers => ~ Plain(Current'.name)
  BY <1>1, <1>4, <1>5 DEF CacheInv, FilesRead
<1>8. ASSUME NEW i \in Base .. n - 1
      PROVE  /\ file'[i].name = Main <=> i = Base
             /\ file'[i].name \in Headers => file'[i].pos <= Len(content[file'[i].name])
             /\ file'[i].name \in Headers => ~ Plain(file'[i].name)
             /\ file'[i].filename # file'[i].name => Renamed(file'[i].filename)
  <2>1. i \in 1 .. n - 1 /\ i \in Base .. n /\ i < n
    BY <1>2 DEF Base
  <2> QED
    BY <1>1, <1>3, <2>1 DEF CacheInv, FilesRead
<1>9. FilesRead'
  BY <1>1, <1>3, <1>4, <1>6, <1>8 DEF FilesRead
<1>10. FlagsOK'
  BY <1>1, <1>6, <1>7 DEF CacheInv, FlagsOK
<1>11. GuardOK'
  BY <1>6, <1>7 DEF GuardOK
<1>12. CacheExact'
  <2>1. \A h : Misleading(h)' <=> Misleading(h)
    BY <1>1 DEF Misleading
  <2> QED
    BY <2>1, NewGuard DEF CacheExact
<1> QED
  BY <1>9, <1>10, <1>11, <1>12 DEF CacheInv

\* A unit starts with the main file, of which no guard is kept.
LEMMA StartUnitCache ==
    ASSUME CacheInv, IInv', StartUnit
    PROVE  CacheInv'
<1> DEFINE new == Opened(Main, 0)
           n == Len(file)
<1>1. /\ phase = "idle" /\ phase' = "run"
      /\ file' = Append(file, new) /\ include_depth' = 0
      /\ bof' = TRUE /\ endif' = FALSE
      /\ UNCHANGED <<content, skipping, a, cached>>
  BY DEF StartUnit
<1>2. file \in Seq(BufferedFile) /\ n \in Nat /\ ~ skipping
  BY <1>1, LenProperties DEF CacheInv, IInv, TypeOK, IdleOK
<1>3. new \in BufferedFile /\ new.name = Main /\ new.filename = Main
  BY DEF Opened, BufferedFile, Names
<1> HIDE DEF new
<1>4. Len(file') = n + 1 /\ file'[n + 1] = new
  BY <1>1, <1>2, <1>3, OneMore
<1>5. Current' = new /\ Base' = n + 1
  BY <1>1, <1>2, <1>4 DEF Current, Last, Base
<1>6. FilesRead'
  <2>1. \A i \in n + 1 .. n + 1 : file'[i] = new /\ i = n + 1
    BY <1>2, <1>4
  <2> QED
    BY <1>3, <1>4, <1>5, <2>1, PreprocAssumption DEF FilesRead
<1>7. FlagsOK' /\ GuardOK'
  BY <1>1, <1>2, <1>3, <1>5, PreprocAssumption DEF CacheInv, FlagsOK, GuardOK
<1>8. CacheExact'
  BY <1>1, CacheKept DEF CacheInv
<1> QED
  BY <1>6, <1>7, <1>8 DEF CacheInv

\* The cache outlives the unit and its errors.
LEMMA EndUnitCache ==
    ASSUME CacheInv, IInv', EndUnit
    PROVE  CacheInv'
<1>1. phase' = "idle" /\ ~ skipping' /\ a' = 0 /\ UNCHANGED <<content, cached>>
  BY DEF EndUnit
<1>2. FilesRead' /\ FlagsOK' /\ GuardOK'
  BY <1>1 DEF FilesRead, FlagsOK, GuardOK
<1>3. CacheExact'
  BY <1>1, CacheKept DEF CacheInv
<1> QED
  BY <1>2, <1>3 DEF CacheInv

LEMMA InitCache ==
    ASSUME Init
    PROVE  CacheInv
<1>1. /\ phase = "idle" /\ a = 0
      /\ cached = [f \in Names |-> None]
  BY DEF Init
<1>2. FilesRead /\ FlagsOK /\ GuardOK
  BY <1>1 DEF FilesRead, FlagsOK, GuardOK
<1>3. CacheExact
  BY <1>1 DEF CacheExact, Names
<1> QED
  BY <1>2, <1>3, InitOK DEF CacheInv

LEMMA StutterCache ==
    ASSUME CacheInv, IInv', UNCHANGED vars
    PROVE  CacheInv'
<1>1. /\ UNCHANGED <<content, ifdef_stack, skipping, a, cached, phase>>
      /\ UNCHANGED <<file, include_depth, bof, endif>>
  BY DEF vars, files, flags
<1>2. ifdefs' = ifdefs /\ Current' = Current /\ Base' = Base
  BY <1>1 DEF ifdefs, Current, Last, Base
<1>3. \A h : (Plain(h)' <=> Plain(h)) /\ (Renamed(h)' <=> Renamed(h))
  BY <1>1 DEF Plain, Renamed
<1>4. FilesRead'
  BY <1>1, <1>2, <1>3 DEF CacheInv, FilesRead
<1>5. FlagsOK'
  BY <1>1, <1>2, <1>3 DEF CacheInv, FlagsOK
<1>6. GuardOK'
  BY <1>1, <1>2, <1>3 DEF CacheInv, GuardOK
<1>7. CacheExact'
  BY <1>1, CacheKept DEF CacheInv
<1> QED
  BY <1>4, <1>5, <1>6, <1>7 DEF CacheInv

LEMMA LineStepCache ==
    ASSUME CacheInv, IInv', NEW l \in NextLines, LineStep(l)
    PROVE  CacheInv'
<1>1. CASE TextLine(l) \/ LineDirective(l) \/ Define(l) \/ Undef(l) \/ IncludeCached(l)
  BY <1>1, PlainLinesOK
<1>2. CASE Include(l)
  BY <1>2, IncludeCache
<1>3. CASE If(l)
  BY <1>3, IfCache
<1>4. CASE Else(l)
  BY <1>4, ElseCache
<1>5. CASE Elif(l)
  BY <1>5, ElifCache
<1>6. CASE Endif(l)
  BY <1>6, EndifCache
<1>7. CASE SkipLine(l)
  BY <1>7, SkipLineCache
<1> QED
  BY <1>1, <1>2, <1>3, <1>4, <1>5, <1>6, <1>7 DEF LineStep

LEMMA NextCache ==
    ASSUME CacheInv, [Next]_vars
    PROVE  CacheInv'
<1>1. IInv'
  BY NextOK DEF CacheInv
<1>2. CASE StartUnit
  BY <1>1, <1>2, StartUnitCache
<1>3. CASE EndOfMain \/ Fail
  BY <1>1, <1>3, EndUnitCache DEF EndOfMain, Fail
<1>4. CASE EndOfInclude
  BY <1>1, <1>4, EndOfIncludeCache
<1>5. CASE Quit \/ UNCHANGED vars
  BY <1>1, <1>5, StutterCache DEF Quit
<1>6. CASE \E l \in NextLines : LineStep(l)
  BY <1>1, <1>6, LineStepCache
<1> QED
  BY <1>2, <1>3, <1>4, <1>5, <1>6 DEF Next

THEOREM CacheInvariance == Spec => []CacheInv
<1>1. Init => CacheInv
  BY InitCache
<1>2. CacheInv /\ [Next]_vars => CacheInv'
  BY NextCache
<1> QED
  BY <1>1, <1>2, PTL DEF Spec

\* A header that the cache lets #include leave unread would have no effect,
\* with the macros that are defined then or any others that include the one
\* it is cached with, unless it has #elif or #include or its name is taken by
\* #line.
THEOREM GuardsExact == Spec => []CacheExact
<1>1. CacheInv => CacheExact
  BY DEF CacheInv
<1> QED
  BY <1>1, CacheInvariance, PTL

(***************************************************************************)
(* The files and groups of a unit, as CondInclusion has them.              *)
(***************************************************************************)

\* The value of files in CondInclusion.
AbsFiles ==
    IF phase = "idle" THEN <<>>
    ELSE [i \in 1 .. Len(Unit) |-> [name |-> Unit[i].name, pos |-> Unit[i].pos]]

\* The value of groups in CondInclusion.
AbsGroups ==
    IF phase = "idle" THEN <<>> ELSE [i \in 1 .. Len(Unit) |-> UnitGroups(i)]

Brief(f) == [name |-> f.name, pos |-> f.pos]

AbsFile == [name : Names, pos : Nat]

\* The group of entry j of ifdef_stack.
Entry(j) ==
    [st  |-> IF ifdef_stack[j] % 2 = 1
             THEN IF skipping /\ j = ifdefs THEN "done" ELSE "on"
             ELSE IF ifdef_stack[j] = 0 THEN "seek" ELSE "done",
     els |-> ifdef_stack[j] > 1]

\* A group nested in a skipped region.
Nested == [st |-> "done", els |-> FALSE]

\* G: the entries lo + 1 to hi, and k nested groups.
Groups(G, lo, hi, k) ==
    /\ G \in Seq(Abs!Group) /\ Len(G) = hi - lo + k
    /\ \A j \in 1 .. hi - lo : G[j] = Entry(lo + j)
    /\ \A j \in hi - lo + 1 .. hi - lo + k : G[j] = Nested

\* The number of files of the unit.
Depth == include_depth + 1

LEMMA UnitFiles ==
    ASSUME IInv, phase = "run"
    PROVE  /\ Depth \in Nat /\ Depth > 0
           /\ Len(Unit) = Depth /\ Len(file) - Base + 1 = Depth
           /\ Base + Depth - 1 = Len(file)
           /\ \A i \in 1 .. Depth : /\ Unit[i] = file[Base + i - 1]
                                    /\ Unit[i] \in BufferedFile
                                    /\ Base + i - 1 \in Base .. Len(file)
                                    /\ Base + i - 1 \in 1 .. Len(file)
           /\ Unit[Depth] = Current
<1> DEFINE n == Len(file)
<1>1. /\ file \in Seq(BufferedFile) /\ n \in Nat
      /\ include_depth \in Nat /\ include_depth < n
      /\ Base \in 1 .. n /\ Current = file[n]
  BY Places
<1>2. /\ Depth \in Nat /\ Depth > 0 /\ n - Base + 1 = Depth /\ Base + Depth - 1 = n
  BY <1>1 DEF Depth, Base
<1>3. Unit = SubSeq(file, Base, n)
  BY DEF Unit, Base
<1> HIDE DEF n
<1>4. \A i \in Base .. n : file[i] \in BufferedFile
  <2>1. \A i \in Base .. n : i \in 1 .. Len(file)
    BY <1>1 DEF n
  <2> QED
    BY <1>1, <2>1, ElementOfSeq
<1>5. /\ Len(Unit) = n - Base + 1
      /\ \A i \in 1 .. n - Base + 1 : Unit[i] = file[Base + i - 1]
  BY <1>1, <1>3, <1>4, SubSeqProperties
<1>6. ASSUME NEW i \in 1 .. Depth
      PROVE  /\ Unit[i] = file[Base + i - 1]
             /\ Unit[i] \in BufferedFile
             /\ Base + i - 1 \in Base .. n
             /\ Base + i - 1 \in 1 .. n
  BY <1>1, <1>2, <1>4, <1>5
<1>7. Unit[Depth] = Current
  BY <1>1, <1>2, <1>6
<1> QED
  BY <1>2, <1>5, <1>6, <1>7 DEF n

\* The parts of ifdef_stack of the files, in order.
LEMMA UnitPtrs ==
    ASSUME IInv, phase = "run"
    PROVE  /\ \A i \in 1 .. Depth : /\ Unit[i].ifdef_stack_ptr \in Nat
                                    /\ Unit[i].ifdef_stack_ptr <= Current.ifdef_stack_ptr
           /\ \A i \in 1 .. Depth - 1 :
                 Unit[i].ifdef_stack_ptr <= Unit[i + 1].ifdef_stack_ptr
<1> DEFINE n == Len(file)
<1>1. /\ Depth \in Nat /\ Depth > 0
      /\ \A i \in 1 .. Depth : /\ Unit[i] = file[Base + i - 1]
                               /\ Unit[i] \in BufferedFile
                               /\ Base + i - 1 \in Base .. Len(file)
      /\ Unit[Depth] = Current /\ Base + Depth - 1 = Len(file)
  BY UnitFiles
<1>2. \A i, j \in Base .. Len(file) :
         i <= j => file[i].ifdef_stack_ptr <= file[j].ifdef_stack_ptr
  BY DEF IInv, PtrsOK, Base
<1>3. Base \in Nat /\ Len(file) \in Nat
  BY Places
<1>4. ASSUME NEW i \in 1 .. Depth, NEW j \in 1 .. Depth, i <= j
      PROVE  Unit[i].ifdef_stack_ptr <= Unit[j].ifdef_stack_ptr
  <2> DEFINE p == Base + i - 1
             q == Base + j - 1
  <2>1. /\ Unit[i] = file[p] /\ Unit[j] = file[q]
        /\ p \in Base .. Len(file) /\ q \in Base .. Len(file)
    BY <1>1
  <2>2. p <= q
    BY <1>3, <1>4
  <2> HIDE DEF p, q
  <2> QED
    BY <1>2, <2>1, <2>2
<1>5. ASSUME NEW i \in 1 .. Depth
      PROVE  /\ Unit[i].ifdef_stack_ptr \in Nat
             /\ Unit[i].ifdef_stack_ptr <= Current.ifdef_stack_ptr
  <2>1. Depth \in 1 .. Depth /\ i <= Depth
    BY <1>1
  <2> QED
    BY <1>1, <1>4, <2>1 DEF BufferedFile
<1>6. ASSUME NEW i \in 1 .. Depth - 1
      PROVE  Unit[i].ifdef_stack_ptr <= Unit[i + 1].ifdef_stack_ptr
  BY <1>1, <1>4
<1> QED
  BY <1>5, <1>6

LEMMA EntryType == \A j : Entry(j) \in Abs!Group /\ Nested \in Abs!Group
  BY DEF Entry, Nested, Abs!Group

\* The groups of a file are its part of ifdef_stack; the current file also has
\* those nested in a skipped region.
LEMMA GroupsOfFile ==
    ASSUME IInv, phase = "run"
    PROVE  /\ \A i \in 1 .. Depth - 1 :
                 Groups(UnitGroups(i), Unit[i].ifdef_stack_ptr, Unit[i + 1].ifdef_stack_ptr, 0)
           /\ Groups(UnitGroups(Depth), Current.ifdef_stack_ptr, ifdefs, a)
<1>1. /\ Depth \in Nat /\ Depth > 0 /\ Len(Unit) = Depth
      /\ Unit[Depth] = Current
  BY UnitFiles
<1>2. /\ \A i \in 1 .. Depth : Unit[i].ifdef_stack_ptr \in Nat
      /\ \A i \in 1 .. Depth - 1 : Unit[i].ifdef_stack_ptr <= Unit[i + 1].ifdef_stack_ptr
  BY UnitPtrs
<1>3. /\ ifdefs \in Nat /\ Current.ifdef_stack_ptr \in Nat
      /\ Current.ifdef_stack_ptr <= ifdefs /\ a \in Nat
  BY Places
<1>4. ASSUME NEW lo \in Nat, NEW hi \in Nat, lo <= hi, NEW k \in Nat
      PROVE  Groups([j \in 1 .. hi - (lo + 1) + 1 |-> Entry(lo + 1 + j - 1)]
                       \o [i \in 1 .. k |-> Nested], lo, hi, k)
  <2> DEFINE s == [j \in 1 .. hi - (lo + 1) + 1 |-> Entry(lo + 1 + j - 1)]
             t == [i \in 1 .. k |-> Nested]
             m == hi - lo
  <2>1. m \in Nat /\ hi - (lo + 1) + 1 = m
    BY <1>4
  <2>2. s \in [1 .. m -> Abs!Group] /\ t \in [1 .. k -> Abs!Group]
    BY <2>1, EntryType
  <2>3. s \in Seq(Abs!Group) /\ t \in Seq(Abs!Group) /\ Len(s) = m /\ Len(t) = k
    <3> HIDE DEF s, t, m
    <3>1. \A n \in Nat : \A q \in [1 .. n -> Abs!Group] : q \in Seq(Abs!Group) /\ Len(q) = n
      BY SeqDef
    <3> QED
      BY <2>1, <2>2, <3>1
  <2>4. \A j \in 1 .. m : s[j] = Entry(lo + j)
    <3>1. \A j \in 1 .. m : lo + 1 + j - 1 = lo + j
      BY <2>1
    <3> QED
      BY <2>1, <3>1
  <2>5. \A j \in 1 .. k : t[j] = Nested
    OBVIOUS
  <2> HIDE DEF s, t, m
  <2>6. /\ s \o t \in Seq(Abs!Group) /\ Len(s \o t) = m + k
        /\ \A j \in 1 .. m + k : (s \o t)[j] = IF j <= m THEN s[j] ELSE t[j - m]
    BY <2>3, ConcatProperties
  <2>7. /\ \A j \in 1 .. m : (s \o t)[j] = Entry(lo + j)
        /\ \A j \in m + 1 .. m + k : (s \o t)[j] = Nested
    <3>1. ASSUME NEW j \in 1 .. m
          PROVE  (s \o t)[j] = Entry(lo + j)
      BY <2>1, <2>4, <2>6
    <3>2. ASSUME NEW j \in m + 1 .. m + k
          PROVE  (s \o t)[j] = Nested
      <4>1. j \in 1 .. m + k /\ ~ j <= m /\ j - m \in 1 .. k
        BY <2>1
      <4> QED
        BY <2>5, <2>6, <4>1
    <3> QED
      BY <3>1, <3>2
  <2>8. Groups(s \o t, lo, hi, k)
    BY <2>6, <2>7 DEF Groups, m
  <2> QED
    BY <2>8 DEF s, t
<1>5. ASSUME NEW i \in 1 .. Depth - 1
      PROVE  Groups(UnitGroups(i), Unit[i].ifdef_stack_ptr, Unit[i + 1].ifdef_stack_ptr, 0)
  <2> DEFINE lo == Unit[i].ifdef_stack_ptr
             hi == Unit[i + 1].ifdef_stack_ptr
             s == [j \in 1 .. hi - (lo + 1) + 1 |-> Entry(lo + 1 + j - 1)]
  <2>1. i \in 1 .. Depth /\ i + 1 \in 1 .. Depth /\ i # Depth
    BY <1>1
  <2>2. lo \in Nat /\ hi \in Nat /\ lo <= hi
    BY <1>2, <2>1
  <2>3. UnitGroups(i) = s \o <<>>
    BY <1>1, <2>1 DEF UnitGroups, Entry
  <2>4. [j \in 1 .. 0 |-> Nested] = <<>>
    OBVIOUS
  <2>5. Groups(s \o [j \in 1 .. 0 |-> Nested], lo, hi, 0)
    <3> HIDE DEF lo, hi
    <3> QED
      BY <1>4, <2>2
  <2> QED
    BY <2>3, <2>4, <2>5
<1>6. Groups(UnitGroups(Depth), Current.ifdef_stack_ptr, ifdefs, a)
  <2> DEFINE lo == Current.ifdef_stack_ptr
             s == [j \in 1 .. ifdefs - (lo + 1) + 1 |-> Entry(lo + 1 + j - 1)]
  <2>1. UnitGroups(Depth) = s \o [i \in 1 .. a |-> Nested]
    BY <1>1 DEF UnitGroups, Entry, Nested
  <2>2. Groups(s \o [i \in 1 .. a |-> Nested], lo, ifdefs, a)
    <3> HIDE DEF lo
    <3> QED
      BY <1>3, <1>4 DEF lo
  <2> QED
    BY <2>1, <2>2
<1> QED
  BY <1>5, <1>6

\* The files and groups of a unit, by place.
LEMMA AbsPlaces ==
    ASSUME IInv, phase = "run"
    PROVE  /\ AbsFiles \in Seq(AbsFile) /\ Len(AbsFiles) = Depth
           /\ \A i \in 1 .. Depth : AbsFiles[i] = Brief(file[Base + i - 1])
           /\ AbsGroups \in Seq(Seq(Abs!Group)) /\ Len(AbsGroups) = Depth
           /\ \A i \in 1 .. Depth : AbsGroups[i] = UnitGroups(i)
<1>1. /\ Depth \in Nat /\ Depth > 0 /\ Len(Unit) = Depth
      /\ \A i \in 1 .. Depth : Unit[i] = file[Base + i - 1] /\ Unit[i] \in BufferedFile
  BY UnitFiles
<1>2. AbsFiles = [i \in 1 .. Depth |-> Brief(Unit[i])]
  BY <1>1 DEF AbsFiles, Brief
<1>3. \A i \in 1 .. Depth : Brief(Unit[i]) \in AbsFile
  BY <1>1 DEF Brief, AbsFile, BufferedFile
<1>4. AbsFiles \in Seq(AbsFile) /\ Len(AbsFiles) = Depth
  BY <1>1, <1>2, <1>3, SeqDef
<1>5. AbsGroups = [i \in 1 .. Depth |-> UnitGroups(i)]
  BY <1>1 DEF AbsGroups
<1>6. ASSUME NEW i \in 1 .. Depth
      PROVE  UnitGroups(i) \in Seq(Abs!Group)
  <2>1. i = Depth \/ i \in 1 .. Depth - 1
    BY <1>1
  <2> QED
    BY <2>1, GroupsOfFile DEF Groups
<1>7. AbsGroups \in Seq(Seq(Abs!Group)) /\ Len(AbsGroups) = Depth
  BY <1>1, <1>5, <1>6, SeqDef
<1> QED
  BY <1>1, <1>2, <1>4, <1>5, <1>7

\* The groups of the current file.
Top == UnitGroups(Depth)

\* No #else was borrowed.
LEMMA TopGroups ==
    ASSUME IInv, phase = "run", ~ Borrowed
    PROVE  LET d == ifdefs - Current.ifdef_stack_ptr
           IN  /\ Top \in Seq(Abs!Group) /\ Len(Top) = d + a /\ d \in Nat
               /\ \A j \in 1 .. d : Top[j] = Entry(Current.ifdef_stack_ptr + j)
               /\ \A j \in d + 1 .. d + a : Top[j] = Nested
               /\ \A j \in 1 .. d : Top[j].st = "on" \/ (skipping /\ j = d)
               /\ skipping => d > 0 /\ Top[d].st # "on"
<1> DEFINE p == Current.ifdef_stack_ptr
           d == ifdefs - p
<1>1. /\ ifdefs \in Nat /\ p \in Nat /\ p <= ifdefs /\ a \in Nat
  BY Places
<1>2. Groups(Top, p, ifdefs, a)
  BY GroupsOfFile DEF Top
<1>3. /\ Top \in Seq(Abs!Group) /\ Len(Top) = d + a
      /\ \A j \in 1 .. d : Top[j] = Entry(p + j)
      /\ \A j \in d + 1 .. d + a : Top[j] = Nested
  BY <1>2 DEF Groups
<1>4. d \in Nat /\ (skipping => d > 0)
  BY <1>1 DEF Borrowed
<1>5. \A i \in 1 .. ifdefs : ifdef_stack[i] % 2 = 0 => skipping /\ i = ifdefs
  BY DEF IInv, SelectedOK
<1>6. ASSUME NEW j \in 1 .. d
      PROVE  Top[j].st = "on" \/ (skipping /\ j = d)
  <2>1. p + j \in 1 .. ifdefs /\ (p + j = ifdefs <=> j = d)
    BY <1>1, <1>4
  <2>2. ifdef_stack[p + j] \in 0 .. 3
    BY <2>1, ElementOfSeq DEF IInv, TypeOK, ifdefs
  <2>3. ifdef_stack[p + j] % 2 = 1 \/ (skipping /\ p + j = ifdefs)
    BY <1>5, <2>1, <2>2
  <2>4. Top[j] = Entry(p + j)
    BY <1>3
  <2>5. CASE skipping /\ p + j = ifdefs
    BY <2>1, <2>5
  <2>6. CASE ~ (skipping /\ p + j = ifdefs)
    <3>1. Entry(p + j).st = "on"
      BY <2>3, <2>6 DEF Entry
    <3> QED
      BY <2>4, <3>1
  <2> QED
    BY <2>5, <2>6
<1>7. ASSUME skipping
      PROVE  Top[d].st # "on"
  <2>1. d \in 1 .. d /\ p + d = ifdefs
    BY <1>1, <1>4, <1>7
  <2>2. Top[d] = Entry(ifdefs)
    BY <1>3, <2>1
  <2> QED
    BY <1>7, <2>2 DEF Entry
<1> QED
  BY <1>3, <1>4, <1>6, <1>7

\* All groups are selected but those of the current file in a skipped region.
LEMMA OuterSelected ==
    ASSUME IInv, phase = "run", ~ Borrowed
    PROVE  /\ \A i \in 1 .. Depth - 1 : Abs!AllOn(UnitGroups(i))
           /\ skipping => ~ Abs!AllOn(Top)
           /\ ~ skipping /\ a = 0 => Abs!AllOn(Top)
<1> DEFINE p == Current.ifdef_stack_ptr
           d == ifdefs - p
<1>1. ASSUME NEW i \in 1 .. Depth - 1
      PROVE  Abs!AllOn(UnitGroups(i))
  <2> DEFINE lo == Unit[i].ifdef_stack_ptr
             hi == Unit[i + 1].ifdef_stack_ptr
  <2>1. i \in 1 .. Depth /\ i + 1 \in 1 .. Depth
    BY UnitFiles
  <2>2. lo \in Nat /\ hi \in Nat /\ hi <= p /\ lo <= hi
    BY <2>1, UnitPtrs
  <2>3. Groups(UnitGroups(i), lo, hi, 0)
    BY GroupsOfFile
  <2> HIDE DEF lo, hi
  <2>4. ifdefs \in Nat /\ p \in Nat /\ p <= ifdefs
    BY Places
  <2>5. ASSUME NEW j \in 1 .. Len(UnitGroups(i))
        PROVE  UnitGroups(i)[j].st = "on"
    <3>1. j \in 1 .. hi - lo /\ UnitGroups(i)[j] = Entry(lo + j)
      BY <2>2, <2>3 DEF Groups
    <3>2. lo + j \in 1 .. ifdefs /\ lo + j <= p
      BY <2>2, <2>4, <3>1
    <3>3. ~ (skipping /\ lo + j = ifdefs)
      BY <2>4, <3>2 DEF Borrowed
    <3>4. ifdef_stack[lo + j] \in 0 .. 3
      BY <3>2, ElementOfSeq DEF IInv, TypeOK, ifdefs
    <3>5. ifdef_stack[lo + j] % 2 = 1
      BY <3>2, <3>3, <3>4 DEF IInv, SelectedOK
    <3> QED
      BY <3>1, <3>3, <3>5 DEF Entry
  <2> QED
    BY <2>5 DEF Abs!AllOn
<1>2. /\ Len(Top) = d + a /\ d \in Nat
      /\ \A j \in 1 .. d : Top[j].st = "on" \/ (skipping /\ j = d)
      /\ skipping => d > 0 /\ Top[d].st # "on"
  BY TopGroups
<1>3. a \in Nat
  BY Places
<1> HIDE DEF d
<1>4. skipping => ~ Abs!AllOn(Top)
  <2>1. skipping => d \in 1 .. Len(Top)
    BY <1>2, <1>3
  <2> QED
    BY <1>2, <2>1 DEF Abs!AllOn
<1>5. ~ skipping /\ a = 0 => Abs!AllOn(Top)
  BY <1>2 DEF Abs!AllOn
<1> QED
  BY <1>1, <1>4, <1>5

(***************************************************************************)
(* The actions of CondInclusion on these values.                           *)
(***************************************************************************)

\* What AbsPlaces says, of a state and of the next one.
PlacesExact ==
    /\ AbsFiles \in Seq(AbsFile) /\ Len(AbsFiles) = Depth
    /\ \A i \in 1 .. Depth : AbsFiles[i] = Brief(file[Base + i - 1])
    /\ AbsGroups \in Seq(Seq(Abs!Group)) /\ Len(AbsGroups) = Depth
    /\ \A i \in 1 .. Depth : AbsGroups[i] = UnitGroups(i)

LEMMA PlacesAre == IInv /\ phase = "run" => PlacesExact
  BY AbsPlaces DEF PlacesExact

LEMMA PlacesAreNext == (IInv /\ phase = "run")' => PlacesExact'
  BY PlacesAre, PTL

GroupsExact ==
    /\ \A i \in 1 .. Depth - 1 :
          Groups(UnitGroups(i), Unit[i].ifdef_stack_ptr, Unit[i + 1].ifdef_stack_ptr, 0)
    /\ Groups(UnitGroups(Depth), Current.ifdef_stack_ptr, ifdefs, a)

LEMMA GroupsAre == IInv /\ phase = "run" => GroupsExact
  BY GroupsOfFile DEF GroupsExact

LEMMA GroupsAreNext == (IInv /\ phase = "run")' => GroupsExact'
  BY GroupsAre, PTL

UnitExact ==
    /\ Depth \in Nat /\ Depth > 0
    /\ Base + Depth - 1 = Len(file)
    /\ \A i \in 1 .. Depth : /\ Unit[i] = file[Base + i - 1]
                             /\ Unit[i] \in BufferedFile
                             /\ Base + i - 1 \in 1 .. Len(file)
    /\ Unit[Depth] = Current

LEMMA UnitIs == IInv /\ phase = "run" => UnitExact
  BY UnitFiles DEF UnitExact

LEMMA UnitIsNext == (IInv /\ phase = "run")' => UnitExact'
  BY UnitIs, PTL

\* The innermost file and its groups.
LEMMA Innermost ==
    ASSUME IInv, phase = "run"
    PROVE  /\ AbsFiles \in Seq(AbsFile) /\ Len(AbsFiles) = Depth
           /\ AbsGroups \in Seq(Seq(Abs!Group)) /\ Len(AbsGroups) = Depth
           /\ Depth \in Nat /\ Depth > 0
           /\ Last(AbsFiles) = Brief(Current) /\ AbsFiles # <<>>
           /\ Last(AbsGroups) = Top
<1>1. PlacesExact /\ UnitExact
  BY PlacesAre, UnitIs
<1>2. Depth \in 1 .. Depth
  BY <1>1 DEF UnitExact
<1>3. AbsFiles[Depth] = Brief(Current) /\ AbsGroups[Depth] = Top
  BY <1>1, <1>2 DEF UnitExact, PlacesExact, Top
<1>4. AbsFiles # <<>>
  BY <1>1 DEF UnitExact, PlacesExact
<1> QED
  BY <1>1, <1>3, <1>4 DEF UnitExact, PlacesExact, Last

LEMMA AdvancedMaps ==
    ASSUME IInv, phase = "run"
    PROVE  Abs!Advanced = Append(Front(AbsFiles), Brief(Advanced))
<1> DEFINE g == Brief(Current)
<1>1. Last(AbsFiles) = g /\ g.name = Current.name /\ g.pos = Current.pos
  BY Innermost DEF Brief
<1>2. Current \in BufferedFile
  BY Places
<1>3. [g EXCEPT !.pos = IF g.name = Main THEN 0 ELSE @ + 1] = Brief(Advanced)
  BY <1>1, <1>2 DEF Advanced, Brief, BufferedFile
<1>4. Abs!Advanced = Append(Front(AbsFiles), [Last(AbsFiles) EXCEPT !.pos =
                         IF Last(AbsFiles).name = Main THEN 0 ELSE @ + 1])
  BY FrontAndLast DEF Abs!Advanced, AbsFiles
<1> HIDE DEF g
<1> QED
  BY <1>1, <1>3, <1>4

LEMMA NextLineMaps ==
    ASSUME IInv, NEW l \in NextLines
    PROVE  l \in Abs!NextLines
<1>1. phase = "run" /\ l \in Lines
  BY ReadLine
<1>2. Last(AbsFiles) = Brief(Current) /\ AbsFiles # <<>>
  BY <1>1, Innermost
<1>3. Abs!NextLines =
        IF AbsFiles = <<>> THEN {}
        ELSE IF Last(AbsFiles).name = Main THEN Lines
        ELSE {content[Last(AbsFiles).name][i] :
                i \in DOMAIN content[Last(AbsFiles).name] \cap {Last(AbsFiles).pos + 1}}
  BY FrontAndLast DEF Abs!NextLines, AbsFiles
<1>4. Brief(Current).name = Current.name /\ Brief(Current).pos = Current.pos
  BY DEF Brief
<1> QED
  BY <1>1, <1>2, <1>3, <1>4 DEF NextLines

LEMMA ActiveMaps ==
    ASSUME IInv, phase = "run", ~ Borrowed, ~ skipping => a = 0
    PROVE  Abs!OuterActive /\ (Abs!Active <=> ~ skipping)
<1>1. PlacesExact /\ UnitExact
  BY PlacesAre, UnitIs
<1>2. /\ \A i \in 1 .. Depth - 1 : Abs!AllOn(UnitGroups(i))
      /\ skipping => ~ Abs!AllOn(UnitGroups(Depth))
      /\ ~ skipping => Abs!AllOn(UnitGroups(Depth))
  BY OuterSelected DEF Top
<1>3. \A i \in 1 .. Depth : i = Depth \/ i \in 1 .. Depth - 1
  BY <1>1 DEF UnitExact
<1>4. \A i \in 1 .. Depth - 1 : i \in 1 .. Depth
  BY <1>1 DEF UnitExact
<1>5. Depth \in 1 .. Depth
  BY <1>1 DEF UnitExact
<1>6. /\ \A i \in 1 .. Len(AbsGroups) - 1 : Abs!AllOn(AbsGroups[i])
      /\ (\A i \in 1 .. Len(AbsGroups) : Abs!AllOn(AbsGroups[i])) <=> ~ skipping
  BY <1>1, <1>2, <1>3, <1>4, <1>5 DEF PlacesExact
<1> QED
  BY <1>6 DEF Abs!OuterActive, Abs!Active, AbsGroups

\* The groups of an includer are the same after a line of the current file.
LEMMA OuterGroupsKept ==
    ASSUME IInv, IInv', phase = "run", phase' = "run", Depth' = Depth,
           ~ Borrowed, ~ Borrowed',
           Current.ifdef_stack_ptr <= ifdefs',
           Current'.ifdef_stack_ptr = Current.ifdef_stack_ptr,
           \A j \in 1 .. Depth : Unit'[j].ifdef_stack_ptr = Unit[j].ifdef_stack_ptr,
           \A j \in 1 .. Current.ifdef_stack_ptr : ifdef_stack'[j] = ifdef_stack[j],
           NEW i \in 1 .. Depth - 1
    PROVE  UnitGroups(i)' = UnitGroups(i)
<1> DEFINE lo == Unit[i].ifdef_stack_ptr
           hi == Unit[i + 1].ifdef_stack_ptr
           G  == UnitGroups(i)
<1>1. Depth \in Nat /\ i \in 1 .. Depth /\ i + 1 \in 1 .. Depth
  BY UnitIs DEF UnitExact
<1>2. lo \in Nat /\ hi \in Nat /\ hi <= Current.ifdef_stack_ptr /\ lo <= hi
  BY <1>1, UnitPtrs
<1>3. GroupsExact /\ GroupsExact'
  BY GroupsAre, GroupsAreNext
<1>4. Groups(G, lo, hi, 0)
  BY <1>3 DEF GroupsExact
<1>5. /\ G \in Seq(Abs!Group) /\ Len(G) = hi - lo
      /\ \A j \in 1 .. hi - lo : G[j] = Entry(lo + j)
  BY <1>2, <1>4 DEF Groups
<1>6. /\ G' \in Seq(Abs!Group) /\ Len(G') = hi - lo
      /\ \A j \in 1 .. hi - lo : G'[j] = Entry(lo + j)'
  <2>1. \A k \in 1 .. Depth - 1 :
           Groups(UnitGroups(k), Unit[k].ifdef_stack_ptr, Unit[k + 1].ifdef_stack_ptr, 0)'
    BY <1>3 DEF GroupsExact
  <2>2. Groups(G, lo, hi, 0)'
    BY <2>1
  <2>3. lo' = lo /\ hi' = hi
    BY <1>1
  <2>4. /\ G' \in Seq(Abs!Group) /\ Len(G') = hi' - lo' + 0
        /\ \A j \in 1 .. hi' - lo' : G'[j] = Entry(lo + j)'
    BY <2>2 DEF Groups
  <2> HIDE DEF lo, hi, G
  <2>5. Len(G') = hi - lo
    BY <1>2, <2>3, <2>4
  <2> QED
    BY <2>3, <2>4, <2>5
<1>7. ifdefs \in Nat /\ Current.ifdef_stack_ptr \in Nat /\ Current.ifdef_stack_ptr <= ifdefs
      /\ ifdefs' \in Nat
  BY Places, LenProperties DEF IInv, TypeOK, ifdefs
<1> HIDE DEF lo, hi, G
<1>8. ASSUME NEW j \in 1 .. hi - lo
      PROVE  G'[j] = G[j]
  <2> DEFINE k == lo + j
  <2>1. k \in 1 .. Current.ifdef_stack_ptr
    BY <1>2, <1>7
  <2>2. ifdef_stack'[k] = ifdef_stack[k]
    BY <2>1
  <2>3. ~ (skipping /\ k = ifdefs)
    BY <1>7, <2>1 DEF Borrowed
  <2>4. ~ (skipping' /\ k = ifdefs')
    BY <1>7, <2>1 DEF Borrowed
  <2>5. lo' = lo
    BY <1>1 DEF lo
  <2>6. Entry(lo + j)' = Entry(lo + j)
    BY <2>2, <2>3, <2>4, <2>5 DEF Entry
  <2> QED
    BY <1>5, <1>6, <2>6
<1> QED
  <2>1. G' = G
    BY <1>5, <1>6, <1>8, SeqEqual
  <2> QED
    BY <2>1 DEF G

\* A line of the current file changes it and its groups alone.
LEMMA LineMaps ==
    ASSUME IInv, IInv', phase = "run", phase' = "run",
           NEW f \in BufferedFile, SetCurrent(f),
           f.ifdef_stack_ptr = Current.ifdef_stack_ptr,
           UNCHANGED include_depth, ~ Borrowed, ~ Borrowed',
           \A j \in 1 .. Current.ifdef_stack_ptr : ifdef_stack'[j] = ifdef_stack[j]
    PROVE  /\ AbsFiles' = Append(Front(AbsFiles), Brief(f))
           /\ AbsGroups' = Append(Front(AbsGroups), Top')
           /\ Current' = f
<1> DEFINE n == Len(file)
<1>1. /\ file \in Seq(BufferedFile) /\ n \in Nat /\ n > 0
      /\ Base \in 1 .. n
  BY Places
<1>2. /\ Len(file') = n /\ file'[n] = f
      /\ \A i \in 1 .. n - 1 : file'[i] = file[i]
  <2>1. /\ Append(Front(file), f) \in Seq(BufferedFile)
        /\ Len(Append(Front(file), f)) = Len(file)
        /\ Append(Front(file), f)[Len(file)] = f
        /\ \A i \in 1 .. Len(file) - 1 : Append(Front(file), f)[i] = file[i]
    BY <1>1, ReplaceLast
  <2> QED
    BY <2>1 DEF SetCurrent
<1>3. Base' = Base /\ Depth' = Depth /\ Current' = f
  BY <1>2 DEF Base, Depth, Current, Last
<1>4. PlacesExact /\ UnitExact /\ PlacesExact' /\ UnitExact'
  BY PlacesAre, UnitIs, PlacesAreNext, UnitIsNext
<1>5. Depth \in Nat /\ Depth > 0 /\ Base + Depth - 1 = n
  BY <1>4 DEF UnitExact
<1> HIDE DEF n
<1>6. ASSUME NEW i \in 1 .. Depth - 1
      PROVE  file'[Base + i - 1] = file[Base + i - 1]
  <2>1. Base + i - 1 \in 1 .. n - 1
    BY <1>1, <1>5
  <2> QED
    BY <1>2, <2>1
<1>7. AbsFiles' = Append(Front(AbsFiles), Brief(f))
  <2> DEFINE s == AbsFiles'
             t == Append(Front(AbsFiles), Brief(f))
  <2>1. AbsFiles \in Seq(AbsFile) /\ Len(AbsFiles) = Depth
    BY <1>4 DEF PlacesExact
  <2>2. Brief(f) \in AbsFile
    BY DEF Brief, AbsFile, BufferedFile
  <2>3. /\ t \in Seq(AbsFile) /\ Len(t) = Len(AbsFiles)
        /\ t[Len(AbsFiles)] = Brief(f)
        /\ \A i \in 1 .. Len(AbsFiles) - 1 : t[i] = AbsFiles[i]
    <3>1. Len(AbsFiles) > 0
      BY <1>5, <2>1
    <3> QED
      BY <2>1, <2>2, <3>1, ReplaceLast
  <2>4. /\ s \in Seq(AbsFile) /\ Len(s) = Depth
        /\ \A i \in 1 .. Depth : s[i] = Brief(file'[Base + i - 1])
    BY <1>3, <1>4 DEF PlacesExact, Brief
  <2>5. ASSUME NEW i \in 1 .. Len(s)
        PROVE  s[i] = t[i]
    <3>1. CASE i = Depth
      BY <1>2, <1>5, <2>1, <2>3, <2>4, <3>1
    <3>2. CASE i # Depth
      <4>1. i \in 1 .. Depth - 1 /\ i \in 1 .. Depth
        BY <1>5, <2>4, <3>2
      <4>2. AbsFiles[i] = Brief(file[Base + i - 1])
        BY <1>4, <4>1 DEF PlacesExact
      <4> QED
        BY <1>6, <2>1, <2>3, <2>4, <4>1, <4>2
    <3> QED
      BY <3>1, <3>2
  <2> HIDE DEF s, t
  <2>6. s = t
    BY <2>1, <2>3, <2>4, <2>5, SeqEqual
  <2> QED
    BY <2>6 DEF s, t
<1>8. \A j \in 1 .. Depth : Unit'[j].ifdef_stack_ptr = Unit[j].ifdef_stack_ptr
  <2>1. SUFFICES ASSUME NEW j \in 1 .. Depth
                 PROVE  Unit'[j].ifdef_stack_ptr = Unit[j].ifdef_stack_ptr
    OBVIOUS
  <2>2. Unit[j] = file[Base + j - 1] /\ Unit'[j] = file'[Base + j - 1]
    BY <1>3, <1>4 DEF UnitExact
  <2>3. CASE j = Depth
    BY <1>3, <1>4, <2>3 DEF UnitExact
  <2>4. CASE j # Depth
    <3>1. j \in 1 .. Depth - 1
      BY <1>5, <2>4
    <3> QED
      BY <1>6, <2>2, <3>1
  <2> QED
    BY <2>3, <2>4
<1>9. \A i \in 1 .. Depth - 1 : UnitGroups(i)' = UnitGroups(i)
  <2>1. Current.ifdef_stack_ptr <= ifdefs'
    BY <1>3 DEF IInv, PtrsOK
  <2> QED
    BY <1>3, <1>8, <2>1, OuterGroupsKept
<1>10. AbsGroups' = Append(Front(AbsGroups), Top')
  <2> DEFINE s == AbsGroups'
             t == Append(Front(AbsGroups), Top')
             T == Seq(Abs!Group)
  <2>1. AbsGroups \in Seq(T) /\ Len(AbsGroups) = Depth
    BY <1>4 DEF PlacesExact
  <2>2. /\ s \in Seq(T) /\ Len(s) = Depth
        /\ \A i \in 1 .. Depth : s[i] = UnitGroups(i)'
    BY <1>3, <1>4 DEF PlacesExact
  <2>3. Top' = UnitGroups(Depth)' /\ Top' \in T
    <3>1. Depth \in 1 .. Depth
      BY <1>5
    <3>2. GroupsExact'
      BY GroupsAreNext
    <3>3. Top' = UnitGroups(Depth)' /\ UnitGroups(Depth)' \in T
      BY <3>2 DEF GroupsExact, Groups, Top
    <3> QED
      BY <3>3
  <2> HIDE DEF T
  <2>4. /\ t \in Seq(T) /\ Len(t) = Len(AbsGroups)
        /\ t[Len(AbsGroups)] = Top'
        /\ \A i \in 1 .. Len(AbsGroups) - 1 : t[i] = AbsGroups[i]
    <3>1. Len(AbsGroups) > 0
      BY <1>5, <2>1
    <3> QED
      BY <2>1, <2>3, <3>1, ReplaceLast
  <2>5. \A i \in 1 .. Depth : AbsGroups[i] = UnitGroups(i)
    BY <1>4 DEF PlacesExact
  <2>6. ASSUME NEW i \in 1 .. Len(s)
        PROVE  s[i] = t[i]
    <3>1. CASE i = Depth
      <4>1. s[Depth] = UnitGroups(Depth)'
        BY <1>3, <1>5, <2>2
      <4> QED
        BY <2>1, <2>3, <2>4, <3>1, <4>1
    <3>2. CASE i # Depth
      <4>1. i \in 1 .. Depth - 1 /\ i \in 1 .. Depth
        BY <1>5, <2>2, <3>2
      <4> QED
        BY <1>9, <2>1, <2>2, <2>4, <2>5, <4>1
    <3> QED
      BY <3>1, <3>2
  <2> HIDE DEF s, t
  <2>7. s = t
    BY <2>1, <2>2, <2>4, <2>6, SeqEqual
  <2> QED
    BY <2>7 DEF s, t
<1> QED
  BY <1>3, <1>7, <1>10

LEMMA LineIsNext ==
    ASSUME IInv, NEW l \in NextLines, Abs!LineStep(l)
    PROVE  Abs!Next
<1>1. l \in Abs!NextLines
  BY NextLineMaps
<1> QED
  BY <1>1 DEF Abs!Next

LEMMA SameLast ==
    ASSUME NEW T, NEW s \in Seq(T), s # <<>>
    PROVE  Append(Front(s), Last(s)) = s
<1> DEFINE n == Len(s)
           t == Append(Front(s), Last(s))
<1>1. n \in Nat /\ n > 0 /\ s[n] \in T /\ Last(s) = s[n]
  BY ElementOfSeq DEF Last
<1>2. /\ t \in Seq(T) /\ Len(t) = n /\ t[n] = Last(s)
      /\ \A i \in 1 .. n - 1 : t[i] = s[i]
  BY <1>1, ReplaceLast
<1>3. \A i \in 1 .. Len(t) : t[i] = s[i]
  BY <1>1, <1>2
<1> HIDE DEF n, t
<1>4. t = s
  BY <1>2, <1>3, SeqEqual DEF n
<1> QED
  BY <1>4 DEF t

\* A conditional line.
LEMMA ConditionalMaps ==
    ASSUME IInv, FlagsOK, phase = "run", ~ Borrowed, NEW l \in NextLines,
           Abs!Conditional(l),
           AbsFiles' = Append(Front(AbsFiles), Brief(Advanced)),
           AbsGroups' = Append(Front(AbsGroups), Abs!After(Top, l, Defined, TRUE)),
           Defined' = Defined, content' = content,
           Abs!IsNext(l) /\ Abs!AllOn(Front(Top)) => Abs!Continuable(Top),
           Abs!IsEnd(l) => Top # <<>>
    PROVE  Abs!Next
<1>1. Abs!OuterActive = TRUE
  BY ActiveMaps DEF FlagsOK, Abs!OuterActive
<1>2. Last(AbsGroups) = Top
  BY Innermost
<1>3. Abs!Advanced = Append(Front(AbsFiles), Brief(Advanced))
  BY AdvancedMaps
<1>4. Abs!ConditionalLine(l) <=>
        /\ Abs!Conditional(l)
        /\ Abs!IsNext(l) /\ Abs!OuterActive /\ Abs!AllOn(Front(Last(AbsGroups)))
           => Abs!Continuable(Last(AbsGroups))
        /\ Abs!IsEnd(l) => Last(AbsGroups) # <<>>
        /\ AbsGroups' = Append(Front(AbsGroups),
                               Abs!After(Last(AbsGroups), l, Defined, Abs!OuterActive))
        /\ AbsFiles' = Abs!Advanced
        /\ content' = content /\ Defined' = Defined
  BY FrontAndLast DEF Abs!ConditionalLine, AbsGroups, AbsFiles
<1>5. Abs!ConditionalLine(l)
  BY <1>1, <1>2, <1>3, <1>4
<1> QED
  BY <1>5, LineIsNext DEF Abs!LineStep

\* The groups stay.
LEMMA TopKept ==
    ASSUME IInv, phase = "run",
           AbsGroups' = Append(Front(AbsGroups), Top'), Top' = Top
    PROVE  AbsGroups' = AbsGroups
<1>1. AbsGroups \in Seq(Seq(Abs!Group)) /\ AbsGroups # <<>> /\ Last(AbsGroups) = Top
  BY Innermost
<1> QED
  BY <1>1, SameLast

\* A line that is left out.
LEMMA IgnoredMaps ==
    ASSUME IInv, FlagsOK, phase = "run", ~ Borrowed, NEW l \in NextLines,
           ~ Abs!Conditional(l), skipping,
           AbsFiles' = Append(Front(AbsFiles), Brief(Advanced)),
           AbsGroups' = AbsGroups,
           Defined' = Defined, content' = content
    PROVE  Abs!Next
<1>1. ~ Abs!Active
  BY ActiveMaps DEF FlagsOK
<1>2. AbsFiles' = Abs!Advanced
  BY AdvancedMaps
<1>3. Abs!IgnoredLine(l)
  BY <1>1, <1>2 DEF Abs!IgnoredLine, AbsGroups, AbsFiles
<1> QED
  BY <1>3, LineIsNext DEF Abs!LineStep

\* Text, #define, #undef and #include of a file that would have no effect.
LEMMA EffectiveMaps ==
    ASSUME IInv, FlagsOK, phase = "run", ~ Borrowed, NEW l \in NextLines, ~ skipping,
           AbsFiles' = Append(Front(AbsFiles), Brief(Advanced)),
           AbsGroups' = AbsGroups, content' = content,
           \/ l.op \in {"text", "line"} /\ Defined' = Defined
           \/ l.op = "define" /\ Defined' = Defined \cup {l.arg}
           \/ l.op = "undef" /\ Defined' = Defined \ {l.arg}
           \/ /\ l.op = "include" /\ Defined' = Defined
              /\ Abs!Inert(content[l.arg], Defined)
    PROVE  Abs!Next
<1>1. Abs!Active
  BY ActiveMaps DEF FlagsOK
<1>2. AbsFiles' = Abs!Advanced
  BY AdvancedMaps
<1>3. CASE l.op \in {"text", "line"} /\ Defined' = Defined
  <2>1. Abs!TextLine(l)
    BY <1>1, <1>2, <1>3 DEF Abs!TextLine, AbsGroups, AbsFiles
  <2> QED
    BY <2>1, LineIsNext DEF Abs!LineStep
<1>4. CASE \/ l.op = "define" /\ Defined' = Defined \cup {l.arg}
           \/ l.op = "undef" /\ Defined' = Defined \ {l.arg}
  <2>1. Abs!DefineLine(l)
    BY <1>1, <1>2, <1>4 DEF Abs!DefineLine, AbsGroups, AbsFiles
  <2> QED
    BY <2>1, LineIsNext DEF Abs!LineStep
<1>5. CASE /\ l.op = "include" /\ Defined' = Defined
           /\ Abs!Inert(content[l.arg], Defined)
  <2>1. Abs!IncludeLine(l)
    BY <1>1, <1>2, <1>5 DEF Abs!IncludeLine, AbsGroups, AbsFiles
  <2> QED
    BY <2>1, LineIsNext DEF Abs!LineStep
<1> QED
  BY <1>3, <1>4, <1>5

(***************************************************************************)
(* The groups of the current file after each conditional line.             *)
(***************************************************************************)

\* Where the part of ifdef_stack of the current file begins.
Start == Current.ifdef_stack_ptr

\* How many groups of the current file are on ifdef_stack.
Own == ifdefs - Start

\* The group of entry j of a stack, in a skipped region or not.
EntryOf(stack, skip, j) ==
    [st  |-> IF stack[j] % 2 = 1
             THEN IF skip /\ j = Len(stack) THEN "done" ELSE "on"
             ELSE IF stack[j] = 0 THEN "seek" ELSE "done",
     els |-> stack[j] > 1]

TopExact ==
    /\ Own \in Nat /\ Start \in Nat /\ a \in Nat /\ ifdefs \in Nat
    /\ Top \in Seq(Abs!Group) /\ Len(Top) = Own + a
    /\ \A j \in 1 .. Own : Top[j] = EntryOf(ifdef_stack, skipping, Start + j)
    /\ \A j \in Own + 1 .. Own + a : Top[j] = Nested

LEMMA TopIs == IInv /\ phase = "run" => TopExact
<1>1. ASSUME IInv, phase = "run"
      PROVE  TopExact
  <2>1. /\ ifdefs \in Nat /\ Start \in Nat /\ Start <= ifdefs /\ a \in Nat
    BY <1>1, Places DEF Start
  <2>2. Groups(Top, Start, ifdefs, a)
    BY <1>1, GroupsOfFile DEF Top, Start
  <2> QED
    BY <2>1, <2>2 DEF TopExact, Groups, Own, Entry, EntryOf, ifdefs
<1> QED
  BY <1>1

LEMMA TopIsNext == (IInv /\ phase = "run")' => TopExact'
  BY TopIs, PTL

LEMMA OneOpened ==
    ASSUME NEW m, NEW n, NEW d, m \in Nat, n \in Nat, d \in Nat, d = n - m
    PROVE  (n + 1) - m = d + 1 /\ m + d = n
  OBVIOUS

\* One more group, of any state, where all were selected.
LEMMA IfTop ==
    ASSUME CacheInv, IInv', NEW l \in NextLines, If(l), ~ Borrowed,
           Start' = Start, phase' = "run"
    PROVE  Top' = Abs!After(Top, l, Defined, TRUE)
<1> DEFINE c == IF Condition(l) THEN 1 ELSE 0
           e == [st |-> IF Abs!Holds(l, Defined) THEN "on" ELSE "seek", els |-> FALSE]
<1>1. phase = "run" /\ l \in Lines /\ l.arg \in Macros
  BY ReadLine, PreprocAssumption DEF CacheInv, If
<1>2. /\ ifdef_stack' = Append(ifdef_stack, c)
      /\ TestSkip(c) /\ ~ skipping /\ l.op \in {"if", "ifndef"}
  BY DEF If, Process
<1>3. TopExact /\ TopExact'
  BY <1>1, TopIs, TopIsNext DEF CacheInv
<1>4. a = 0 /\ a' = 0 /\ skipping' = (c % 2 = 0)
  BY <1>2 DEF CacheInv, FlagsOK, TestSkip
<1>5. c \in 0 .. 3 /\ (c = 0 \/ c = 1) /\ (c = 1 <=> Condition(l))
  OBVIOUS
<1>6. Condition(l) <=> Abs!Holds(l, Defined)
  BY <1>1, <1>2 DEF Condition, Abs!Holds, Defined
<1> HIDE DEF c
<1>7. /\ ifdefs' = ifdefs + 1
      /\ ifdef_stack'[ifdefs + 1] = c
      /\ \A i \in 1 .. ifdefs : ifdef_stack'[i] = ifdef_stack[i]
  <2>1. ifdef_stack \in Seq(0 .. 3)
    BY DEF CacheInv, IInv, TypeOK
  <2> QED
    BY <1>2, <1>5, <2>1, OneMore DEF ifdefs
<1>8. Own' = Own + 1 /\ Own \in Nat /\ Start \in Nat /\ ifdefs \in Nat /\ Start + Own = ifdefs
  <2>1. Own \in Nat /\ Start \in Nat /\ ifdefs \in Nat
    BY <1>3 DEF TopExact
  <2>2. Own = ifdefs - Start /\ Own' = (ifdefs + 1) - Start
    BY <1>7 DEF Own
  <2> QED
    BY <2>1, <2>2, OneOpened
<1>9. Abs!After(Top, l, Defined, TRUE) = Append(Top, e)
  <2>1. Abs!AllOn(Top)
    BY <1>1, <1>2, <1>4, OuterSelected DEF CacheInv
  <2>2. Abs!IsOpen(l)
    BY <1>2 DEF Abs!IsOpen
  <2>3. Abs!Opened(Top, l, Defined, TRUE) = Append(Top, e)
    BY <2>1 DEF Abs!Opened
  <2>4. Abs!After(Top, l, Defined, TRUE) = Abs!Opened(Top, l, Defined, TRUE)
    BY <1>2, <2>2 DEF Abs!After, Abs!IsOpen, Abs!IsNext, Abs!IsEnd
  <2> HIDE DEF e
  <2> QED
    BY <2>3, <2>4
<1>10. EntryOf(ifdef_stack', skipping', ifdefs + 1) = e
  <2>1. CASE c = 1
    <3>1. c % 2 = 1 /\ (c > 1) = FALSE /\ ~ (c % 2 = 0)
      BY <2>1
    <3>2. ~ skipping'
      BY <1>4, <3>1, Zenon
    <3>5. Abs!Holds(l, Defined)
      BY <1>5, <1>6, <2>1
    <3>3. e = [st |-> "on", els |-> FALSE]
      BY <3>5
    <3>4. EntryOf(ifdef_stack', skipping', ifdefs + 1) = [st |-> "on", els |-> FALSE]
      BY <1>7, <3>1, <3>2 DEF EntryOf
    <3> HIDE DEF e
    <3> QED
      BY <3>1, <3>3, <3>4
  <2>2. CASE c = 0
    <3>1. c % 2 # 1 /\ (c > 1) = FALSE
      BY <2>2
    <3>2. ~ Abs!Holds(l, Defined)
      BY <1>5, <1>6, <2>2
    <3>3. e = [st |-> "seek", els |-> FALSE]
      BY <3>2
    <3>4. EntryOf(ifdef_stack', skipping', ifdefs + 1) = [st |-> "seek", els |-> FALSE]
      BY <1>7, <2>2, <3>1 DEF EntryOf
    <3> HIDE DEF e
    <3> QED
      BY <3>1, <3>3, <3>4
  <2> QED
    BY <1>5, <2>1, <2>2
<1>11. e \in Abs!Group
  BY DEF Abs!Group
<1> HIDE DEF e
<1>12. /\ Top \in Seq(Abs!Group) /\ Len(Top) = Own
       /\ \A j \in 1 .. Own : Top[j] = EntryOf(ifdef_stack, skipping, Start + j)
  BY <1>3, <1>4, <1>8 DEF TopExact
<1>13. /\ Top' \in Seq(Abs!Group) /\ Len(Top') = Own + 1
       /\ \A j \in 1 .. Own + 1 : Top'[j] = EntryOf(ifdef_stack', skipping', Start + j)
  BY <1>3, <1>4, <1>8 DEF TopExact
<1>14. /\ Append(Top, e) \in Seq(Abs!Group) /\ Len(Append(Top, e)) = Own + 1
       /\ Append(Top, e)[Own + 1] = e
       /\ \A j \in 1 .. Own : Append(Top, e)[j] = Top[j]
  BY <1>11, <1>12, OneMore
<1>15. ASSUME NEW j \in 1 .. Len(Top')
       PROVE  Top'[j] = Append(Top, e)[j]
  <2>1. CASE j = Own + 1
    <3>1. Start + j = ifdefs + 1
      BY <1>8, <2>1
    <3> QED
      BY <1>8, <1>10, <1>13, <1>14, <2>1, <3>1
  <2>2. CASE j # Own + 1
    <3>1. j \in 1 .. Own /\ j \in 1 .. Own + 1 /\ Start + j \in 1 .. ifdefs
          /\ Start + j # ifdefs + 1
      BY <1>8, <1>13, <2>2
    <3>2. EntryOf(ifdef_stack', skipping', Start + j) = EntryOf(ifdef_stack, skipping, Start + j)
      <4>1. ifdef_stack'[Start + j] = ifdef_stack[Start + j] /\ Start + j # Len(ifdef_stack')
        BY <1>7, <3>1 DEF ifdefs
      <4> QED
        BY <1>2, <4>1 DEF EntryOf
    <3> QED
      BY <1>12, <1>13, <1>14, <3>1, <3>2
  <2> QED
    BY <2>1, <2>2
<1> QED
  BY <1>9, <1>13, <1>14, <1>15, SeqEqual

\* The last group on the stack is replaced, or the region around its lines
\* changes.
LEMMA ReplacedTop ==
    ASSUME IInv, IInv', phase = "run", phase' = "run", Start' = Start, ~ Borrowed,
           Own > 0, a = 0, a' = 0, ifdefs' = ifdefs,
           \A i \in 1 .. ifdefs - 1 : ifdef_stack'[i] = ifdef_stack[i]
    PROVE  /\ Top' = Append(Front(Top), EntryOf(ifdef_stack', skipping', ifdefs))
           /\ Top # <<>> /\ Last(Top) = EntryOf(ifdef_stack, skipping, ifdefs)
           /\ Abs!AllOn(Front(Top))
<1> DEFINE e == EntryOf(ifdef_stack', skipping', ifdefs)
           t == Append(Front(Top), e)
<1>1. TopExact /\ TopExact'
  BY TopIs, TopIsNext
<1>2. /\ Own' = Own /\ Own \in Nat /\ Start \in Nat /\ ifdefs \in Nat
      /\ Start + Own = ifdefs
  BY <1>1 DEF TopExact, Own
<1>3. /\ Top \in Seq(Abs!Group) /\ Len(Top) = Own
      /\ \A j \in 1 .. Own : Top[j] = EntryOf(ifdef_stack, skipping, Start + j)
  BY <1>1, <1>2 DEF TopExact
<1>4. /\ Top' \in Seq(Abs!Group) /\ Len(Top') = Own
      /\ \A j \in 1 .. Own : Top'[j] = EntryOf(ifdef_stack', skipping', Start + j)
  BY <1>1, <1>2 DEF TopExact
<1>5. Own \in 1 .. Own
  BY <1>2
<1>6. Top'[Own] = e /\ Top[Own] = EntryOf(ifdef_stack, skipping, ifdefs)
  BY <1>2, <1>3, <1>4, <1>5
<1>7. e \in Abs!Group
  BY <1>4, <1>5, <1>6, ElementOfSeq
<1> HIDE DEF e
<1>8. /\ t \in Seq(Abs!Group) /\ Len(t) = Own /\ t[Own] = e
      /\ \A j \in 1 .. Own - 1 : t[j] = Top[j]
  <2>1. Len(Top) > 0
    BY <1>3
  <2>2. /\ t \in Seq(Abs!Group) /\ Len(t) = Len(Top) /\ t[Len(Top)] = e
        /\ \A j \in 1 .. Len(Top) - 1 : t[j] = Top[j]
    BY <1>3, <1>7, <2>1, ReplaceLast
  <2> HIDE DEF t
  <2> QED
    BY <1>3, <2>2
<1>9. /\ Front(Top) \in Seq(Abs!Group) /\ Len(Front(Top)) = Own - 1
      /\ \A j \in 1 .. Own - 1 : Front(Top)[j] = Top[j]
  BY <1>2, <1>3, FrontOf
<1>10. ASSUME NEW j \in 1 .. Len(Top')
       PROVE  Top'[j] = t[j]
  <2>1. CASE j = Own
    BY <1>6, <1>8, <2>1
  <2>2. CASE j # Own
    <3>1. /\ j \in 1 .. Own /\ j \in 1 .. Own - 1
          /\ Start + j \in 1 .. ifdefs - 1 /\ Start + j # ifdefs
      BY <1>2, <1>4, <2>2
    <3>2. ifdef_stack'[Start + j] = ifdef_stack[Start + j]
      BY <3>1
    <3>3. Start + j # Len(ifdef_stack) /\ Start + j # Len(ifdef_stack')
      BY <3>1 DEF ifdefs
    <3>4. EntryOf(ifdef_stack', skipping', Start + j) = EntryOf(ifdef_stack, skipping, Start + j)
      BY <3>2, <3>3 DEF EntryOf
    <3> QED
      BY <1>3, <1>4, <1>8, <3>1, <3>4
  <2> QED
    BY <2>1, <2>2
<1>11. Top' = t
  <2> HIDE DEF t
  <2> QED
    BY <1>4, <1>8, <1>10, SeqEqual
<1>12. Abs!AllOn(Front(Top))
  <2>1. \A j \in 1 .. Own : Top[j].st = "on" \/ (skipping /\ j = Own)
    BY TopGroups DEF Own, Start
  <2>2. \A j \in 1 .. Own - 1 : j \in 1 .. Own /\ j # Own
    BY <1>2
  <2> QED
    BY <1>9, <2>1, <2>2 DEF Abs!AllOn
<1>13. Top # <<>>
  BY <1>2, <1>3
<1> QED
  BY <1>3, <1>6, <1>11, <1>12, <1>13 DEF Last, e

\* The next branch of group g.
Branch(g, l) ==
    [st  |-> IF g.st = "seek" /\ Abs!Holds(l, Defined) THEN "on"
             ELSE IF g.st = "on" THEN "done" ELSE g.st,
     els |-> l.op = "else"]

LEMMA Continues ==
    ASSUME NEW T, NEW l, Abs!IsNext(l), T # <<>>, Abs!AllOn(Front(T)), ~ Last(T).els
    PROVE  /\ Abs!After(T, l, Defined, TRUE) = Append(Front(T), Branch(Last(T), l))
           /\ Abs!Continuable(T)
<1>1. Abs!Continuable(T)
  BY FrontAndLast DEF Abs!Continuable
<1>2. Abs!After(T, l, Defined, TRUE) = Abs!Continued(T, l, Defined, TRUE)
  BY <1>1 DEF Abs!After, Abs!IsOpen, Abs!IsNext, Abs!IsEnd
<1>3. Abs!Continued(T, l, Defined, TRUE) = Append(Front(T), Branch(Last(T), l))
  BY FrontAndLast DEF Abs!Continued, Branch
<1> QED
  BY <1>1, <1>2, <1>3

LEMMA Branches ==
    ASSUME NEW g, NEW l
    PROVE  /\ g.st = "seek" /\ Abs!Holds(l, Defined) =>
                  Branch(g, l) = [st |-> "on", els |-> l.op = "else"]
           /\ g.st = "seek" /\ ~ Abs!Holds(l, Defined) =>
                  Branch(g, l) = [st |-> "seek", els |-> l.op = "else"]
           /\ g.st \in {"on", "done"} =>
                  Branch(g, l) = [st |-> "done", els |-> l.op = "else"]
  BY DEF Branch

\* The group of a stack that ends with x.
GroupOf(x, skip) ==
    [st  |-> IF x % 2 = 1 THEN IF skip THEN "done" ELSE "on"
             ELSE IF x = 0 THEN "seek" ELSE "done",
     els |-> x > 1]

LEMMA GroupValues ==
    ASSUME NEW skip \in BOOLEAN
    PROVE  /\ GroupOf(0, skip) = [st |-> "seek", els |-> FALSE]
           /\ GroupOf(1, skip) = [st |-> IF skip THEN "done" ELSE "on", els |-> FALSE]
           /\ GroupOf(2, skip) = [st |-> "done", els |-> TRUE]
           /\ GroupOf(3, skip) = [st |-> IF skip THEN "done" ELSE "on", els |-> TRUE]
<1>1. /\ 0 % 2 # 1 /\ (0 > 1) = FALSE
      /\ 1 % 2 = 1 /\ (1 > 1) = FALSE
      /\ 2 % 2 # 1 /\ (2 > 1) = TRUE /\ 2 # 0
      /\ 3 % 2 = 1 /\ (3 > 1) = TRUE
  OBVIOUS
<1> QED
  BY <1>1 DEF GroupOf

\* What holds of the stack where #else or #elif continues a group: the group
\* is one of this file.
LEMMA ContinuedGroup ==
    ASSUME CacheInv, IInv', NEW l \in NextLines, Else(l) \/ Elif(l),
           ~ Borrowed, ~ Borrowed', Start' = Start, phase' = "run",
           NEW x, x = Last(ifdef_stack), NEW y,
           \/ ifdef_stack' = Append(Front(ifdef_stack), y) /\ y \in 0 .. 3
           \/ ifdef_stack' = ifdef_stack /\ y = x,
           skipping' \/ x = 0, a' = 0
    PROVE  /\ x \in 0 .. 3 /\ Own > 0
           /\ Top' = Append(Front(Top), GroupOf(y, skipping'))
           /\ Top # <<>> /\ Last(Top) = GroupOf(x, skipping)
           /\ Abs!AllOn(Front(Top))
<1>1. phase = "run" /\ IInv
  BY ReadLine DEF CacheInv
<1>2. ifdefs # 0 /\ Process(l)
  BY DEF Else, Elif
<1>3. a = 0
  BY <1>2 DEF CacheInv, FlagsOK, Process
<1>4. /\ x \in 0 .. 3 /\ (x % 2 = 0 => skipping)
  BY <1>1, <1>2, InnermostGroup
<1>5. ifdef_stack \in Seq(0 .. 3) /\ ifdefs \in Nat /\ ifdefs > 0
  BY <1>1, <1>2, LenProperties DEF IInv, TypeOK, ifdefs
<1>6. /\ ifdefs' = ifdefs /\ ifdef_stack'[ifdefs] = y
      /\ \A i \in 1 .. ifdefs - 1 : ifdef_stack'[i] = ifdef_stack[i]
  <2>1. CASE ifdef_stack' = Append(Front(ifdef_stack), y) /\ y \in 0 .. 3
    BY <1>5, <2>1, ReplaceLast DEF ifdefs
  <2>2. CASE ifdef_stack' = ifdef_stack /\ y = x
    BY <2>2 DEF ifdefs, Last
  <2> QED
    BY <2>1, <2>2
<1>7. Own \in Nat /\ Start \in Nat /\ Start <= ifdefs
  BY <1>1, Places DEF Own, Start
<1>8. Own > 0
  <2>1. SUFFICES ASSUME ifdefs = Start PROVE FALSE
    BY <1>5, <1>7 DEF Own
  <2>2. ~ skipping
    BY <1>1, <2>1 DEF Borrowed, Start
  <2>3. skipping'
    BY <1>4, <2>2
  <2>4. ifdefs' = Start'
    BY <1>6, <2>1
  <2> QED
    BY <2>3, <2>4 DEF Borrowed, Start
<1>9. /\ Top' = Append(Front(Top), EntryOf(ifdef_stack', skipping', ifdefs))
      /\ Top # <<>> /\ Last(Top) = EntryOf(ifdef_stack, skipping, ifdefs)
      /\ Abs!AllOn(Front(Top))
  BY <1>1, <1>3, <1>6, <1>8, ReplacedTop
<1>10. EntryOf(ifdef_stack, skipping, ifdefs) = GroupOf(x, skipping)
  BY DEF EntryOf, GroupOf, Last, ifdefs
<1>11. EntryOf(ifdef_stack', skipping', ifdefs) = GroupOf(y, skipping')
  <2>1. Len(ifdef_stack') = ifdefs
    BY <1>6 DEF ifdefs
  <2> QED
    BY <1>6, <2>1 DEF EntryOf, GroupOf
<1> QED
  BY <1>4, <1>8, <1>9, <1>10, <1>11

\* #else: the other branch, when none was selected.
LEMMA ElseTop ==
    ASSUME CacheInv, IInv', NEW l \in NextLines, Else(l),
           ~ Borrowed, ~ Borrowed', Start' = Start, phase' = "run"
    PROVE  /\ Top' = Abs!After(Top, l, Defined, TRUE)
           /\ Abs!Continuable(Top) /\ Own > 0
<1> DEFINE x == Last(ifdef_stack)
           c == 3 - x
<1>1. /\ TestElse(c) /\ Last(ifdef_stack) < 2 /\ ifdefs # 0 /\ l.op = "else"
  BY DEF Else, Process
<1>2. phase = "run" /\ IInv
  BY ReadLine DEF CacheInv
<1>3. x = 0 \/ x = 1
  BY <1>1, <1>2, InnermostGroup
<1>4. c \in 0 .. 3 /\ (x = 0 => c = 3) /\ (x = 1 => c = 2)
  BY <1>3
<1> HIDE DEF c, x
<1>5. /\ ifdef_stack' = Append(Front(ifdef_stack), c)
      /\ skipping' = (c % 2 = 0) /\ a' = 0
  BY <1>1 DEF TestElse, TestSkip
<1>6. x = 0 => ~ skipping'
  <2>1. x = 0 => ~ (c % 2 = 0)
    BY <1>4
  <2> QED
    BY <1>5, <2>1, Zenon
<1>7. x = 1 => skipping'
  <2>1. x = 1 => c % 2 = 0
    BY <1>4
  <2> QED
    BY <1>5, <2>1, Zenon
<1>8. /\ Own > 0
      /\ Top' = Append(Front(Top), GroupOf(c, skipping'))
      /\ Top # <<>> /\ Last(Top) = GroupOf(x, skipping)
      /\ Abs!AllOn(Front(Top))
  <2>1. x = Last(ifdef_stack)
    BY DEF x
  <2> QED
    BY <1>2, <1>3, <1>4, <1>5, <1>7, <2>1, ContinuedGroup
<1>9. Abs!IsNext(l) /\ Abs!Holds(l, Defined)
  BY <1>1 DEF Abs!IsNext, Abs!Holds
<1>10. skipping \in BOOLEAN /\ skipping' \in BOOLEAN
  BY <1>2 DEF IInv, TypeOK
<1>12. (l.op = "else") = TRUE
  BY <1>1
<1>11. /\ ~ Last(Top).els
       /\ GroupOf(c, skipping') = Branch(Last(Top), l)
  <2>1. CASE x = 0
    <3>1. Last(Top) = [st |-> "seek", els |-> FALSE]
      BY <1>8, <1>10, <2>1, GroupValues
    <3>2. GroupOf(c, skipping') = [st |-> "on", els |-> TRUE]
      BY <1>4, <1>6, <1>10, <2>1, GroupValues
    <3>3. Branch(Last(Top), l) = [st |-> "on", els |-> l.op = "else"]
      BY <1>9, <3>1, Branches
    <3>4. Branch(Last(Top), l) = GroupOf(c, skipping')
      BY <1>12, <3>2, <3>3, Zenon
    <3>5. ~ Last(Top).els
      BY <3>1
    <3> QED
      BY <3>4, <3>5
  <2>2. CASE x = 1
    <3>1. Last(Top) = [st |-> IF skipping THEN "done" ELSE "on", els |-> FALSE]
      BY <1>8, <1>10, <2>2, GroupValues
    <3>2. GroupOf(c, skipping') = [st |-> "done", els |-> TRUE]
      BY <1>4, <1>10, <2>2, GroupValues
    <3>3. Branch(Last(Top), l) = [st |-> "done", els |-> l.op = "else"]
      BY <3>1, Branches
    <3>4. Branch(Last(Top), l) = GroupOf(c, skipping')
      BY <1>12, <3>2, <3>3, Zenon
    <3>5. ~ Last(Top).els
      BY <3>1
    <3> QED
      BY <3>4, <3>5
  <2> QED
    BY <1>3, <2>1, <2>2
<1> QED
  BY <1>8, <1>9, <1>11, Continues

\* #elif: the next branch, whose expression is evaluated when none was
\* selected.
LEMMA ElifTop ==
    ASSUME CacheInv, IInv', NEW l \in NextLines, Elif(l),
           ~ Borrowed, ~ Borrowed', Start' = Start, phase' = "run"
    PROVE  /\ Top' = Abs!After(Top, l, Defined, TRUE)
           /\ Abs!Continuable(Top) /\ Own > 0
<1> DEFINE x == Last(ifdef_stack)
           c == IF Condition(l) THEN 1 ELSE 0
<1>1. /\ l.op = "elif" /\ ifdefs # 0
      /\ \/ x = 1 /\ skipping' = TRUE /\ a' = 0 /\ UNCHANGED ifdef_stack
         \/ x = 0 /\ TestElse(c)
  BY DEF Elif, Process
<1>2. phase = "run" /\ IInv /\ l \in Lines /\ l.arg \in Macros
  <2>1. phase = "run" /\ IInv /\ l \in Lines
    BY ReadLine DEF CacheInv
  <2>2. l.op = "elif"
    BY <1>1
  <2>3. l.arg \in Macros
    BY <2>1, <2>2, PreprocAssumption
  <2> QED
    BY <2>1, <2>3
<1>3. skipping \in BOOLEAN /\ skipping' \in BOOLEAN
  BY <1>2 DEF IInv, TypeOK
<1>4. Condition(l) <=> Abs!Holds(l, Defined)
  BY <1>1, <1>2 DEF Condition, Abs!Holds, Defined
<1>5. c \in 0 .. 3 /\ (Condition(l) => c = 1) /\ (~ Condition(l) => c = 0)
  OBVIOUS
<1>6. x = Last(ifdef_stack)
  OBVIOUS
<1>7. (l.op = "else") = FALSE /\ Abs!IsNext(l)
  BY <1>1 DEF Abs!IsNext
<1> HIDE DEF x, c
<1>8. CASE x = 1 /\ skipping' = TRUE /\ a' = 0 /\ UNCHANGED ifdef_stack
  <2>1. /\ Own > 0
        /\ Top' = Append(Front(Top), GroupOf(x, skipping'))
        /\ Top # <<>> /\ Last(Top) = GroupOf(x, skipping)
        /\ Abs!AllOn(Front(Top))
    BY <1>2, <1>6, <1>8, ContinuedGroup
  <2>2. Last(Top) = [st |-> IF skipping THEN "done" ELSE "on", els |-> FALSE]
    BY <1>3, <1>8, <2>1, GroupValues
  <2>3. GroupOf(x, skipping') = [st |-> "done", els |-> FALSE]
    BY <1>8, GroupValues
  <2>4. Branch(Last(Top), l) = [st |-> "done", els |-> l.op = "else"]
    BY <2>2, Branches
  <2>5. Branch(Last(Top), l) = GroupOf(x, skipping')
    BY <1>7, <2>3, <2>4, Zenon
  <2>6. ~ Last(Top).els
    BY <2>2
  <2> QED
    BY <1>7, <2>1, <2>5, <2>6, Continues
<1>9. CASE x = 0 /\ TestElse(c)
  <2>1. ifdef_stack' = Append(Front(ifdef_stack), c) /\ skipping' = (c % 2 = 0) /\ a' = 0
    BY <1>9 DEF TestElse, TestSkip
  <2>2. /\ Own > 0
        /\ Top' = Append(Front(Top), GroupOf(c, skipping'))
        /\ Top # <<>> /\ Last(Top) = GroupOf(x, skipping)
        /\ Abs!AllOn(Front(Top))
    BY <1>2, <1>5, <1>6, <1>9, <2>1, ContinuedGroup
  <2>3. Last(Top) = [st |-> "seek", els |-> FALSE]
    BY <1>3, <1>9, <2>2, GroupValues
  <2>4. ASSUME Condition(l)
        PROVE  Branch(Last(Top), l) = GroupOf(c, skipping')
    <3>1. c = 1 /\ ~ (c % 2 = 0)
      BY <1>5, <2>4
    <3>2. ~ skipping'
      BY <2>1, <3>1, Zenon
    <3>3. GroupOf(c, skipping') = [st |-> "on", els |-> FALSE]
      BY <1>3, <3>1, <3>2, GroupValues
    <3>4. Branch(Last(Top), l) = [st |-> "on", els |-> l.op = "else"]
      BY <1>4, <2>3, <2>4, Branches
    <3> QED
      BY <1>7, <3>3, <3>4, Zenon
  <2>5. ASSUME ~ Condition(l)
        PROVE  Branch(Last(Top), l) = GroupOf(c, skipping')
    <3>1. GroupOf(c, skipping') = [st |-> "seek", els |-> FALSE]
      BY <1>3, <1>5, <2>5, GroupValues
    <3>2. Branch(Last(Top), l) = [st |-> "seek", els |-> l.op = "else"]
      BY <1>4, <2>3, <2>5, Branches
    <3> QED
      BY <1>7, <3>1, <3>2, Zenon
  <2>6. Branch(Last(Top), l) = GroupOf(c, skipping')
    BY <2>4, <2>5
  <2>7. ~ Last(Top).els
    BY <2>3
  <2> QED
    BY <1>7, <2>2, <2>6, <2>7, Continues
<1> QED
  BY <1>1, <1>8, <1>9

\* #endif: the innermost group ends.
LEMMA EndifTop ==
    ASSUME CacheInv, IInv', NEW l \in NextLines, Endif(l),
           Start' = Start, phase' = "run"
    PROVE  /\ Top' = Abs!After(Top, l, Defined, TRUE)
           /\ Top # <<>> /\ Own > 0
<1>1. /\ l.op = "endif" /\ ifdefs > Start /\ Process(l)
      /\ ifdef_stack' = Front(ifdef_stack) /\ a' = 0
  BY DEF Endif, Start, Process
<1>2. phase = "run" /\ IInv
  BY ReadLine DEF CacheInv
<1>3. a = 0
  BY <1>1 DEF CacheInv, FlagsOK, Process
<1>4. TopExact /\ TopExact'
  BY <1>2, TopIs, TopIsNext
<1>5. ifdef_stack \in Seq(0 .. 3) /\ ifdefs \in Nat /\ Start \in Nat
  BY <1>2, <1>4 DEF IInv, TypeOK, TopExact
<1>6. /\ ifdefs' = ifdefs - 1
      /\ \A i \in 1 .. ifdefs - 1 : ifdef_stack'[i] = ifdef_stack[i]
  <2>1. Len(ifdef_stack) > 0
    BY <1>1, <1>5 DEF ifdefs
  <2> QED
    BY <1>1, <1>5, <2>1, FrontOf DEF ifdefs
<1>7. Own' = Own - 1 /\ Own \in Nat /\ Own > 0 /\ Start + Own = ifdefs
  BY <1>1, <1>5, <1>6 DEF Own
<1>8. /\ Top \in Seq(Abs!Group) /\ Len(Top) = Own
      /\ \A j \in 1 .. Own : Top[j] = EntryOf(ifdef_stack, skipping, Start + j)
  BY <1>3, <1>4, <1>7 DEF TopExact
<1>9. /\ Top' \in Seq(Abs!Group) /\ Len(Top') = Own - 1
      /\ \A j \in 1 .. Own - 1 : Top'[j] = EntryOf(ifdef_stack', skipping', Start + j)
  BY <1>1, <1>4, <1>7 DEF TopExact
<1>10. /\ Front(Top) \in Seq(Abs!Group) /\ Len(Front(Top)) = Own - 1
       /\ \A j \in 1 .. Own - 1 : Front(Top)[j] = Top[j]
  <2>1. Len(Top) > 0
    BY <1>7, <1>8
  <2>2. /\ Front(Top) \in Seq(Abs!Group) /\ Len(Front(Top)) = Len(Top) - 1
        /\ \A j \in 1 .. Len(Top) - 1 : Front(Top)[j] = Top[j]
    BY <1>8, <2>1, FrontOf
  <2> QED
    BY <1>8, <2>2
<1>11. ASSUME NEW j \in 1 .. Len(Top')
       PROVE  Top'[j] = Front(Top)[j]
  <2>1. /\ j \in 1 .. Own /\ j \in 1 .. Own - 1
        /\ Start + j \in 1 .. ifdefs - 1 /\ Start + j # ifdefs
    BY <1>5, <1>7, <1>9
  <2>2. ifdef_stack'[Start + j] = ifdef_stack[Start + j]
    BY <1>6, <2>1
  <2>3. Start + j # Len(ifdef_stack)
    BY <2>1 DEF ifdefs
  <2>4. ~ skipping'
    BY DEF Endif
  <2>5. EntryOf(ifdef_stack', skipping', Start + j) = EntryOf(ifdef_stack, skipping, Start + j)
    BY <2>2, <2>3, <2>4 DEF EntryOf
  <2> QED
    BY <1>8, <1>9, <1>10, <2>1, <2>5
<1>12. Top' = Front(Top)
  BY <1>9, <1>10, <1>11, SeqEqual
<1>13. Top # <<>>
  BY <1>7, <1>8
<1>14. Abs!After(Top, l, Defined, TRUE) = Front(Top)
  BY <1>1, <1>13, FrontAndLast DEF Abs!After, Abs!IsOpen, Abs!IsNext, Abs!IsEnd
<1> QED
  BY <1>7, <1>12, <1>13, <1>14

LEMMA SplitRange ==
    ASSUME NEW m \in Nat, NEW n \in Nat, NEW j \in 1 .. m + n
    PROVE  j \in 1 .. m \/ j \in m + 1 .. m + n
  OBVIOUS

\* A line of a skipped region: groups nest there, and none is selected.
LEMMA SkipTop ==
    ASSUME CacheInv, IInv', NEW l \in NextLines, SkipLine(l), ~ Borrowed,
           Start' = Start, phase' = "run"
    PROVE  /\ Abs!Conditional(l) => Top' = Abs!After(Top, l, Defined, TRUE)
           /\ ~ Abs!Conditional(l) => Top' = Top
           /\ ~ (Abs!IsNext(l) /\ Abs!AllOn(Front(Top)))
           /\ Top # <<>>
<1>1. /\ skipping /\ UNCHANGED <<ifdef_stack, skipping>>
      /\ a = 0 => l.op \notin {"else", "elif", "endif"}
      /\ a' = CASE l.op \in {"if", "ifndef"} -> a + 1
                [] l.op = "endif"            -> a - 1
                [] OTHER                     -> a
  BY DEF SkipLine
<1>2. phase = "run" /\ IInv
  BY ReadLine DEF CacheInv
<1>3. TopExact /\ TopExact'
  BY <1>2, TopIs, TopIsNext
<1>4. /\ ifdefs' = ifdefs /\ Own' = Own
      /\ Own \in Nat /\ a \in Nat /\ a' \in Nat
      /\ Top \in Seq(Abs!Group) /\ Len(Top) = Own + a
      /\ Top' \in Seq(Abs!Group) /\ Len(Top') = Own + a'
  <2>1. ifdefs' = ifdefs
    BY <1>1 DEF ifdefs
  <2>2. Own' = Own
    BY <2>1 DEF Own
  <2> QED
    BY <1>3, <2>1, <2>2 DEF TopExact
<1>5. \A j \in 1 .. Own : Top'[j] = Top[j]
  <2>1. \A j \in 1 .. Own : Top[j] = EntryOf(ifdef_stack, skipping, Start + j)
    BY <1>3 DEF TopExact
  <2>2. \A j \in 1 .. Own : Top'[j] = EntryOf(ifdef_stack', skipping', Start + j)
    BY <1>3, <1>4 DEF TopExact
  <2>3. ifdef_stack' = ifdef_stack /\ skipping' = skipping
    BY <1>1
  <2> QED
    BY <2>1, <2>2, <2>3
<1>6. \A j \in Own + 1 .. Own + a : Top[j] = Nested
  BY <1>3 DEF TopExact
<1>7. \A j \in Own + 1 .. Own + a' : Top'[j] = Nested
  BY <1>3, <1>4 DEF TopExact
<1>8. Own > 0 /\ Top[Own].st # "on"
  BY <1>1, <1>2, TopGroups DEF Own, Start
<1>9. ~ Abs!AllOn(Top) /\ Top # <<>>
  BY <1>1, <1>2, <1>4, <1>8, OuterSelected
<1>10. Nested \in Abs!Group
  BY EntryType
<1>11. CASE l.op \in {"if", "ifndef"}
  <2>1. a' = a + 1
    BY <1>1, <1>11
  <2>2. /\ Append(Top, Nested) \in Seq(Abs!Group) /\ Len(Append(Top, Nested)) = Len(Top) + 1
        /\ Append(Top, Nested)[Len(Top) + 1] = Nested
        /\ \A j \in 1 .. Len(Top) : Append(Top, Nested)[j] = Top[j]
    BY <1>4, <1>10, OneMore
  <2>3. ASSUME NEW j \in 1 .. Len(Top')
        PROVE  Top'[j] = Append(Top, Nested)[j]
    <3>1. CASE j \in 1 .. Own
      <4>1. j \in 1 .. Len(Top)
        BY <1>4, <3>1
      <4> QED
        BY <1>5, <2>2, <3>1, <4>1
    <3>2. CASE j \in Own + 1 .. Own + a
      <4>1. j \in Own + 1 .. Own + a' /\ j \in 1 .. Len(Top)
        BY <1>4, <2>1, <3>2
      <4> QED
        BY <1>6, <1>7, <2>2, <3>2, <4>1
    <3>3. CASE j = Own + a + 1
      <4>1. j \in Own + 1 .. Own + a' /\ j = Len(Top) + 1
        BY <1>4, <2>1, <3>3
      <4> QED
        BY <1>7, <2>2, <4>1
    <3>4. j \in 1 .. Own \/ j \in Own + 1 .. Own + a \/ j = Own + a + 1
      BY <1>4, <2>1
    <3> QED
      BY <3>1, <3>2, <3>3, <3>4
  <2>4. Len(Top') = Len(Append(Top, Nested))
    BY <1>4, <2>1, <2>2
  <2>5. Top' = Append(Top, Nested)
    BY <1>4, <2>2, <2>3, <2>4, SeqEqual
  <2>6. Abs!After(Top, l, Defined, TRUE) = Append(Top, Nested)
    BY <1>9, <1>11 DEF Abs!After, Abs!IsOpen, Abs!IsNext, Abs!IsEnd, Abs!Opened, Nested
  <2>7. Abs!Conditional(l) /\ ~ Abs!IsNext(l)
    BY <1>11 DEF Abs!Conditional, Abs!IsOpen, Abs!IsNext
  <2> QED
    BY <1>9, <2>5, <2>6, <2>7
<1>12. CASE l.op = "endif"
  <2>1. a' = a - 1 /\ a > 0
    BY <1>1, <1>4, <1>12
  <2>2. /\ Front(Top) \in Seq(Abs!Group) /\ Len(Front(Top)) = Len(Top) - 1
        /\ \A j \in 1 .. Len(Top) - 1 : Front(Top)[j] = Top[j]
    <3>1. Len(Top) > 0
      BY <1>4, <2>1
    <3> QED
      BY <1>4, <3>1, FrontOf
  <2>3. ASSUME NEW j \in 1 .. Len(Top')
        PROVE  Top'[j] = Front(Top)[j]
    <3>1. j \in 1 .. Len(Top) - 1
      BY <1>4, <2>1
    <3>2. CASE j \in 1 .. Own
      BY <1>5, <2>2, <3>1, <3>2
    <3>3. CASE j \in Own + 1 .. Own + a'
      <4>1. j \in Own + 1 .. Own + a
        BY <1>4, <2>1, <3>3
      <4> QED
        BY <1>6, <1>7, <2>2, <3>1, <3>3, <4>1
    <3>4. j \in 1 .. Own \/ j \in Own + 1 .. Own + a'
      <4>1. Len(Top') = Own + a' /\ Own \in Nat /\ a' \in Nat
        BY <1>4
      <4>2. j \in 1 .. Own + a'
        BY <4>1
      <4> QED
        BY <4>1, <4>2, SplitRange
    <3> QED
      BY <3>2, <3>3, <3>4
  <2>4. Len(Top') = Len(Front(Top))
    BY <1>4, <2>1, <2>2
  <2>5. Top' = Front(Top)
    BY <1>4, <2>2, <2>3, <2>4, SeqEqual
  <2>6. Abs!After(Top, l, Defined, TRUE) = Front(Top)
    BY <1>9, <1>12, FrontAndLast DEF Abs!After, Abs!IsOpen, Abs!IsNext, Abs!IsEnd
  <2>7. Abs!Conditional(l) /\ ~ Abs!IsNext(l)
    BY <1>12 DEF Abs!Conditional, Abs!IsEnd, Abs!IsNext
  <2> QED
    BY <1>9, <2>5, <2>6, <2>7
<1>13. CASE l.op \notin {"if", "ifndef", "endif"}
  <2>1. a' = a
    BY <1>1, <1>13
  <2>2. ASSUME NEW j \in 1 .. Len(Top')
        PROVE  Top'[j] = Top[j]
    <3>1. j \in 1 .. Own \/ (j \in Own + 1 .. Own + a /\ j \in Own + 1 .. Own + a')
      BY <1>4, <2>1
    <3> QED
      BY <1>5, <1>6, <1>7, <3>1
  <2>3. Top' = Top
    BY <1>4, <2>1, <2>2, SeqEqual
  <2>4. CASE Abs!IsNext(l)
    <3>1. a > 0
      BY <1>1, <1>4, <2>4 DEF Abs!IsNext
    <3>2. ~ Abs!AllOn(Front(Top))
      <4>1. /\ Front(Top) \in Seq(Abs!Group) /\ Len(Front(Top)) = Len(Top) - 1
            /\ \A j \in 1 .. Len(Top) - 1 : Front(Top)[j] = Top[j]
        <5>1. Len(Top) > 0
          BY <1>4, <3>1
        <5> QED
          BY <1>4, <5>1, FrontOf
      <4>2. Own \in 1 .. Len(Top) - 1 /\ Own \in 1 .. Len(Front(Top))
        BY <1>4, <1>8, <3>1, <4>1
      <4>3. Front(Top)[Own].st # "on"
        BY <1>8, <4>1, <4>2
      <4> QED
        BY <4>2, <4>3 DEF Abs!AllOn
    <3>3. Abs!After(Top, l, Defined, TRUE) = Top
      <4>1. Abs!Continued(Top, l, Defined, TRUE) = Top
        BY <3>2, FrontAndLast DEF Abs!Continued
      <4> QED
        BY <1>13, <2>4, <4>1 DEF Abs!After, Abs!IsOpen, Abs!IsNext, Abs!IsEnd
    <3> QED
      BY <1>9, <2>3, <2>4, <3>2, <3>3 DEF Abs!Conditional
  <2>5. CASE ~ Abs!IsNext(l)
    <3>1. ~ Abs!Conditional(l)
      BY <1>13, <2>5 DEF Abs!Conditional, Abs!IsOpen, Abs!IsEnd
    <3> QED
      BY <1>9, <2>3, <2>5, <3>1
  <2> QED
    BY <2>4, <2>5
<1> QED
  BY <1>11, <1>12, <1>13

(***************************************************************************)
(* Every line is a step of CondInclusion.                                  *)
(***************************************************************************)

\* A line keeps the place of the file's part of ifdef_stack.
LEMMA LineStart ==
    ASSUME IInv, phase = "run", NEW f \in BufferedFile, SetCurrent(f),
           f.ifdef_stack_ptr = Current.ifdef_stack_ptr
    PROVE  Start' = Start
  BY SetCurrentKeepsFiles, KeepsFilesPtrs DEF Start

\* What every line does but an #include that opens a file.
LEMMA LineFrame ==
    ASSUME CacheInv, IInv', NEW l \in NextLines, ~ Borrowed, ~ Borrowed',
           NEW f \in BufferedFile, SetCurrent(f),
           f.name = Current.name, f.pos = Advanced.pos,
           f.ifdef_stack_ptr = Current.ifdef_stack_ptr,
           UNCHANGED <<include_depth, phase>>,
           \A j \in 1 .. Start : ifdef_stack'[j] = ifdef_stack[j]
    PROVE  /\ AbsFiles' = Append(Front(AbsFiles), Brief(Advanced))
           /\ AbsGroups' = Append(Front(AbsGroups), Top')
<1>1. phase = "run" /\ phase' = "run" /\ IInv
  BY ReadLine DEF CacheInv
<1>2. Brief(f) = Brief(Advanced)
  BY <1>1, AdvancedFields DEF Brief
<1>3. /\ AbsFiles' = Append(Front(AbsFiles), Brief(f))
      /\ AbsGroups' = Append(Front(AbsGroups), Top')
  BY <1>1, LineMaps DEF Start
<1> QED
  BY <1>2, <1>3

LEMMA TopSame ==
    ASSUME IInv, IInv', phase = "run", phase' = "run", Start' = Start,
           UNCHANGED <<ifdef_stack, skipping, a>>
    PROVE  Top' = Top
<1>1. TopExact /\ TopExact'
  BY TopIs, TopIsNext
<1>2. Own' = Own /\ a' = a
  BY DEF Own, ifdefs
<1>3. /\ Own \in Nat /\ a \in Nat
      /\ Top \in Seq(Abs!Group) /\ Len(Top) = Own + a
      /\ \A j \in 1 .. Own : Top[j] = EntryOf(ifdef_stack, skipping, Start + j)
      /\ \A j \in Own + 1 .. Own + a : Top[j] = Nested
  BY <1>1 DEF TopExact
<1>4. /\ Top' \in Seq(Abs!Group) /\ Len(Top') = Own + a
      /\ \A j \in 1 .. Own : Top'[j] = EntryOf(ifdef_stack', skipping', Start + j)
      /\ \A j \in Own + 1 .. Own + a : Top'[j] = Nested
  BY <1>1, <1>2 DEF TopExact
<1>5. \A j \in 1 .. Own + a : Top'[j] = Top[j]
  BY <1>3, <1>4, SplitRange
<1> QED
  BY <1>3, <1>4, <1>5, SeqEqual

\* A line that is not conditional and opens no file, outside a skipped region.
LEMMA PlainMaps ==
    ASSUME CacheInv, IInv', NEW l \in NextLines, Process(l), ~ Borrowed, ~ Borrowed',
           NEW f \in BufferedFile, SetCurrent(f),
           f.name = Current.name, f.pos = Advanced.pos,
           f.ifdef_stack_ptr = Current.ifdef_stack_ptr,
           UNCHANGED <<content, include_depth, ifdef_stack, skipping, a, phase>>,
           \/ l.op \in {"text", "line"} /\ Defined' = Defined
           \/ l.op = "define" /\ Defined' = Defined \cup {l.arg}
           \/ l.op = "undef" /\ Defined' = Defined \ {l.arg}
           \/ /\ l.op = "include" /\ Defined' = Defined
              /\ Abs!Inert(content[l.arg], Defined)
    PROVE  Abs!Next
<1>1. phase = "run" /\ phase' = "run" /\ IInv /\ FlagsOK
  BY ReadLine DEF CacheInv
<1>2. ~ skipping
  BY DEF Process
<1>3. /\ AbsFiles' = Append(Front(AbsFiles), Brief(Advanced))
      /\ AbsGroups' = Append(Front(AbsGroups), Top')
  BY LineFrame
<1>4. Start' = Start
  BY <1>1, LineStart
<1>5. Top' = Top
  BY <1>1, <1>4, TopSame
<1>6. AbsGroups' = AbsGroups
  BY <1>1, <1>3, <1>5, TopKept
<1> QED
  BY <1>1, <1>2, <1>3, <1>6, EffectiveMaps

LEMMA TextLineMaps ==
    ASSUME CacheInv, IInv', NEW l \in NextLines, ~ Borrowed, ~ Borrowed',
           TextLine(l) \/ LineDirective(l)
    PROVE  Abs!Next
<1>1. /\ Process(l) /\ l.op \in {"text", "line"}
      /\ UNCHANGED <<content, include_depth, ifdef_stack, skipping, a, defines, phase>>
  BY DEF TextLine, LineDirective
<1>2. Defined' = Defined
  BY <1>1 DEF Defined, define_find, defines
<1>3. phase = "run" /\ l \in Lines /\ IInv
  BY ReadLine DEF CacheInv
<1>4. /\ Advanced \in BufferedFile /\ Advanced.name = Current.name
      /\ Advanced.ifdef_stack_ptr = Current.ifdef_stack_ptr
  BY <1>3, AdvancedFields
<1>5. CASE TextLine(l)
  <2>1. SetCurrent(Advanced)
    BY <1>5 DEF TextLine
  <2> QED
    BY <1>1, <1>2, <1>4, <2>1, PlainMaps
<1>6. CASE LineDirective(l)
  <2> DEFINE f == [Advanced EXCEPT !.filename = l.arg]
  <2>1. SetCurrent(f) /\ l.op = "line"
    BY <1>6 DEF LineDirective
  <2>2. l.arg \in Names
    BY <1>3, <2>1, PreprocAssumption DEF Names
  <2>3. /\ f \in BufferedFile /\ f.name = Current.name /\ f.pos = Advanced.pos
        /\ f.ifdef_stack_ptr = Current.ifdef_stack_ptr
    BY <1>4, <2>2 DEF BufferedFile
  <2> HIDE DEF f
  <2> QED
    BY <1>1, <1>2, <2>1, <2>3, PlainMaps
<1> QED
  BY <1>5, <1>6

LEMMA DefineLineMaps ==
    ASSUME CacheInv, IInv', NEW l \in NextLines, ~ Borrowed, ~ Borrowed',
           Define(l) \/ Undef(l)
    PROVE  Abs!Next
<1>1. /\ Process(l) /\ l.op \in {"define", "undef"} /\ SetCurrent(Advanced)
      /\ UNCHANGED <<content, include_depth, ifdef_stack, skipping, a, phase>>
  BY DEF Define, Undef
<1>2. phase = "run" /\ l \in Lines /\ IInv
  BY ReadLine DEF CacheInv
<1>3. /\ Advanced \in BufferedFile /\ Advanced.name = Current.name
      /\ Advanced.ifdef_stack_ptr = Current.ifdef_stack_ptr
  BY <1>2, AdvancedFields
<1>4. l.arg \in Macros
  BY <1>1, <1>2, PreprocAssumption
<1>5. sym_define \in [Macros -> Nat] /\ define_stack \in Seq(Macros \cup {None})
  BY <1>2 DEF IInv, TypeOK
<1>6. CASE Define(l)
  <2>1. l.op = "define" /\ sym_define' = [sym_define EXCEPT ![l.arg] = Len(define_stack) + 1]
    BY <1>6 DEF Define
  <2>2. Len(define_stack) + 1 # 0
    BY <1>5
  <2>3. Defined' = Defined \cup {l.arg}
    BY <1>4, <1>5, <2>1, <2>2 DEF Defined, define_find
  <2> QED
    BY <1>1, <1>3, <2>1, <2>3, PlainMaps
<1>7. CASE Undef(l)
  <2>1. l.op = "undef"
        /\ \/ define_find(l.arg) /\ sym_define' = [sym_define EXCEPT ![l.arg] = 0]
           \/ ~ define_find(l.arg) /\ sym_define' = sym_define
    BY <1>7 DEF Undef
  <2>2. Defined' = Defined \ {l.arg}
    BY <1>4, <1>5, <2>1 DEF Defined, define_find
  <2> QED
    BY <1>1, <1>3, <2>1, <2>2, PlainMaps
<1> QED
  BY <1>6, <1>7

\* A file is left unread where reading it would have no effect.
LEMMA IncludeCachedMaps ==
    ASSUME CacheInv, IInv', NEW l \in NextLines, ~ Borrowed, ~ Borrowed',
           IncludeCached(l), ~ Misleading(l.arg)
    PROVE  Abs!Next
<1>1. /\ Process(l) /\ l.op = "include" /\ SetCurrent(Advanced)
      /\ cached[l.arg] # None /\ define_find(cached[l.arg])
      /\ UNCHANGED <<content, include_depth, ifdef_stack, skipping, a, defines, phase>>
  BY DEF IncludeCached
<1>2. phase = "run" /\ l \in Lines /\ IInv
  BY ReadLine DEF CacheInv
<1>3. /\ Advanced \in BufferedFile /\ Advanced.name = Current.name
      /\ Advanced.ifdef_stack_ptr = Current.ifdef_stack_ptr
  BY <1>2, AdvancedFields
<1>4. l.arg \in Headers
  BY <1>1, <1>2, PreprocAssumption
<1>5. cached[l.arg] \in Defined
  BY <1>1, <1>2, <1>4 DEF IInv, TypeOK, Names, Defined
<1>6. Abs!Inert(content[l.arg], Defined)
  <2>1. Guarded(l.arg)
    BY <1>1, <1>4 DEF CacheInv, CacheExact
  <2>2. Defined \in SUBSET Macros
    BY DEF Defined
  <2> QED
    BY <1>5, <2>1, <2>2 DEF Guarded
<1>7. Defined' = Defined
  BY <1>1 DEF Defined, define_find, defines
<1> QED
  BY <1>1, <1>3, <1>6, <1>7, PlainMaps

LEMMA DefinesSame ==
    ASSUME UNCHANGED defines
    PROVE  Defined' = Defined
  BY DEF Defined, define_find, defines

LEMMA IfMaps ==
    ASSUME CacheInv, IInv', NEW l \in NextLines, ~ Borrowed, ~ Borrowed', If(l)
    PROVE  Abs!Next
<1> DEFINE f == IF bof /\ l.op = "ifndef"
                THEN [Advanced EXCEPT !.ifndef_macro = l.arg] ELSE Advanced
           c == IF Condition(l) THEN 1 ELSE 0
<1>1. /\ l.op \in {"if", "ifndef"} /\ SetCurrent(f)
      /\ ifdef_stack' = Append(ifdef_stack, c)
      /\ UNCHANGED <<content, include_depth, phase, defines>>
  BY DEF If
<1>2. phase = "run" /\ phase' = "run" /\ l \in Lines /\ IInv /\ FlagsOK
  BY <1>1, ReadLine DEF CacheInv
<1>3. l.arg \in Macros
  BY <1>1, <1>2, PreprocAssumption
<1>4. /\ Advanced \in BufferedFile /\ Advanced.name = Current.name
      /\ Advanced.ifdef_stack_ptr = Current.ifdef_stack_ptr
  BY <1>2, AdvancedFields
<1>5. /\ f \in BufferedFile /\ f.name = Current.name /\ f.pos = Advanced.pos
      /\ f.ifdef_stack_ptr = Current.ifdef_stack_ptr
  BY <1>3, <1>4 DEF BufferedFile
<1>6. \A j \in 1 .. Start : ifdef_stack'[j] = ifdef_stack[j]
  <2>1. ifdef_stack \in Seq(0 .. 3) /\ c \in 0 .. 3
    BY <1>2 DEF IInv, TypeOK
  <2> HIDE DEF c
  <2>2. \A j \in 1 .. Len(ifdef_stack) : ifdef_stack'[j] = ifdef_stack[j]
    BY <1>1, <2>1, OneMore
  <2>3. Start \in Nat /\ Start <= Len(ifdef_stack) /\ Len(ifdef_stack) \in Nat
    BY <1>2, Places DEF Start, ifdefs
  <2> QED
    BY <2>2, <2>3
<1> HIDE DEF f, c
<1>7. /\ AbsFiles' = Append(Front(AbsFiles), Brief(Advanced))
      /\ AbsGroups' = Append(Front(AbsGroups), Top')
  BY <1>1, <1>5, <1>6, LineFrame
<1>8. Start' = Start
  BY <1>1, <1>2, <1>5, LineStart
<1>9. Top' = Abs!After(Top, l, Defined, TRUE)
  BY <1>2, <1>8, IfTop
<1>10. AbsGroups' = Append(Front(AbsGroups), Abs!After(Top, l, Defined, TRUE))
  BY <1>7, <1>9
<1>11. Abs!Conditional(l) /\ ~ Abs!IsNext(l) /\ ~ Abs!IsEnd(l)
  BY <1>1 DEF Abs!Conditional, Abs!IsOpen, Abs!IsNext, Abs!IsEnd
<1>12. Defined' = Defined /\ content' = content
  BY <1>1, DefinesSame
<1> QED
  BY <1>2, <1>7, <1>10, <1>11, <1>12, ConditionalMaps

\* #else and #elif in a group of this file.
LEMMA ContinueMaps ==
    ASSUME CacheInv, IInv', NEW l \in NextLines, ~ Borrowed, ~ Borrowed',
           Else(l) \/ Elif(l)
    PROVE  Abs!Next
<1>1. /\ l.op \in {"else", "elif"} /\ ifdefs # 0
      /\ UNCHANGED <<content, include_depth, phase, defines>>
  BY DEF Else, Elif, Process
<1>2. phase = "run" /\ phase' = "run" /\ l \in Lines /\ IInv /\ FlagsOK
  BY <1>1, ReadLine DEF CacheInv
<1>3. /\ Advanced \in BufferedFile /\ Advanced.name = Current.name
      /\ Advanced.ifdef_stack_ptr = Current.ifdef_stack_ptr
  BY <1>2, AdvancedFields
<1>4. PICK f \in {Advanced, [Advanced EXCEPT !.ifndef_macro = None]} : SetCurrent(f)
  BY DEF Else, Elif, TestElse
<1>5. /\ f \in BufferedFile /\ f.name = Current.name /\ f.pos = Advanced.pos
      /\ f.ifdef_stack_ptr = Current.ifdef_stack_ptr
  BY <1>3 DEF BufferedFile
<1>6. Start' = Start
  BY <1>2, <1>4, <1>5, LineStart
<1>7. /\ Top' = Abs!After(Top, l, Defined, TRUE)
      /\ Abs!Continuable(Top) /\ Own > 0
  BY <1>2, <1>6, ElseTop, ElifTop
<1>8. \A j \in 1 .. Start : ifdef_stack'[j] = ifdef_stack[j]
  <2>1. ifdef_stack \in Seq(0 .. 3) /\ Len(ifdef_stack) > 0 /\ Len(ifdef_stack) \in Nat
    BY <1>1, <1>2, LenProperties DEF IInv, TypeOK, ifdefs
  <2>2. Start \in Nat /\ Start <= Len(ifdef_stack) - 1
    <3>1. Start \in Nat /\ ifdefs \in Nat
      BY <1>2, Places DEF Start
    <3> QED
      BY <1>7, <3>1 DEF Own, ifdefs
  <2>3. CASE ifdef_stack' = ifdef_stack
    BY <2>3
  <2>4. ASSUME NEW c \in 0 .. 3, ifdef_stack' = Append(Front(ifdef_stack), c)
        PROVE  \A j \in 1 .. Start : ifdef_stack'[j] = ifdef_stack[j]
    <3>1. \A j \in 1 .. Len(ifdef_stack) - 1 : ifdef_stack'[j] = ifdef_stack[j]
      BY <2>1, <2>4, ReplaceLast
    <3> QED
      BY <2>1, <2>2, <3>1
  <2>5. Last(ifdef_stack) \in 0 .. 3
    BY <1>1, <1>2, InnermostGroup
  <2>6. CASE Else(l)
    <3>1. /\ ifdef_stack' = Append(Front(ifdef_stack), 3 - Last(ifdef_stack))
      BY <2>6 DEF Else, TestElse
    <3>2. 3 - Last(ifdef_stack) \in 0 .. 3
      BY <2>5
    <3> QED
      BY <2>4, <3>1, <3>2
  <2>7. CASE Elif(l)
    <3>1. ifdef_stack' = ifdef_stack
          \/ ifdef_stack' = Append(Front(ifdef_stack), IF Condition(l) THEN 1 ELSE 0)
      BY <2>7 DEF Elif, TestElse
    <3>2. (IF Condition(l) THEN 1 ELSE 0) \in 0 .. 3
      OBVIOUS
    <3> QED
      BY <2>3, <2>4, <3>1, <3>2
  <2> QED
    BY <2>6, <2>7
<1>9. /\ AbsFiles' = Append(Front(AbsFiles), Brief(Advanced))
      /\ AbsGroups' = Append(Front(AbsGroups), Top')
  BY <1>1, <1>4, <1>5, <1>8, LineFrame
<1>10. AbsGroups' = Append(Front(AbsGroups), Abs!After(Top, l, Defined, TRUE))
  BY <1>7, <1>9
<1>11. Abs!Conditional(l) /\ ~ Abs!IsEnd(l)
  BY <1>1 DEF Abs!Conditional, Abs!IsNext, Abs!IsEnd
<1>12. Defined' = Defined /\ content' = content
  BY <1>1, DefinesSame
<1> QED
  BY <1>2, <1>7, <1>9, <1>10, <1>11, <1>12, ConditionalMaps

LEMMA EndifMaps ==
    ASSUME CacheInv, IInv', NEW l \in NextLines, ~ Borrowed, ~ Borrowed', Endif(l)
    PROVE  Abs!Next
<1> DEFINE f == IF Current.ifndef_macro # None /\ ifdefs - 1 = Current.ifdef_stack_ptr
                THEN [Advanced EXCEPT !.ifndef_macro_saved = Current.ifndef_macro,
                                      !.ifndef_macro = None]
                ELSE Advanced
<1>1. /\ l.op = "endif" /\ SetCurrent(f) /\ ifdefs > Current.ifdef_stack_ptr
      /\ ifdef_stack' = Front(ifdef_stack)
      /\ UNCHANGED <<content, include_depth, phase, defines>>
  BY DEF Endif, Process
<1>2. phase = "run" /\ phase' = "run" /\ l \in Lines /\ IInv /\ FlagsOK
  BY <1>1, ReadLine DEF CacheInv
<1>3. /\ Advanced \in BufferedFile /\ Advanced.name = Current.name
      /\ Advanced.ifdef_stack_ptr = Current.ifdef_stack_ptr
      /\ Current \in BufferedFile
  BY <1>2, AdvancedFields, Places
<1>4. /\ f \in BufferedFile /\ f.name = Current.name /\ f.pos = Advanced.pos
      /\ f.ifdef_stack_ptr = Current.ifdef_stack_ptr
  BY <1>3 DEF BufferedFile
<1> HIDE DEF f
<1>5. \A j \in 1 .. Start : ifdef_stack'[j] = ifdef_stack[j]
  <2>1. Start \in Nat /\ Len(ifdef_stack) \in Nat /\ Start < Len(ifdef_stack)
        /\ ifdef_stack \in Seq(0 .. 3)
    BY <1>1, <1>2, Places DEF Start, ifdefs, IInv, TypeOK
  <2>2. Len(ifdef_stack) > 0
    BY <2>1
  <2>3. \A j \in 1 .. Len(ifdef_stack) - 1 : ifdef_stack'[j] = ifdef_stack[j]
    BY <1>1, <2>1, <2>2, FrontOf
  <2> QED
    BY <2>1, <2>3
<1>6. Start' = Start
  BY <1>1, <1>2, <1>4, LineStart
<1>7. /\ AbsFiles' = Append(Front(AbsFiles), Brief(Advanced))
      /\ AbsGroups' = Append(Front(AbsGroups), Top')
  BY <1>1, <1>4, <1>5, LineFrame
<1>8. /\ Top' = Abs!After(Top, l, Defined, TRUE)
      /\ Top # <<>>
  BY <1>2, <1>6, EndifTop
<1>9. AbsGroups' = Append(Front(AbsGroups), Abs!After(Top, l, Defined, TRUE))
  BY <1>7, <1>8
<1>10. Abs!Conditional(l) /\ ~ Abs!IsNext(l)
  BY <1>1 DEF Abs!Conditional, Abs!IsNext, Abs!IsEnd
<1>11. Defined' = Defined /\ content' = content
  BY <1>1, DefinesSame
<1> QED
  BY <1>2, <1>7, <1>8, <1>9, <1>10, <1>11, ConditionalMaps

LEMMA SkipLineMaps ==
    ASSUME CacheInv, IInv', NEW l \in NextLines, ~ Borrowed, ~ Borrowed', SkipLine(l)
    PROVE  Abs!Next
<1>1. /\ skipping /\ SetCurrent(Advanced)
      /\ UNCHANGED <<content, include_depth, ifdef_stack, phase, defines>>
  BY DEF SkipLine
<1>2. phase = "run" /\ phase' = "run" /\ l \in Lines /\ IInv /\ FlagsOK
  BY <1>1, ReadLine DEF CacheInv
<1>3. /\ Advanced \in BufferedFile /\ Advanced.name = Current.name
      /\ Advanced.ifdef_stack_ptr = Current.ifdef_stack_ptr
  BY <1>2, AdvancedFields
<1>4. Start' = Start
  BY <1>1, <1>2, <1>3, LineStart
<1>5. /\ AbsFiles' = Append(Front(AbsFiles), Brief(Advanced))
      /\ AbsGroups' = Append(Front(AbsGroups), Top')
  BY <1>1, <1>3, LineFrame
<1>6. /\ Abs!Conditional(l) => Top' = Abs!After(Top, l, Defined, TRUE)
      /\ ~ Abs!Conditional(l) => Top' = Top
      /\ ~ (Abs!IsNext(l) /\ Abs!AllOn(Front(Top)))
      /\ Top # <<>>
  BY <1>2, <1>4, SkipTop
<1>7. Defined' = Defined /\ content' = content
  BY <1>1, DefinesSame
<1>8. CASE Abs!Conditional(l)
  <2>1. AbsGroups' = Append(Front(AbsGroups), Abs!After(Top, l, Defined, TRUE))
    BY <1>5, <1>6, <1>8
  <2> QED
    BY <1>2, <1>5, <1>6, <1>7, <1>8, <2>1, ConditionalMaps
<1>9. CASE ~ Abs!Conditional(l)
  <2>1. AbsGroups' = AbsGroups
    BY <1>2, <1>5, <1>6, <1>9, TopKept
  <2> QED
    BY <1>1, <1>2, <1>5, <1>7, <1>9, <2>1, IgnoredMaps
<1> QED
  BY <1>8, <1>9

\* An includer keeps its groups while the file that it includes is read.
LEMMA IncluderGroups ==
    ASSUME IInv, IInv', phase = "run", phase' = "run", a = 0, Depth' = Depth + 1,
           UNCHANGED <<ifdef_stack, skipping>>,
           \A j \in 1 .. Depth : Unit'[j].ifdef_stack_ptr = Unit[j].ifdef_stack_ptr,
           Unit'[Depth + 1].ifdef_stack_ptr = ifdefs,
           NEW i \in 1 .. Depth
    PROVE  UnitGroups(i)' = UnitGroups(i)
<1> DEFINE lo == Unit[i].ifdef_stack_ptr
           hi == IF i = Depth THEN ifdefs ELSE Unit[i + 1].ifdef_stack_ptr
           G  == UnitGroups(i)
<1>1. Depth \in Nat /\ Depth > 0 /\ Unit[Depth] = Current
  BY UnitIs DEF UnitExact
<1>2. GroupsExact /\ GroupsExact'
  BY GroupsAre, GroupsAreNext
<1>3. ifdefs \in Nat /\ ifdefs' = ifdefs
  BY Places DEF ifdefs
<1>4. lo \in Nat /\ hi \in Nat /\ lo <= hi
  <2>1. CASE i = Depth
    BY <1>1, <2>1, Places
  <2>2. CASE i # Depth
    <3>1. i \in 1 .. Depth /\ i + 1 \in 1 .. Depth /\ i \in 1 .. Depth - 1
      BY <1>1, <2>2
    <3> QED
      BY <2>2, <3>1, UnitPtrs
  <2> QED
    BY <2>1, <2>2
<1>5. Groups(G, lo, hi, 0)
  <2>1. CASE i = Depth
    BY <1>1, <1>2, <2>1 DEF GroupsExact
  <2>2. CASE i # Depth
    <3>1. i \in 1 .. Depth - 1
      BY <1>1, <2>2
    <3> QED
      BY <1>2, <2>2, <3>1 DEF GroupsExact
  <2> QED
    BY <2>1, <2>2
<1>6. /\ G \in Seq(Abs!Group) /\ Len(G) = hi - lo
      /\ \A j \in 1 .. hi - lo : G[j] = EntryOf(ifdef_stack, skipping, lo + j)
  BY <1>4, <1>5 DEF Groups, Entry, EntryOf, ifdefs
<1>7. /\ Unit'[i].ifdef_stack_ptr = lo /\ Unit'[i + 1].ifdef_stack_ptr = hi
      /\ i \in 1 .. Depth' - 1
  <2>1. CASE i = Depth
    BY <1>1, <2>1
  <2>2. CASE i # Depth
    <3>1. i \in 1 .. Depth /\ i + 1 \in 1 .. Depth
      BY <1>1, <2>2
    <3> QED
      BY <1>1, <2>2, <3>1
  <2> QED
    BY <2>1, <2>2
<1>8. /\ G' \in Seq(Abs!Group) /\ Len(G') = hi - lo
      /\ \A j \in 1 .. hi - lo : G'[j] = EntryOf(ifdef_stack, skipping, lo + j)
  <2>1. \A k \in 1 .. Depth' - 1 :
           Groups(UnitGroups(k), Unit[k].ifdef_stack_ptr, Unit[k + 1].ifdef_stack_ptr, 0)'
    BY <1>2 DEF GroupsExact
  <2>2. Groups(G, Unit[i].ifdef_stack_ptr, Unit[i + 1].ifdef_stack_ptr, 0)'
    BY <1>7, <2>1
  <2> DEFINE p == Unit'[i].ifdef_stack_ptr
             q == Unit'[i + 1].ifdef_stack_ptr
  <2>3. /\ G' \in Seq(Abs!Group) /\ Len(G') = q - p + 0
        /\ \A j \in 1 .. q - p :
              G'[j] = EntryOf(ifdef_stack', skipping', p + j)
    BY <2>2 DEF Groups, Entry, EntryOf, ifdefs
  <2>4. p = lo /\ q = hi /\ ifdef_stack' = ifdef_stack /\ skipping' = skipping
    BY <1>7
  <2> HIDE DEF p, q, lo, hi, G
  <2> QED
    BY <1>4, <2>3, <2>4
<1> HIDE DEF lo, hi
<1>9. G' = G
  <2> HIDE DEF G
  <2>1. \A j \in 1 .. Len(G) : G'[j] = G[j]
    BY <1>6, <1>8
  <2> QED
    BY <1>6, <1>8, <2>1, SeqEqual
<1> QED
  BY <1>9

\* #include of a file that is opened.
LEMMA IncludeMaps ==
    ASSUME CacheInv, IInv', NEW l \in NextLines, Include(l)
    PROVE  Abs!Next
<1> DEFINE t == Append(Front(file), Advanced)
           new == Opened(l.arg, ifdefs)
           n == Len(file)
<1>1. /\ phase = "run" /\ l \in Lines /\ IInv /\ FlagsOK
  BY ReadLine DEF CacheInv
<1>2. /\ file' = Append(t, new) /\ l.op = "include"
      /\ include_depth' = include_depth + 1 /\ ~ skipping
      /\ phase' = "run"
      /\ UNCHANGED <<content, ifdef_stack, skipping, a, defines>>
  BY <1>1 DEF Include, Process
<1>3. l.arg \in Headers /\ a = 0 /\ a' = 0
  BY <1>1, <1>2, PreprocAssumption DEF FlagsOK
<1>4. /\ file \in Seq(BufferedFile) /\ n \in Nat /\ n > 0
      /\ include_depth \in Nat /\ include_depth < n
      /\ Base \in 1 .. n /\ Current \in BufferedFile /\ Current = file[n]
      /\ ifdefs \in Nat
  BY <1>1, Places
<1>5. new \in BufferedFile /\ new.ifdef_stack_ptr = ifdefs
      /\ Brief(new) = [name |-> l.arg, pos |-> 0]
  BY <1>3, <1>4 DEF Opened, BufferedFile, Names, Brief
<1>6. /\ Advanced \in BufferedFile /\ Advanced.name = Current.name
      /\ Advanced.ifdef_stack_ptr = Current.ifdef_stack_ptr
  BY <1>1, AdvancedFields
<1>7. /\ t \in Seq(BufferedFile) /\ Len(t) = n
      /\ t[n] = Advanced
      /\ \A i \in 1 .. n - 1 : t[i] = file[i]
  BY <1>4, <1>6, ReplaceLast
<1> HIDE DEF t, new
<1>8. /\ Len(file') = n + 1
      /\ file'[n + 1] = new
      /\ \A i \in 1 .. n : file'[i] = t[i]
  BY <1>2, <1>5, <1>7, OneMore
<1>9. Base' = Base /\ Depth' = Depth + 1 /\ ifdefs' = ifdefs
  BY <1>2, <1>4, <1>8 DEF Base, Depth, ifdefs
<1>10. PlacesExact /\ UnitExact /\ PlacesExact' /\ UnitExact'
  BY <1>1, <1>2, PlacesAre, UnitIs, PlacesAreNext, UnitIsNext
<1>11. Depth \in Nat /\ Depth > 0 /\ Base + Depth - 1 = n
  BY <1>10 DEF UnitExact
<1>12. \A i \in 1 .. Depth - 1 : /\ i \in 1 .. Depth /\ Base + i - 1 \in 1 .. n - 1
                                 /\ Base + i - 1 \in 1 .. n
  BY <1>4, <1>11
<1>13. n \in 1 .. n /\ Depth \in 1 .. Depth /\ Depth + 1 \in 1 .. Depth'
       /\ Base + (Depth + 1) - 1 = n + 1
       /\ \A i \in 1 .. Depth : i \in 1 .. Depth'
  BY <1>4, <1>9, <1>11
<1>14. /\ \A i \in 1 .. Depth - 1 : file'[Base + i - 1] = file[Base + i - 1]
       /\ file'[Base + Depth - 1] = Advanced
       /\ file'[Base + (Depth + 1) - 1] = new
  BY <1>7, <1>8, <1>11, <1>12, <1>13
<1>15. /\ \A j \in 1 .. Depth : Unit'[j].ifdef_stack_ptr = Unit[j].ifdef_stack_ptr
       /\ Unit'[Depth + 1].ifdef_stack_ptr = ifdefs
  <2>1. /\ \A j \in 1 .. Depth' : Unit'[j] = file'[Base + j - 1]
        /\ \A j \in 1 .. Depth : Unit[j] = file[Base + j - 1]
    BY <1>9, <1>10 DEF UnitExact
  <2>2. ASSUME NEW j \in 1 .. Depth
        PROVE  Unit'[j].ifdef_stack_ptr = Unit[j].ifdef_stack_ptr
    <3>1. CASE j = Depth
      BY <1>4, <1>6, <1>11, <1>13, <1>14, <2>1, <3>1
    <3>2. CASE j # Depth
      <4>1. j \in 1 .. Depth - 1
        BY <1>11, <3>2
      <4> QED
        BY <1>13, <1>14, <2>1, <4>1
    <3> QED
      BY <3>1, <3>2
  <2>3. Unit'[Depth + 1].ifdef_stack_ptr = ifdefs
    BY <1>5, <1>13, <1>14, <2>1
  <2> QED
    BY <2>2, <2>3
<1>16. AbsFiles' = Append(Append(Front(AbsFiles), Brief(Advanced)), Brief(new))
  <2> DEFINE s == AbsFiles'
             f == Append(Front(AbsFiles), Brief(Advanced))
             u == Append(f, Brief(new))
  <2>1. /\ AbsFiles \in Seq(AbsFile) /\ Len(AbsFiles) = Depth
        /\ \A i \in 1 .. Depth : AbsFiles[i] = Brief(file[Base + i - 1])
    BY <1>10 DEF PlacesExact
  <2>2. Brief(Advanced) \in AbsFile /\ Brief(new) \in AbsFile
    BY <1>5, <1>6 DEF Brief, AbsFile, BufferedFile
  <2>3. /\ f \in Seq(AbsFile) /\ Len(f) = Depth
        /\ f[Depth] = Brief(Advanced)
        /\ \A i \in 1 .. Depth - 1 : f[i] = AbsFiles[i]
    <3>1. Len(AbsFiles) > 0
      BY <1>11, <2>1
    <3>2. /\ f \in Seq(AbsFile) /\ Len(f) = Len(AbsFiles)
          /\ f[Len(AbsFiles)] = Brief(Advanced)
          /\ \A i \in 1 .. Len(AbsFiles) - 1 : f[i] = AbsFiles[i]
      BY <2>1, <2>2, <3>1, ReplaceLast
    <3> HIDE DEF f
    <3> QED
      BY <2>1, <3>2
  <2> HIDE DEF f
  <2>4. /\ u \in Seq(AbsFile) /\ Len(u) = Depth + 1
        /\ u[Depth + 1] = Brief(new)
        /\ \A i \in 1 .. Depth : u[i] = f[i]
    BY <2>2, <2>3, OneMore
  <2>5. /\ s \in Seq(AbsFile) /\ Len(s) = Depth + 1
        /\ \A i \in 1 .. Depth + 1 : s[i] = Brief(file'[Base + i - 1])
    BY <1>9, <1>10 DEF PlacesExact, Brief
  <2> HIDE DEF s, u
  <2>6. ASSUME NEW i \in 1 .. Len(s)
        PROVE  s[i] = u[i]
    <3>1. CASE i = Depth + 1
      BY <1>14, <2>4, <2>5, <3>1
    <3>2. CASE i = Depth
      BY <1>13, <1>14, <2>3, <2>4, <2>5, <3>2
    <3>3. CASE i \in 1 .. Depth - 1
      <4>1. i \in 1 .. Depth
        BY <1>12, <3>3
      <4> QED
        BY <1>14, <2>1, <2>3, <2>4, <2>5, <3>3, <4>1
    <3>4. i = Depth + 1 \/ i = Depth \/ i \in 1 .. Depth - 1
      BY <1>11, <2>5
    <3> QED
      BY <3>1, <3>2, <3>3, <3>4
  <2>7. s = u
    BY <2>4, <2>5, <2>6, SeqEqual
  <2> QED
    BY <2>7 DEF s, u, f
<1>17. AbsGroups' = Append(AbsGroups, <<>>)
  <2> DEFINE s == AbsGroups'
             u == Append(AbsGroups, <<>>)
             T == Seq(Abs!Group)
  <2>1. /\ AbsGroups \in Seq(T) /\ Len(AbsGroups) = Depth
        /\ \A i \in 1 .. Depth : AbsGroups[i] = UnitGroups(i)
    BY <1>10 DEF PlacesExact
  <2>2. /\ s \in Seq(T) /\ Len(s) = Depth + 1
        /\ \A i \in 1 .. Depth + 1 : s[i] = UnitGroups(i)'
    BY <1>9, <1>10 DEF PlacesExact
  <2>3. s[Depth + 1] = <<>>
    <3>1. Top' \in T /\ Len(Top') = 0
      <4>1. TopExact'
        BY <1>2, TopIsNext
      <4>2. Own' = 0
        <5>1. Start' = ifdefs
          <6>1. Current' = new
            BY <1>8 DEF Current, Last
          <6> QED
            BY <1>5, <6>1 DEF Start
        <5> QED
          BY <1>4, <1>9, <5>1 DEF Own
      <4> QED
        BY <1>3, <4>1, <4>2 DEF TopExact
    <3>2. \A i \in 1 .. Depth + 1 : i = Depth' => s[i] = Top'
      BY <2>2 DEF Top
    <3>3. s[Depth + 1] = Top'
      BY <1>9, <1>13, <3>2
    <3> QED
      BY <3>1, <3>3
  <2>4. <<>> \in T
    OBVIOUS
  <2> HIDE DEF T
  <2>5. /\ u \in Seq(T) /\ Len(u) = Depth + 1
        /\ u[Depth + 1] = <<>>
        /\ \A i \in 1 .. Depth : u[i] = AbsGroups[i]
    BY <2>1, <2>4, OneMore
  <2>6. \A i \in 1 .. Depth : UnitGroups(i)' = UnitGroups(i)
    BY <1>1, <1>2, <1>3, <1>9, <1>15, IncluderGroups
  <2> HIDE DEF s, u
  <2>7. ASSUME NEW i \in 1 .. Len(s)
        PROVE  s[i] = u[i]
    <3>1. CASE i = Depth + 1
      BY <2>3, <2>5, <3>1
    <3>2. CASE i # Depth + 1
      <4>1. i \in 1 .. Depth /\ i \in 1 .. Depth + 1
        BY <1>11, <2>2, <3>2
      <4> QED
        BY <2>1, <2>2, <2>5, <2>6, <4>1
    <3> QED
      BY <3>1, <3>2
  <2>8. s = u
    BY <2>2, <2>5, <2>7, SeqEqual
  <2> QED
    BY <2>8 DEF s, u
<1>18. Abs!Active
  <2>1. ~ Borrowed
    BY <1>2 DEF Borrowed
  <2> QED
    BY <1>1, <1>2, <1>3, <2>1, ActiveMaps
<1>19. AbsFiles' = Append(Abs!Advanced, [name |-> l.arg, pos |-> 0])
  BY <1>1, <1>5, <1>16, AdvancedMaps
<1>20. Defined' = Defined /\ content' = content
  BY <1>2, DefinesSame
<1>21. Abs!IncludeLine(l)
  BY <1>2, <1>17, <1>18, <1>19, <1>20 DEF Abs!IncludeLine, AbsFiles, AbsGroups
<1> QED
  BY <1>1, <1>21, LineIsNext DEF Abs!LineStep

LEMMA Inner ==
    ASSUME NEW d, NEW n, d \in Nat, n = d + 1, NEW i, i \in 1 .. d
    PROVE  i \in 1 .. n /\ i + 1 \in 1 .. n /\ i \in 1 .. n - 1
  OBVIOUS

\* The groups of the files that stay open at the end of an included one.
LEMMA ReturnGroups ==
    ASSUME IInv, IInv', phase = "run", phase' = "run", a' = 0, Depth = Depth' + 1,
           UNCHANGED <<ifdef_stack, skipping>>,
           \A j \in 1 .. Depth' : Unit'[j].ifdef_stack_ptr = Unit[j].ifdef_stack_ptr,
           Current.ifdef_stack_ptr = ifdefs,
           NEW i \in 1 .. Depth'
    PROVE  UnitGroups(i)' = UnitGroups(i)
<1> DEFINE lo == Unit[i].ifdef_stack_ptr
           hi == Unit[i + 1].ifdef_stack_ptr
           G  == UnitGroups(i)
<1>1. /\ Depth \in Nat /\ Depth > 0 /\ Unit[Depth] = Current
      /\ Depth' \in Nat /\ Depth' > 0 /\ Unit'[Depth'] = Current'
  <2>1. UnitExact /\ UnitExact'
    BY UnitIs, UnitIsNext
  <2> QED
    BY <2>1 DEF UnitExact
<1>2. GroupsExact /\ GroupsExact'
  BY GroupsAre, GroupsAreNext
<1>3. ifdefs \in Nat /\ ifdefs' = ifdefs
  BY Places DEF ifdefs
<1>4. i \in 1 .. Depth /\ i + 1 \in 1 .. Depth /\ i \in 1 .. Depth - 1
  <2>1. Depth' \in Nat /\ Depth = Depth' + 1 /\ i \in 1 .. Depth'
    BY <1>1
  <2> QED
    BY <2>1, Inner
<1>5. lo \in Nat /\ hi \in Nat /\ lo <= hi
  BY <1>4, UnitPtrs
<1>6. Groups(G, lo, hi, 0)
  BY <1>2, <1>4 DEF GroupsExact
<1>7. /\ G \in Seq(Abs!Group) /\ Len(G) = hi - lo
      /\ \A j \in 1 .. hi - lo : G[j] = EntryOf(ifdef_stack, skipping, lo + j)
  BY <1>5, <1>6 DEF Groups, Entry, EntryOf, ifdefs
<1>8. /\ G' \in Seq(Abs!Group) /\ Len(G') = hi - lo
      /\ \A j \in 1 .. hi - lo : G'[j] = EntryOf(ifdef_stack, skipping, lo + j)
  <2> DEFINE p == Unit'[i].ifdef_stack_ptr
             q == IF i = Depth' THEN ifdefs' ELSE Unit'[i + 1].ifdef_stack_ptr
  <2>1. /\ G' \in Seq(Abs!Group) /\ Len(G') = q - p + 0
        /\ \A j \in 1 .. q - p :
              G'[j] = EntryOf(ifdef_stack', skipping', p + j)
    <3>1. CASE i = Depth'
      <4>1. Groups(UnitGroups(Depth), Current.ifdef_stack_ptr, ifdefs, a)'
        BY <1>2 DEF GroupsExact
      <4> DEFINE H == UnitGroups(Depth)
      <4>2. /\ H' \in Seq(Abs!Group) /\ Len(H') = ifdefs' - Current'.ifdef_stack_ptr + a'
            /\ \A j \in 1 .. ifdefs' - Current'.ifdef_stack_ptr :
                  H'[j] = EntryOf(ifdef_stack', skipping', Current'.ifdef_stack_ptr + j)
        BY <4>1 DEF Groups, Entry, EntryOf, ifdefs
      <4>3. G' = H'
        BY <3>1
      <4> HIDE DEF G, H
      <4> QED
        BY <1>1, <3>1, <4>2, <4>3
    <3>2. CASE i # Depth'
      <4>1. i \in 1 .. Depth' - 1
        BY <1>1, <3>2
      <4>2. \A k \in 1 .. Depth' - 1 :
               Groups(UnitGroups(k), Unit[k].ifdef_stack_ptr, Unit[k + 1].ifdef_stack_ptr, 0)'
        BY <1>2 DEF GroupsExact
      <4>3. Groups(G, Unit[i].ifdef_stack_ptr, Unit[i + 1].ifdef_stack_ptr, 0)'
        BY <4>1, <4>2
      <4> DEFINE r == Unit'[i + 1].ifdef_stack_ptr
      <4>4. /\ G' \in Seq(Abs!Group) /\ Len(G') = r - p + 0
            /\ \A j \in 1 .. r - p :
                  G'[j] = EntryOf(ifdef_stack', skipping', p + j)
        BY <4>3 DEF Groups, Entry, EntryOf, ifdefs
      <4>5. q = r
        BY <3>2
      <4> HIDE DEF q, r, p, G
      <4> QED
        BY <4>4, <4>5
    <3> QED
      BY <3>1, <3>2
  <2>2. p = lo
    OBVIOUS
  <2>3. q = hi
    <3>1. CASE i = Depth'
      BY <1>1, <1>3, <3>1
    <3>2. CASE i # Depth'
      <4>1. i + 1 \in 1 .. Depth'
        BY <1>1, <3>2
      <4> QED
        BY <3>2, <4>1
    <3> QED
      BY <3>1, <3>2
  <2>4. ifdef_stack' = ifdef_stack /\ skipping' = skipping
    OBVIOUS
  <2> HIDE DEF p, q, lo, hi, G
  <2> QED
    BY <1>5, <2>1, <2>2, <2>3, <2>4
<1> HIDE DEF lo, hi
<1>9. G' = G
  <2> HIDE DEF G
  <2>1. \A j \in 1 .. Len(G) : G'[j] = G[j]
    BY <1>7, <1>8
  <2> QED
    BY <1>7, <1>8, <2>1, SeqEqual
<1> QED
  BY <1>9

LEMMA Successor ==
    ASSUME NEW d, NEW n, d \in Nat, d > 0, n = d + 1
    PROVE  n > 1 /\ n - 1 = d
  OBVIOUS

\* The end of an included file, which its includer's groups do not see.
LEMMA LeaveMaps ==
    ASSUME CacheInv, IInv', EndOfInclude
    PROVE  Abs!Next
<1> DEFINE n == Len(file)
<1>1. /\ phase = "run" /\ phase' = "run" /\ ~ skipping
      /\ include_depth > 0 /\ AtEnd /\ ifdefs = Start
      /\ file' = Front(file) /\ include_depth' = include_depth - 1
      /\ UNCHANGED <<content, ifdef_stack, skipping, a, defines>>
      /\ IInv /\ FlagsOK /\ FilesRead
  BY DEF EndOfInclude, CacheInv, Start
<1>2. a = 0 /\ a' = 0
  BY <1>1 DEF FlagsOK
<1>3. /\ file \in Seq(BufferedFile) /\ n \in Nat /\ n > 0
      /\ include_depth \in Nat /\ include_depth < n
      /\ Base \in 1 .. n /\ Current \in BufferedFile /\ Current = file[n]
      /\ ifdefs \in Nat
  BY <1>1, Places
<1>4. /\ Len(file') = n - 1
      /\ \A i \in 1 .. n - 1 : file'[i] = file[i]
  BY <1>1, <1>3, FrontOf
<1>5. Base' = Base /\ Depth = Depth' + 1 /\ ifdefs' = ifdefs
      /\ Depth' \in Nat /\ Depth' > 0
  BY <1>1, <1>3, <1>4 DEF Base, Depth, ifdefs
<1>6. PlacesExact /\ UnitExact /\ PlacesExact' /\ UnitExact'
  BY <1>1, PlacesAre, UnitIs, PlacesAreNext, UnitIsNext
<1>7. Depth \in Nat /\ Base + Depth - 1 = n /\ Depth > 1 /\ Depth - 1 = Depth'
  <2>1. Depth > 1 /\ Depth - 1 = Depth'
    BY <1>5, Successor
  <2> QED
    BY <1>6, <2>1 DEF UnitExact
<1>8. \A i \in 1 .. Depth' : /\ i \in 1 .. Depth /\ i \in 1 .. Depth - 1
                             /\ Base + i - 1 \in 1 .. n - 1
  <2>1. SUFFICES ASSUME NEW i \in 1 .. Depth'
                 PROVE  /\ i \in 1 .. Depth /\ i \in 1 .. Depth - 1
                        /\ Base + i - 1 \in 1 .. n - 1
    OBVIOUS
  <2>2. i \in 1 .. Depth /\ i \in 1 .. Depth - 1
    BY <1>5, Inner
  <2> QED
    BY <1>3, <1>7, <2>2
<1>9. \A i \in 1 .. Depth' : file'[Base + i - 1] = file[Base + i - 1]
  BY <1>4, <1>8
<1>10. \A j \in 1 .. Depth' : Unit'[j].ifdef_stack_ptr = Unit[j].ifdef_stack_ptr
  BY <1>5, <1>6, <1>8, <1>9 DEF UnitExact
<1>11. Top = <<>>
  <2>1. TopExact
    BY <1>1, TopIs
  <2>2. Own = 0
    BY <1>1, <1>3 DEF Own
  <2> QED
    BY <1>2, <2>1, <2>2 DEF TopExact
<1>12. AbsFiles' = Front(AbsFiles)
  <2> DEFINE s == AbsFiles'
             u == Front(AbsFiles)
  <2>1. /\ AbsFiles \in Seq(AbsFile) /\ Len(AbsFiles) = Depth
        /\ \A i \in 1 .. Depth : AbsFiles[i] = Brief(file[Base + i - 1])
    BY <1>6 DEF PlacesExact
  <2>2. /\ s \in Seq(AbsFile) /\ Len(s) = Depth'
        /\ \A i \in 1 .. Depth' : s[i] = Brief(file'[Base + i - 1])
    BY <1>5, <1>6 DEF PlacesExact, Brief
  <2>3. /\ u \in Seq(AbsFile) /\ Len(u) = Len(AbsFiles) - 1
        /\ \A i \in 1 .. Len(AbsFiles) - 1 : u[i] = AbsFiles[i]
    <3>1. Len(AbsFiles) > 0
      BY <1>7, <2>1
    <3> QED
      BY <2>1, <3>1, FrontOf
  <2> HIDE DEF s, u
  <2>4. Len(u) = Depth'
    BY <1>7, <2>1, <2>3
  <2>5. \A i \in 1 .. Len(s) : s[i] = u[i]
    BY <1>8, <1>9, <2>1, <2>2, <2>3
  <2>6. s = u
    BY <2>2, <2>3, <2>4, <2>5, SeqEqual
  <2> QED
    BY <2>6 DEF s, u
<1>13. AbsGroups' = Front(AbsGroups)
  <2> DEFINE s == AbsGroups'
             u == Front(AbsGroups)
             T == Seq(Abs!Group)
  <2>1. /\ AbsGroups \in Seq(T) /\ Len(AbsGroups) = Depth
        /\ \A i \in 1 .. Depth : AbsGroups[i] = UnitGroups(i)
    BY <1>6 DEF PlacesExact
  <2>2. /\ s \in Seq(T) /\ Len(s) = Depth'
        /\ \A i \in 1 .. Depth' : s[i] = UnitGroups(i)'
    BY <1>6 DEF PlacesExact
  <2> HIDE DEF T
  <2>3. /\ u \in Seq(T) /\ Len(u) = Len(AbsGroups) - 1
        /\ \A i \in 1 .. Len(AbsGroups) - 1 : u[i] = AbsGroups[i]
    <3>1. Len(AbsGroups) > 0
      BY <1>7, <2>1
    <3> QED
      BY <2>1, <3>1, FrontOf
  <2>4. \A i \in 1 .. Depth' : UnitGroups(i)' = UnitGroups(i)
    <3>1. Current.ifdef_stack_ptr = ifdefs
      BY <1>1 DEF Start
    <3> QED
      BY <1>1, <1>2, <1>5, <1>10, <3>1, ReturnGroups
  <2> HIDE DEF s, u
  <2>5. Len(u) = Depth'
    BY <1>7, <2>1, <2>3
  <2>6. \A i \in 1 .. Len(s) : s[i] = u[i]
    BY <1>8, <2>1, <2>2, <2>3, <2>4
  <2>7. s = u
    BY <2>2, <2>3, <2>5, <2>6, SeqEqual
  <2> QED
    BY <2>7 DEF s, u
<1>14. Last(AbsFiles) = Brief(Current) /\ Last(AbsGroups) = Top /\ Len(AbsFiles) = Depth
  BY <1>1, Innermost
<1>15. Current.pos = Len(content[Current.name])
  <2>1. n \in Base .. n /\ n # Base
    BY <1>1, <1>3 DEF Base
  <2>2. Current.name # Main
    BY <1>1, <1>3, <2>1 DEF FilesRead
  <2> QED
    BY <1>1, <2>2 DEF AtEnd
<1>16. Defined' = Defined /\ content' = content
  BY <1>1, DefinesSame
<1>17. Abs!Leave
  <2>1. /\ Len(AbsFiles) > 1
        /\ Last(AbsFiles).pos = Len(content[Last(AbsFiles).name])
        /\ Last(AbsGroups) = <<>>
    BY <1>7, <1>11, <1>14, <1>15 DEF Brief
  <2> QED
    BY <1>12, <1>13, <1>16, <2>1, FrontAndLast DEF Abs!Leave, AbsFiles, AbsGroups
<1> QED
  BY <1>17 DEF Abs!Next

\* The start of a unit.
LEMMA StartMaps ==
    ASSUME CacheInv, IInv', StartUnit
    PROVE  Abs!Next
<1> DEFINE new == Opened(Main, 0)
<1>1. /\ phase = "idle" /\ phase' = "run" /\ ifdef_stack' = <<>>
      /\ file' = Append(file, new) /\ include_depth' = 0
      /\ UNCHANGED <<content, skipping, a, define_stack, sym_define>>
      /\ IInv /\ FlagsOK
  BY DEF StartUnit, CacheInv
<1>2. a' = 0
  BY <1>1 DEF FlagsOK, IInv, IdleOK
<1>3. new \in BufferedFile /\ new.ifdef_stack_ptr = 0
      /\ Brief(new) = [name |-> Main, pos |-> 0]
  BY DEF Opened, BufferedFile, Names, Brief
<1> HIDE DEF new
<1>4. Len(file') \in Nat /\ Len(file') > 0 /\ file'[Len(file')] = new
  <2>1. file \in Seq(BufferedFile)
    BY <1>1 DEF IInv, TypeOK
  <2>2. Len(file) \in Nat
    BY <2>1, LenProperties
  <2> QED
    BY <1>1, <1>3, <2>1, <2>2, OneMore
<1>5. Depth' = 1 /\ Base' = Len(file') /\ Current' = new
  BY <1>1, <1>4 DEF Depth, Base, Current, Last
<1>6. PlacesExact' /\ UnitExact'
  BY <1>1, PlacesAreNext, UnitIsNext
<1>7. AbsFiles' = <<[name |-> Main, pos |-> 0]>>
  <2> DEFINE s == AbsFiles'
             b == [name |-> Main, pos |-> 0]
  <2>1. /\ s \in Seq(AbsFile) /\ Len(s) = 1
        /\ \A i \in 1 .. 1 : s[i] = Brief(file'[Base' + i - 1])
    BY <1>5, <1>6 DEF PlacesExact, Brief
  <2>2. s[1] = b
    BY <1>3, <1>4, <1>5, <2>1
  <2> HIDE DEF s, b
  <2> QED
    BY <2>1, <2>2 DEF s, b
<1>8. Top' = <<>>
  <2>1. TopExact'
    BY <1>1, TopIsNext
  <2>2. Own' = 0
    BY <1>1, <1>3, <1>5 DEF Own, Start, ifdefs
  <2> QED
    BY <1>2, <2>1, <2>2 DEF TopExact
<1>9. AbsGroups' = << <<>> >>
  <2> DEFINE s == AbsGroups'
  <2>1. /\ s \in Seq(Seq(Abs!Group)) /\ Len(s) = 1
        /\ \A i \in 1 .. 1 : i = Depth' => s[i] = Top'
    BY <1>5, <1>6 DEF PlacesExact, Top
  <2>2. s[1] = <<>>
    BY <1>5, <1>8, <2>1
  <2> HIDE DEF s
  <2>3. s = << <<>> >>
    BY <2>1, <2>2
  <2> QED
    BY <2>3 DEF s
<1>10. AbsFiles = <<>> /\ AbsGroups = <<>>
  BY <1>1 DEF AbsFiles, AbsGroups
<1>11. Defined' = Defined /\ content' = content
  BY <1>1 DEF Defined, define_find
<1>12. Abs!Start
  BY <1>7, <1>9, <1>10, <1>11 DEF Abs!Start, AbsFiles, AbsGroups
<1> QED
  BY <1>12 DEF Abs!Next

\* The end of a unit, and the error that ends it.
LEMMA StopMaps ==
    ASSUME CacheInv, EndUnit, phase = "run"
    PROVE  Abs!Next
<1>1. /\ phase' = "idle" /\ FreeDefines /\ UNCHANGED content /\ IInv
  BY DEF EndUnit, CacheInv
<1>2. AbsFiles # <<>>
  BY <1>1, Innermost
<1>3. AbsFiles' = <<>> /\ AbsGroups' = <<>>
  BY <1>1 DEF AbsFiles, AbsGroups
<1>4. Defined' \subseteq Defined
  BY <1>1 DEF FreeDefines, Defined, define_find
<1>5. Abs!Stop
  BY <1>1, <1>2, <1>3, <1>4 DEF Abs!Stop, AbsFiles, AbsGroups
<1> QED
  BY <1>5 DEF Abs!Next

LEMMA LineRefines ==
    ASSUME CacheInv, IInv', NEW l \in NextLines, LineStep(l)
    PROVE  Abs!Next \/ Borrowed' \/ (IncludeCached(l) /\ Misleading(l.arg))
<1>1. CASE Borrowed
  BY <1>1, BorrowedLine DEF CacheInv
<1>2. CASE ~ Borrowed /\ ~ Borrowed'
  <2>1. CASE TextLine(l) \/ LineDirective(l)
    BY <1>2, <2>1, TextLineMaps
  <2>2. CASE Define(l) \/ Undef(l)
    BY <1>2, <2>2, DefineLineMaps
  <2>3. CASE IncludeCached(l)
    BY <1>2, <2>3, IncludeCachedMaps
  <2>4. CASE Include(l)
    BY <2>4, IncludeMaps
  <2>5. CASE If(l)
    BY <1>2, <2>5, IfMaps
  <2>6. CASE Else(l) \/ Elif(l)
    BY <1>2, <2>6, ContinueMaps
  <2>7. CASE Endif(l)
    BY <1>2, <2>7, EndifMaps
  <2>8. CASE SkipLine(l)
    BY <1>2, <2>8, SkipLineMaps
  <2> QED
    BY <2>1, <2>2, <2>3, <2>4, <2>5, <2>6, <2>7, <2>8 DEF LineStep
<1> QED
  BY <1>1, <1>2

\* Every step of the preprocessor, over the lines of all open files, the
\* starts and ends of the files and of the units, and errors, is a step of
\* CondInclusion or changes nothing that it sees: a line takes effect exactly
\* where every group around it is selected, a header is left unread only
\* where it would have no effect, and an included file returns to its
\* includer with its groups closed.  Excepted are the lines of a file whose
\* #else or #elif was taken for a group of its includer, and an #include
\* that the cache answers for a header with #elif or #include, or whose name
\* a #line takes.
THEOREM InclusionRefined == Spec => ImplementsCondInclusion
<1> DEFINE R == \/ Abs!Next
                \/ Borrowed'
                \/ \E l \in NextLines : IncludeCached(l) /\ Misleading(l.arg)
<1>1. ASSUME CacheInv, Next
      PROVE  R \/ UNCHANGED vars
  <2>1. IInv'
    BY <1>1, NextOK DEF CacheInv
  <2>2. CASE StartUnit
    BY <1>1, <2>1, <2>2, StartMaps
  <2>3. CASE EndOfMain \/ Fail
    BY <1>1, <2>3, StopMaps DEF EndOfMain, Fail
  <2>4. CASE EndOfInclude
    BY <1>1, <2>1, <2>4, LeaveMaps
  <2>5. CASE Quit
    BY <2>5 DEF Quit
  <2>6. CASE \E l \in NextLines : LineStep(l)
    BY <1>1, <2>1, <2>6, LineRefines
  <2> QED
    BY <1>1, <2>2, <2>3, <2>4, <2>5, <2>6 DEF Next
<1>2. CacheInv /\ [Next]_vars => [R]_vars
  BY <1>1
<1>3. ImplementsCondInclusion <=> [][R]_vars
  BY DEF ImplementsCondInclusion
<1> HIDE DEF R
<1> QED
  BY <1>2, <1>3, CacheInvariance, PTL DEF Spec
=============================================================================
