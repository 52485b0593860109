---------------------------- MODULE Units_proofs ----------------------------
(***************************************************************************)
(* Proofs about Units, for any texts and any errors.  First the passes of  *)
(* gen_inline_functions: they generate every inline function that has a    *)
(* symbol, and none twice.  That needs nothing of the tokens and of the    *)
(* labels: a function may use any function, at any place.  Then the label  *)
(* table: label_find gives the label that is visible.                      *)
(***************************************************************************)
EXTENDS Units, SequenceTheorems, WellFoundedInduction, TLAPS

\* s is a sequence (of whatever elements).
IsSeq(s) == \E T : s \in Seq(T)

\* A longer sequence has its elements and the new one.
LEMMA AppendIsSeq ==
    ASSUME NEW s, NEW e, IsSeq(s)
    PROVE  /\ IsSeq(Append(s, e))
           /\ Len(Append(s, e)) = Len(s) + 1
           /\ DOMAIN Append(s, e) = 1..Len(s) + 1
           /\ \A k \in 1..Len(s) : Append(s, e)[k] = s[k]
           /\ Append(s, e)[Len(s) + 1] = e
<1>1. PICK T : s \in Seq(T)
  BY DEF IsSeq
<1>2. s \in Seq(T \cup {e}) /\ e \in T \cup {e}
  BY <1>1
<1>3. Append(s, e) \in Seq(T \cup {e})
  BY <1>2
<1>4. IsSeq(Append(s, e))
  BY <1>3 DEF IsSeq
<1> QED
  BY <1>2, <1>4

LEMMA SeqDomain ==
    ASSUME NEW s, IsSeq(s)
    PROVE  Len(s) \in Nat /\ DOMAIN s = 1..Len(s)
<1>1. PICK T : s \in Seq(T)
  BY DEF IsSeq
<1> QED
  BY <1>1

LEMMA EmptyIsSeq == IsSeq(<<>>) /\ Len(<<>>) = 0 /\ DOMAIN <<>> = {}
<1>1. <<>> \in Seq({})
  OBVIOUS
<1> QED
  BY <1>1 DEF IsSeq

-----------------------------------------------------------------------------
\* The names of the functions that are recorded, and generated.
Pending   == {inline_fns[k].sym : k \in DOMAIN inline_fns} \ {Null}
Generated == {outs[k].f : k \in DOMAIN outs}

\* The function that is being read or generated.
Current == IF phase \in {"record", "body"} THEN {fn.f} ELSE {}

\* The shape of what the passes work on.
ShapeOK ==
    /\ IsSeq(inline_fns) /\ IsSeq(outs)
    /\ \A k \in DOMAIN inline_fns :
          inline_fns[k] = [sym |-> inline_fns[k].sym, toks |-> inline_fns[k].toks]
    /\ fn = [f |-> fn.f, toks |-> fn.toks, start |-> fn.start]
    /\ i \in Nat \ {0}

\* A function is at one place at a time: recorded once, in work, or generated
\* once; and it has been defined.
OncePlaced ==
    /\ \A j, k \in DOMAIN inline_fns :
          inline_fns[j].sym = inline_fns[k].sym /\ inline_fns[j].sym # Null => j = k
    /\ \A j, k \in DOMAIN outs : outs[j].f = outs[k].f => j = k
    /\ Pending \cap Generated = {}
    /\ Current \cap (Pending \cup Generated) = {}
    /\ Pending \cup Generated \cup Current \subseteq defined

\* Since a pass has begun without a function to generate, the functions it
\* went over have no symbol: only generating one makes symbols.
PassOK ==
    /\ phase = "passes" /\ ~ inline_generated =>
          \A k \in DOMAIN inline_fns : k < i => ~ Referenced(k)
    /\ phase = "returned" => \A k \in DOMAIN inline_fns : ~ Referenced(k)

InlineInv == ShapeOK /\ OncePlaced /\ PassOK

-----------------------------------------------------------------------------
LEMMA InitInline == Init => InlineInv
<1> SUFFICES ASSUME Init PROVE InlineInv
  OBVIOUS
<1>1. ShapeOK
  BY EmptyIsSeq DEF Init, ShapeOK, NoFunction
<1>2. OncePlaced
  BY EmptyIsSeq DEF Init, OncePlaced, Pending, Generated, Current
<1>3. PassOK
  BY DEF Init, PassOK
<1> QED
  BY <1>1, <1>2, <1>3 DEF InlineInv

\* A statement becomes part of the function.
LEMMA StatementInline ==
    ASSUME InlineInv, phase = "body", phase' = "body",
           fn' = [fn EXCEPT !.toks = Append(@, tok)],
           defined' = defined, UNCHANGED <<inlines, outs>>
    PROVE  InlineInv'
<1>1. fn'.f = fn.f /\ fn' = [f |-> fn'.f, toks |-> fn'.toks, start |-> fn'.start]
  BY DEF InlineInv, ShapeOK
<1>2. ShapeOK'
  BY <1>1 DEF InlineInv, ShapeOK, inlines
<1>3. OncePlaced'
  BY <1>1 DEF InlineInv, OncePlaced, Pending, Generated, Current, inlines
<1>4. PassOK'
  BY DEF PassOK
<1> QED
  BY <1>2, <1>3, <1>4 DEF InlineInv

\* An error abandons the function; the passes begin.
LEMMA ErrorInline ==
    ASSUME InlineInv, NEW L, NEW in, Error(L, in)
    PROVE  InlineInv'
<1>1. ShapeOK'
  BY DEF InlineInv, ShapeOK, Error, NoFunction, output
<1>2. OncePlaced'
  BY DEF InlineInv, OncePlaced, Pending, Generated, Current, Error, output, symbols
<1>3. PassOK'
  BY <1>1, SeqDomain DEF PassOK, Error, ShapeOK
<1> QED
  BY <1>1, <1>2, <1>3 DEF InlineInv

\* A step that leaves functions alone, and does not end a pass.
LEMMA FrameInline ==
    ASSUME InlineInv, UNCHANGED <<fn, symbols, inlines, outs>>,
           phase' \in {"idle", "decl", "undefined", phase}
    PROVE  InlineInv'
<1>1. ShapeOK'
  BY DEF InlineInv, ShapeOK, inlines
<1>2. Current' \subseteq Current
  BY DEF Current
<1>3. OncePlaced'
  BY <1>2 DEF InlineInv, OncePlaced, Pending, Generated, inlines, symbols
<1>4. PassOK'
  BY DEF InlineInv, PassOK, inlines, symbols, Referenced
<1> QED
  BY <1>1, <1>3, <1>4 DEF InlineInv

LEMMA BeginFunctionInline == InlineInv /\ BeginFunction => InlineInv'
<1> SUFFICES ASSUME InlineInv, BeginFunction PROVE InlineInv'
  OBVIOUS
<1>1. ShapeOK'
  BY DEF InlineInv, ShapeOK, BeginFunction, inlines, output
<1>2. Current' = {tok.f} /\ tok.f \notin defined /\ defined' = defined \cup {tok.f}
  BY DEF BeginFunction, DeclError, Current
<1>3. inline_fns' = inline_fns /\ outs' = outs
  BY DEF BeginFunction, inlines, output
<1>4. Pending' = Pending /\ Generated' = Generated
  BY <1>3 DEF Pending, Generated
<1>5. Current' \cap (Pending' \cup Generated') = {}
  BY <1>2, <1>4 DEF InlineInv, OncePlaced
<1>6. OncePlaced'
  BY <1>2, <1>3, <1>4, <1>5 DEF InlineInv, OncePlaced
<1>7. PassOK'
  BY DEF PassOK, BeginFunction
<1> QED
  BY <1>1, <1>6, <1>7 DEF InlineInv

LEMMA RecordInline == InlineInv /\ Record => InlineInv'
<1> SUFFICES ASSUME InlineInv, Record PROVE InlineInv'
  OBVIOUS
<1> DEFINE q == Append(fn.toks, tok)
<1>1. CASE tok.op = "close" /\ Level(q) = 0
  <2> DEFINE new == [sym |-> fn.f, toks |-> q]
  <2>1. /\ phase = "record" /\ phase' = "decl" /\ fn' = NoFunction
        /\ inline_fns' = Append(inline_fns, new)
        /\ UNCHANGED <<outs, defined, used, i, inline_generated>>
    BY <1>1 DEF Record, output, symbols
  <2>2. IsSeq(inline_fns) /\ Len(inline_fns) \in Nat /\ DOMAIN inline_fns = 1..Len(inline_fns)
    BY SeqDomain DEF InlineInv, ShapeOK
  <2> HIDE DEF new
  <2>3. /\ IsSeq(inline_fns') /\ DOMAIN inline_fns' = 1..Len(inline_fns) + 1
        /\ \A k \in 1..Len(inline_fns) : inline_fns'[k] = inline_fns[k]
        /\ inline_fns'[Len(inline_fns) + 1] = new
    BY <2>1, <2>2, AppendIsSeq
  <2>4. new.sym = fn.f /\ new = [sym |-> new.sym, toks |-> new.toks]
    BY DEF new
  <2>5. ShapeOK'
    BY <2>1, <2>2, <2>3, <2>4 DEF InlineInv, ShapeOK, NoFunction
  <2>6. Pending' \subseteq Pending \cup {fn.f}
    BY <2>2, <2>3, <2>4 DEF Pending
  <2>7. fn.f \notin Pending /\ fn.f \notin Generated /\ fn.f \in defined
    BY <2>1 DEF InlineInv, OncePlaced, Current
  <2>8. ASSUME NEW j \in DOMAIN inline_fns', NEW k \in DOMAIN inline_fns',
               inline_fns'[j].sym = inline_fns'[k].sym, inline_fns'[j].sym # Null
        PROVE  j = k
    <3>1. \A a \in 1..Len(inline_fns) : inline_fns'[a].sym # Null => inline_fns'[a].sym \in Pending
      BY <2>2, <2>3 DEF Pending
    <3>2. CASE j \in 1..Len(inline_fns) /\ k \in 1..Len(inline_fns)
      BY <2>2, <2>3, <2>8, <3>2 DEF InlineInv, OncePlaced
    <3>3. CASE j = Len(inline_fns) + 1 /\ k \in 1..Len(inline_fns)
      BY <2>3, <2>4, <2>7, <2>8, <3>1, <3>3
    <3>4. CASE k = Len(inline_fns) + 1 /\ j \in 1..Len(inline_fns)
      BY <2>3, <2>4, <2>7, <2>8, <3>1, <3>4
    <3> QED
      BY <2>2, <2>3, <3>2, <3>3, <3>4
  <2>9. Generated' = Generated /\ Current' = {}
    BY <2>1 DEF Generated, Current
  <2>10. OncePlaced'
    BY <2>1, <2>6, <2>7, <2>8, <2>9 DEF InlineInv, OncePlaced
  <2>11. PassOK'
    BY <2>1 DEF PassOK
  <2> QED
    BY <2>5, <2>10, <2>11 DEF InlineInv
<1>2. CASE ~ (tok.op = "close" /\ Level(q) = 0)
  <2>1. /\ phase = "record" /\ phase' = "record" /\ fn' = [fn EXCEPT !.toks = q]
        /\ UNCHANGED <<inline_fns, outs, defined, used, i, inline_generated>>
    BY <1>2 DEF Record, output, symbols
  <2>2. fn'.f = fn.f /\ fn' = [f |-> fn'.f, toks |-> fn'.toks, start |-> fn'.start]
    BY <2>1 DEF InlineInv, ShapeOK
  <2>3. ShapeOK'
    BY <2>1, <2>2 DEF InlineInv, ShapeOK
  <2>4. Pending' = Pending /\ Generated' = Generated /\ Current' = Current
    BY <2>1, <2>2 DEF Pending, Generated, Current
  <2>5. OncePlaced'
    BY <2>1, <2>4 DEF InlineInv, OncePlaced
  <2>6. PassOK'
    BY <2>1 DEF PassOK
  <2> QED
    BY <2>3, <2>5, <2>6 DEF InlineInv
<1> QED
  BY <1>1, <1>2

LEMMA EndFunctionInline ==
    ASSUME InlineInv, phase = "body", NEW L, NEW r, FunctionDone(L, r)
    PROVE  InlineInv'
<1> DEFINE new == [fn EXCEPT !.toks = Append(@, tok)]
<1>1. /\ outs' = Append(outs, new) /\ fn' = NoFunction
      /\ phase' \in {"decl", "passes"}
      /\ phase' = "passes" => inline_generated' = TRUE
      /\ i' \in {i, i + 1}
      /\ UNCHANGED <<inline_fns, defined, used>>
  BY DEF FunctionDone, symbols
<1>2. new.f = fn.f
  BY DEF InlineInv, ShapeOK
<1>3. IsSeq(outs) /\ Len(outs) \in Nat /\ DOMAIN outs = 1..Len(outs)
  BY SeqDomain DEF InlineInv, ShapeOK
<1> HIDE DEF new
<1>4. /\ IsSeq(outs') /\ DOMAIN outs' = 1..Len(outs) + 1
      /\ \A k \in 1..Len(outs) : outs'[k] = outs[k]
      /\ outs'[Len(outs) + 1] = new
  BY <1>1, <1>3, AppendIsSeq
<1>5. ShapeOK'
  BY <1>1, <1>4 DEF InlineInv, ShapeOK, NoFunction
<1>6. fn.f \notin Generated /\ fn.f \notin Pending /\ fn.f \in defined
  BY DEF InlineInv, OncePlaced, Current
<1>7. Generated' \subseteq Generated \cup {fn.f}
  BY <1>2, <1>3, <1>4 DEF Generated
<1>8. ASSUME NEW j \in DOMAIN outs', NEW k \in DOMAIN outs', outs'[j].f = outs'[k].f
      PROVE  j = k
  <2>1. \A a \in 1..Len(outs) : outs'[a].f \in Generated
    BY <1>3, <1>4 DEF Generated
  <2>2. CASE j \in 1..Len(outs) /\ k \in 1..Len(outs)
    BY <1>3, <1>4, <1>8, <2>2 DEF InlineInv, OncePlaced
  <2>3. CASE j = Len(outs) + 1 /\ k \in 1..Len(outs)
    BY <1>2, <1>4, <1>6, <1>8, <2>1, <2>3
  <2>4. CASE k = Len(outs) + 1 /\ j \in 1..Len(outs)
    BY <1>2, <1>4, <1>6, <1>8, <2>1, <2>4
  <2> QED
    BY <1>3, <1>4, <2>2, <2>3, <2>4
<1>9. Pending' = Pending /\ Current' = {}
  BY <1>1 DEF Pending, Current
<1>10. OncePlaced'
  BY <1>1, <1>6, <1>7, <1>8, <1>9 DEF InlineInv, OncePlaced
<1>11. PassOK'
  BY <1>1 DEF PassOK
<1> QED
  BY <1>5, <1>10, <1>11 DEF InlineInv

LEMMA GenerateInlineInline == InlineInv /\ GenerateInline => InlineInv'
<1> SUFFICES ASSUME InlineInv, GenerateInline PROVE InlineInv'
  OBVIOUS
<1> DEFINE v == inline_fns[i].sym
<1>1. /\ phase = "passes" /\ phase' = "body" /\ i <= Len(inline_fns)
      /\ inline_fns' = [inline_fns EXCEPT ![i].sym = Null]
      /\ fn' = [f |-> v, toks |-> <<>>, start |-> Len(code)]
      /\ v # Null
      /\ UNCHANGED <<outs, defined, used, i>>
  BY DEF GenerateInline, Referenced, symbols, output
<1>2. /\ IsSeq(inline_fns) /\ Len(inline_fns) \in Nat
      /\ DOMAIN inline_fns = 1..Len(inline_fns) /\ i \in DOMAIN inline_fns
  BY <1>1, SeqDomain DEF InlineInv, ShapeOK
<1>3. /\ DOMAIN inline_fns' = DOMAIN inline_fns
      /\ \A k \in DOMAIN inline_fns : k # i => inline_fns'[k] = inline_fns[k]
      /\ inline_fns'[i].sym = Null
      /\ inline_fns'[i] = [sym |-> Null, toks |-> inline_fns[i].toks]
  BY <1>1, <1>2 DEF InlineInv, ShapeOK
<1>4. IsSeq(inline_fns')
  <2>1. PICK T : inline_fns \in Seq(T)
    BY <1>2 DEF IsSeq
  <2>2. inline_fns' \in Seq(T \cup {[sym |-> Null, toks |-> inline_fns[i].toks]})
    BY <1>1, <1>2, <1>3, <2>1
  <2> QED
    BY <2>2 DEF IsSeq
<1>5. ShapeOK'
  BY <1>1, <1>3, <1>4 DEF InlineInv, ShapeOK
<1>6. v \in Pending
  BY <1>1, <1>2 DEF Pending
<1>7. Pending' \subseteq Pending /\ v \notin Pending'
  BY <1>1, <1>2, <1>3 DEF InlineInv, OncePlaced, Pending
<1>8. Generated' = Generated /\ Current' = {v}
  BY <1>1 DEF Generated, Current
<1>9. \A j, k \in DOMAIN inline_fns' :
         inline_fns'[j].sym = inline_fns'[k].sym /\ inline_fns'[j].sym # Null => j = k
  BY <1>3 DEF InlineInv, OncePlaced
<1>10. OncePlaced'
  <2>1. Pending \cap Generated = {} /\ Pending \cup Generated \subseteq defined
    BY DEF InlineInv, OncePlaced
  <2>2. \A j, k \in DOMAIN outs' : outs'[j].f = outs'[k].f => j = k
    BY <1>1 DEF InlineInv, OncePlaced
  <2> HIDE DEF v
  <2> QED
    BY <1>1, <1>6, <1>7, <1>8, <1>9, <2>1, <2>2 DEF OncePlaced
<1>11. PassOK'
  BY <1>1 DEF PassOK
<1> QED
  BY <1>5, <1>10, <1>11 DEF InlineInv

\* A pass goes over a function without a symbol, ends, or is the last.
LEMMA PassInline == InlineInv /\ (SkipInline \/ NextPass \/ FinishUnit) => InlineInv'
<1> SUFFICES ASSUME InlineInv, SkipInline \/ NextPass \/ FinishUnit PROVE InlineInv'
  OBVIOUS
<1>1. UNCHANGED <<fn, symbols, inline_fns, outs>>
  BY DEF SkipInline, NextPass, FinishUnit, parser, inlines, output
<1>2. phase = "passes" /\ phase' \in {"passes", "returned"}
  BY DEF SkipInline, NextPass, FinishUnit, parser
<1>3. /\ Len(inline_fns) \in Nat /\ DOMAIN inline_fns = 1..Len(inline_fns)
      /\ i \in Nat \ {0}
  BY SeqDomain DEF InlineInv, ShapeOK
<1>4. i' \in {i, i + 1, 1}
  BY DEF SkipInline, NextPass, FinishUnit, inlines
<1>5. ShapeOK'
  BY <1>1, <1>3, <1>4 DEF InlineInv, ShapeOK
<1>6. Pending' = Pending /\ Generated' = Generated /\ Current' = {}
  BY <1>1, <1>2 DEF Pending, Generated, Current
<1>7. OncePlaced'
  BY <1>1, <1>6 DEF InlineInv, OncePlaced, symbols
<1>8. \A k : Referenced(k)' = Referenced(k)
  BY <1>1 DEF Referenced, symbols
<1>9. PassOK'
  <2>1. CASE SkipInline
    <3>1. phase' = "passes" /\ i' = i + 1 /\ ~ Referenced(i) /\ UNCHANGED inline_generated
      BY <2>1, <1>2 DEF SkipInline, parser
    <3> QED
      BY <3>1, <1>1, <1>2, <1>3, <1>8 DEF InlineInv, PassOK
  <2>2. CASE NextPass
    <3>1. i' = 1 /\ phase' = "passes"
      BY <2>2, <1>2 DEF NextPass, parser
    <3> QED
      BY <3>1, <1>1, <1>3 DEF PassOK
  <2>3. CASE FinishUnit
    <3>1. phase' = "returned" /\ i > Len(inline_fns) /\ ~ inline_generated
      BY <2>3 DEF FinishUnit
    <3> QED
      BY <3>1, <1>1, <1>2, <1>3, <1>8 DEF InlineInv, PassOK
  <2> QED
    BY <2>1, <2>2, <2>3
<1> QED
  BY <1>5, <1>7, <1>9 DEF InlineInv

LEMMA ReturnInline == InlineInv /\ Return => InlineInv'
<1> SUFFICES ASSUME InlineInv, Return PROVE InlineInv'
  OBVIOUS
<1>1. ShapeOK'
  BY EmptyIsSeq DEF Return, InlineInv, ShapeOK
<1>2. OncePlaced'
  BY EmptyIsSeq DEF Return, OncePlaced, Pending, Generated, Current
<1>3. PassOK'
  BY DEF Return, PassOK
<1> QED
  BY <1>1, <1>2, <1>3 DEF InlineInv

-----------------------------------------------------------------------------
LEMMA BlockInline == InlineInv /\ Statement => InlineInv'
<1> SUFFICES ASSUME InlineInv, Statement PROVE InlineInv'
  OBVIOUS
<1> USE DEF symbols
<1>1. CASE OpenBlock
  BY <1>1, StatementInline DEF OpenBlock, Emit
<1>2. CASE DeclareLabel
  BY <1>2, StatementInline DEF DeclareLabel, InBlock, Emit
<1>3. CASE Goto
  <2>1. fn' = [fn EXCEPT !.toks = Append(@, tok)]
    BY <1>3 DEF Goto, Emit
  <2> QED
    BY <1>3, <2>1, StatementInline DEF Goto, InBlock
<1>4. CASE AddressOfLabel
  BY <1>4, StatementInline DEF AddressOfLabel, InBlock, Emit
<1>5. CASE DefineLabel
  BY <1>5, StatementInline DEF DefineLabel, InBlock
<1>6. CASE Call
  BY <1>6, StatementInline DEF Call, InBlock, Emit
<1>7. CASE StatementWrong
  BY <1>7, ErrorInline DEF StatementWrong
<1>8. CASE CloseBlock
  <2>1. CASE PopFails(labels, "local", Opened)
    BY <1>8, <2>1, ErrorInline DEF CloseBlock
  <2>2. CASE ~ PopFails(labels, "local", Opened)
    BY <1>8, <2>2, StatementInline DEF CloseBlock, InBlock
  <2> QED
    BY <2>1, <2>2
<1>9. CASE EndFunction
  <2> DEFINE L == Popped(labels, "local", Opened)
  <2>1. CASE PopFails(labels, "local", Opened)
    BY <1>9, <2>1, ErrorInline DEF EndFunction
  <2>2. CASE ~ PopFails(labels, "local", Opened) /\ PopFails(L, "global", 0)
    BY <1>9, <2>2, ErrorInline DEF EndFunction
  <2>3. CASE ~ PopFails(labels, "local", Opened) /\ ~ PopFails(L, "global", 0)
    <3>1. FunctionDone(L, Resolved(labels, "local", Opened)) /\ phase = "body"
      BY <1>9, <2>3 DEF EndFunction, InBlock
    <3> QED
      BY <3>1, EndFunctionInline
  <2> QED
    BY <2>1, <2>2, <2>3
<1>10. CASE TouchFreed
  BY <1>10, FrameInline DEF TouchFreed, UseFreed, output
<1> QED
  BY <1>1, <1>2, <1>3, <1>4, <1>5, <1>6, <1>7, <1>8, <1>9, <1>10 DEF Statement

LEMMA NextInline == InlineInv /\ [Next]_vars => InlineInv'
<1> SUFFICES ASSUME InlineInv, [Next]_vars PROVE InlineInv'
  OBVIOUS
<1>1. CASE StartUnit
  <2>1. UNCHANGED <<fn, symbols, inlines, outs>> /\ phase' = "decl"
    BY <1>1 DEF StartUnit, output
  <2> QED
    BY <2>1, FrameInline
<1>2. CASE Recreate
  <2>1. UNCHANGED <<fn, symbols, inlines, outs, phase>>
    BY <1>2 DEF Recreate, output
  <2> QED
    BY <2>1, FrameInline
<1>3. CASE DeclareWrong \/ RecordWrong
  BY <1>3, ErrorInline DEF DeclareWrong, RecordWrong
<1>4. CASE BeginFunction
  BY <1>4, BeginFunctionInline
<1>5. CASE Record
  BY <1>5, RecordInline
<1>6. CASE EndOfUnit
  <2>1. /\ UNCHANGED <<fn, symbols, inline_fns, outs>>
        /\ phase = "decl" /\ phase' = "passes" /\ i' = 1
    BY <1>6 DEF EndOfUnit, output
  <2>2. ShapeOK'
    BY <2>1 DEF InlineInv, ShapeOK
  <2>3. Pending' = Pending /\ Generated' = Generated /\ Current' = {}
    BY <2>1 DEF Pending, Generated, Current
  <2>4. OncePlaced'
    BY <2>1, <2>3 DEF InlineInv, OncePlaced, symbols
  <2>5. PassOK'
    BY <2>1, <2>2, SeqDomain DEF PassOK, ShapeOK
  <2> QED
    BY <2>2, <2>4, <2>5 DEF InlineInv
<1>7. CASE Statement
  BY <1>7, BlockInline
<1>8. CASE GenerateInline
  BY <1>8, GenerateInlineInline
<1>9. CASE SkipInline \/ NextPass \/ FinishUnit
  BY <1>9, PassInline
<1>10. CASE Return
  BY <1>10, ReturnInline
<1>11. CASE UNCHANGED vars
  <2>1. UNCHANGED <<fn, symbols, inlines, outs, phase>>
    BY <1>11 DEF vars, symbols, inlines
  <2> QED
    BY <2>1, FrameInline
<1> QED
  BY <1>1, <1>2, <1>3, <1>4, <1>5, <1>6, <1>7, <1>8, <1>9, <1>10, <1>11
     DEF Next, Compile, Passes

\* Every inline function that has a symbol is generated before tcc_compile
\* returns, and no function twice.  (tccgen.c:5725-5757)
THEOREM InlineFunctionsComplete == Spec => []InlinesComplete
<1>1. InlineInv => InlinesComplete
  BY DEF InlineInv, OncePlaced, PassOK, InlinesComplete
<1> QED
  BY <1>1, InitInline, NextInline, PTL DEF Spec

-----------------------------------------------------------------------------
(***************************************************************************)
(* The label table.                                                        *)
(***************************************************************************)

\* What next() can give.
Lexemes == Tokens \cup {EndOfFile}

Input == [macro : Seq(Lexemes) \cup {Null}, unget : BOOLEAN,
          saved : Seq(Lexemes) \cup {Null}, file : Seq(Tokens)]

Recorded == [sym : Funcs \cup {Null}, toks : Seq(Lexemes)]

LabelTable == [sym : [Slots -> Label], head : [Names -> Slots \cup {Null}],
               global : Seq(Slots), local : Seq(Slots), dangling : SUBSET Stacks]

\* The types of the tokens that are read and of those that are recorded.
InputOK ==
    /\ input \in Input /\ tok \in Lexemes
    /\ inline_fns \in Seq(Recorded)
    /\ phase = "record" => fn.toks \in Seq(Lexemes)
    /\ Current \subseteq Funcs
    /\ defined \subseteq Funcs /\ used \subseteq Funcs

\* A table of labels whose addresses are in the first n cells.
TableOK(L, n) ==
    /\ L \in LabelTable
    /\ \A s \in Slots : L.sym[s].jnext \in 0..n

CodeOK == /\ code \in Seq(Nat)
          /\ \A a \in DOMAIN code : code[a] \in 0..Len(code)

\* The depths of local_label_stack where the blocks begin.
DepthsOK(q, n) ==
    /\ q \in Seq(Nat)
    /\ \A k \in DOMAIN q : q[k] <= n /\ \A j \in 1..k : q[j] <= q[k]

PhaseOK ==
    /\ phase \in {"idle", "decl", "record", "body", "passes", "returned",
                  "exited", "undefined"}
    /\ phase \notin {"body", "undefined"} => llabels = <<>>
    /\ i \in 1..Len(inline_fns) + 1
    /\ phase \in {"decl", "record"} => jmp
    /\ phase = "body" /\ ~ jmp => i <= Len(inline_fns)
    /\ jmp \in BOOLEAN

TypeInv == /\ PhaseOK /\ InputOK /\ CodeOK
           /\ TableOK(labels, Len(code))
           /\ DepthsOK(llabels, Len(labels.local))

\* What sym_label of v is when the n oldest local labels are all there are:
\* the newest of v, or else the label of the function, or else NULL.
Finds(L, v, n, x) ==
    \/ \E k \in 1..n : /\ x = L.local[k] /\ L.sym[L.local[k]].v = v
                       /\ \A j \in k+1..n : L.sym[L.local[j]].v # v
    \/ /\ \A j \in 1..n : L.sym[L.local[j]].v # v
       /\ \/ \E k \in 1..Len(L.global) :
                x = L.global[k] /\ L.sym[L.global[k]].v = v
          \/ /\ \A k \in 1..Len(L.global) : L.sym[L.global[k]].v # v
             /\ x = Null

\* Each head, and what each label hides, is the label of the name that is
\* visible there; a function has one label of a name.
ChainsOK(L) ==
    /\ \A v \in Names : Finds(L, v, Len(L.local), L.head[v])
    /\ \A k \in 1..Len(L.local) :
          Finds(L, L.sym[L.local[k]].v, k - 1, L.sym[L.local[k]].prev_tok)
    /\ \A j, k \in 1..Len(L.global) :
          L.sym[L.global[j]].v = L.sym[L.global[k]].v => j = k
    /\ \A k \in 1..Len(L.global) : L.sym[L.global[k]].prev_tok = Null

\* No label that an error left is on local_label_stack, and none was freed.
Fresh(L, q) ==
    /\ L.dangling = {}
    /\ IF q = <<>> THEN L.local = <<>> ELSE q[1] = 0

\* The chains are right unless an error left something; a unit that is not
\* tainted has found nothing of the kind.
LabelInv ==
    /\ Fresh(labels, llabels) => ChainsOK(labels)
    /\ ~ tainted /\ phase # "idle" => Fresh(labels, llabels)

-----------------------------------------------------------------------------
\* What is visible with the n oldest local labels is decided by their names
\* and by the global labels.
LEMMA FindsSame ==
    ASSUME NEW L, NEW L2, NEW n \in Nat, NEW v, NEW x, Finds(L, v, n, x),
           L2.global = L.global,
           \A k \in 1..n : /\ L2.local[k] = L.local[k]
                           /\ L2.sym[L.local[k]].v = L.sym[L.local[k]].v,
           \A k \in 1..Len(L.global) :
              L2.sym[L.global[k]].v = L.sym[L.global[k]].v
    PROVE  Finds(L2, v, n, x)
<1>1. CASE \E k \in 1..n : /\ x = L.local[k] /\ L.sym[L.local[k]].v = v
                           /\ \A j \in k+1..n : L.sym[L.local[j]].v # v
  <2>1. PICK k \in 1..n : /\ x = L.local[k] /\ L.sym[L.local[k]].v = v
                          /\ \A j \in k+1..n : L.sym[L.local[j]].v # v
    BY <1>1
  <2>2. \A j \in k+1..n : j \in 1..n
    OBVIOUS
  <2>3. x = L2.local[k] /\ L2.sym[L2.local[k]].v = v
    BY <2>1
  <2>4. \A j \in k+1..n : L2.sym[L2.local[j]].v # v
    BY <2>1, <2>2
  <2> QED
    BY <2>3, <2>4 DEF Finds
<1>2. CASE ~ \E k \in 1..n : /\ x = L.local[k] /\ L.sym[L.local[k]].v = v
                             /\ \A j \in k+1..n : L.sym[L.local[j]].v # v
  <2>1. \A j \in 1..n : L2.sym[L2.local[j]].v # v
    BY <1>2 DEF Finds
  <2>2. \/ \E k \in 1..Len(L2.global) : x = L2.global[k] /\ L2.sym[L2.global[k]].v = v
        \/ /\ \A k \in 1..Len(L2.global) : L2.sym[L2.global[k]].v # v
           /\ x = Null
    <3>1. \/ \E k \in 1..Len(L.global) : x = L.global[k] /\ L.sym[L.global[k]].v = v
          \/ /\ \A k \in 1..Len(L.global) : L.sym[L.global[k]].v # v
             /\ x = Null
      BY <1>2 DEF Finds
    <3>2. /\ L2.global = L.global
          /\ \A k \in 1..Len(L.global) : L2.sym[L.global[k]].v = L.sym[L.global[k]].v
      OBVIOUS
    <3>3. CASE \E k \in 1..Len(L.global) : x = L.global[k] /\ L.sym[L.global[k]].v = v
      BY <3>2, <3>3
    <3>4. CASE (\A k \in 1..Len(L.global) : L.sym[L.global[k]].v # v) /\ x = Null
      BY <3>2, <3>4
    <3> QED
      BY <3>1, <3>3, <3>4
  <2> QED
    BY <2>1, <2>2 DEF Finds
<1> QED
  BY <1>1, <1>2

\* What is found for a name.
LEMMA FindsWhat ==
    ASSUME NEW L, L \in LabelTable, NEW v, NEW n \in Nat, n <= Len(L.local), NEW x, Finds(L, v, n, x)
    PROVE  /\ x \in OnStack(L) \/ x = Null
           /\ x = Null => /\ \A k \in 1..n : L.sym[L.local[k]].v # v
                          /\ \A k \in 1..Len(L.global) : L.sym[L.global[k]].v # v
<1>1. Null \notin Slots
  BY LabelsAssumption DEF Slots
<1>2. /\ \A k \in 1..n : L.local[k] \in Slots /\ L.local[k] \in OnStack(L)
      /\ \A k \in 1..Len(L.global) : L.global[k] \in Slots /\ L.global[k] \in OnStack(L)
  BY DEF LabelTable, OnStack, Elements
<1> QED
  BY <1>1, <1>2 DEF Finds

LEMMA StackElements ==
    ASSUME NEW L, L \in LabelTable
    PROVE  /\ Len(L.local) \in Nat /\ Len(L.global) \in Nat
           /\ \A k \in 1..Len(L.local) : L.local[k] \in Slots /\ L.local[k] \in OnStack(L)
           /\ \A k \in 1..Len(L.global) : L.global[k] \in Slots /\ L.global[k] \in OnStack(L)
  BY DEF LabelTable, OnStack, Elements

LEMMA FreshIs ==
    ASSUME NEW L, Room(L)
    PROVE  FreshSlot(L) \in Slots /\ FreshSlot(L) \notin OnStack(L)
  BY DEF Room, FreshSlot

\* The tables after label_push.
LEMMA PushLocalIs ==
    ASSUME NEW L, L \in LabelTable, NEW v \in Names, NEW r \in States, Room(L),
           NEW L2, L2 = PushLocal(L, v, r), NEW s, s = FreshSlot(L),
           NEW new, new = [v |-> v, r |-> r, prev_tok |-> L.head[v],
                           jumps |-> {}, jnext |-> 0, refs |-> {}]
    PROVE  /\ L2 \in LabelTable
           /\ L2.global = L.global /\ L2.dangling = L.dangling
           /\ L2.local = Append(L.local, s)
           /\ L2.head = [L.head EXCEPT ![v] = s]
           /\ L2.sym = [L.sym EXCEPT ![s] = new]
<1>1. s \in Slots /\ new \in Label
  BY FreshIs DEF LabelTable, Label
<1>2. L2 = [L EXCEPT !.sym[s] = new, !.head[v] = s, !.local = Append(@, s)]
  BY DEF PushLocal
<1> HIDE DEF Label
<1>3. [L.sym EXCEPT ![s] = new] \in [Slots -> Label]
  BY <1>1 DEF LabelTable
<1>4. [L.head EXCEPT ![v] = s] \in [Names -> Slots \cup {Null}]
  BY <1>1 DEF LabelTable
<1>5. Append(L.local, s) \in Seq(Slots)
  BY <1>1 DEF LabelTable
<1>6. L2 = [sym |-> [L.sym EXCEPT ![s] = new], head |-> [L.head EXCEPT ![v] = s],
            global |-> L.global, local |-> Append(L.local, s), dangling |-> L.dangling]
  BY <1>2 DEF LabelTable
<1> QED
  BY <1>3, <1>4, <1>5, <1>6 DEF LabelTable

LEMMA PushGlobalIs ==
    ASSUME NEW L, L \in LabelTable, NEW v \in Names, NEW r \in States, Room(L),
           L.head[v] = Null,
           NEW L2, L2 = PushGlobal(L, v, r), NEW s, s = FreshSlot(L),
           NEW new, new = [v |-> v, r |-> r, prev_tok |-> Null,
                           jumps |-> {}, jnext |-> 0, refs |-> {}]
    PROVE  /\ L2 \in LabelTable
           /\ L2.local = L.local /\ L2.dangling = L.dangling
           /\ L2.global = Append(L.global, s)
           /\ L2.head = [L.head EXCEPT ![v] = s]
           /\ L2.sym = [L.sym EXCEPT ![s] = new]
<1>1. s \in Slots /\ new \in Label
  BY FreshIs DEF LabelTable, Label
<1>2. L2 = [[L EXCEPT !.sym[s] = new, !.global = Append(@, s)] EXCEPT !.head[v] = s]
  BY DEF PushGlobal
<1> HIDE DEF Label
<1>3. [L.sym EXCEPT ![s] = new] \in [Slots -> Label]
  BY <1>1 DEF LabelTable
<1>4. [L.head EXCEPT ![v] = s] \in [Names -> Slots \cup {Null}]
  BY <1>1 DEF LabelTable
<1>5. Append(L.global, s) \in Seq(Slots)
  BY <1>1 DEF LabelTable
<1>6. L2 = [sym |-> [L.sym EXCEPT ![s] = new], head |-> [L.head EXCEPT ![v] = s],
            global |-> Append(L.global, s), local |-> L.local, dangling |-> L.dangling]
  BY <1>2 DEF LabelTable
<1> QED
  BY <1>3, <1>4, <1>5, <1>6 DEF LabelTable

\* A newer label of another name changes nothing.
LEMMA FindsMore ==
    ASSUME NEW L, NEW v, NEW n \in Nat, NEW x, Finds(L, v, n, x),
           L.sym[L.local[n + 1]].v # v
    PROVE  Finds(L, v, n + 1, x)
<1>1. \A j \in 1..n + 1 : j \in 1..n \/ j = n + 1
  OBVIOUS
<1>2. CASE \E k \in 1..n : /\ x = L.local[k] /\ L.sym[L.local[k]].v = v
                           /\ \A j \in k+1..n : L.sym[L.local[j]].v # v
  <2>1. PICK k \in 1..n : /\ x = L.local[k] /\ L.sym[L.local[k]].v = v
                          /\ \A j \in k+1..n : L.sym[L.local[j]].v # v
    BY <1>2
  <2>2. k \in 1..n + 1 /\ \A j \in k+1..n + 1 : j \in k+1..n \/ j = n + 1
    OBVIOUS
  <2>3. \A j \in k+1..n + 1 : L.sym[L.local[j]].v # v
    BY <2>1, <2>2
  <2> QED
    BY <2>1, <2>2, <2>3 DEF Finds
<1>3. CASE ~ \E k \in 1..n : /\ x = L.local[k] /\ L.sym[L.local[k]].v = v
                             /\ \A j \in k+1..n : L.sym[L.local[j]].v # v
  <2>1. \A j \in 1..n + 1 : L.sym[L.local[j]].v # v
    BY <1>1, <1>3 DEF Finds
  <2> QED
    BY <1>3, <2>1 DEF Finds
<1> QED
  BY <1>2, <1>3

\* A local label hides what was visible.
LEMMA PushLocalChains ==
    ASSUME NEW L, L \in LabelTable, ChainsOK(L), NEW v \in Names, NEW r \in States,
           Room(L), NEW L2, L2 = PushLocal(L, v, r)
    PROVE  ChainsOK(L2)
<1> DEFINE n == Len(L.local)
<1>0. PICK s, new : /\ s = FreshSlot(L)
                    /\ new = [v |-> v, r |-> r, prev_tok |-> L.head[v],
                              jumps |-> {}, jnext |-> 0, refs |-> {}]
  OBVIOUS
<1>1. s \in Slots /\ s \notin OnStack(L)
  BY <1>0, FreshIs
<1>2. /\ L2 \in LabelTable
      /\ L2.global = L.global /\ L2.dangling = L.dangling
      /\ L2.local = Append(L.local, s)
      /\ L2.head = [L.head EXCEPT ![v] = s]
      /\ L2.sym = [L.sym EXCEPT ![s] = new]
  BY <1>0, PushLocalIs
<1>3. new.v = v /\ new.prev_tok = L.head[v]
  BY <1>0
<1>4. /\ L.local \in Seq(Slots) /\ n \in Nat
      /\ Len(L2.local) = n + 1 /\ L2.local[n + 1] = s
      /\ \A k \in 1..n : L2.local[k] = L.local[k]
  BY <1>1, <1>2 DEF LabelTable
<1>5. /\ L2.sym[s] = new
      /\ \A t \in Slots : t # s => L2.sym[t] = L.sym[t]
      /\ L2.head[v] = s
      /\ \A w \in Names : w # v => L2.head[w] = L.head[w]
  BY <1>1, <1>2 DEF LabelTable
<1>6. /\ \A k \in 1..n : L2.sym[L.local[k]] = L.sym[L.local[k]]
      /\ \A k \in 1..Len(L.global) : L2.sym[L.global[k]] = L.sym[L.global[k]]
  BY <1>1, <1>5, StackElements
<1>7. ASSUME NEW m \in 0..n, NEW w, NEW x, Finds(L, w, m, x)
      PROVE  Finds(L2, w, m, x)
  <2>1. m \in Nat /\ \A k \in 1..m : k \in 1..n
    BY <1>4
  <2> QED
    BY <1>2, <1>4, <1>6, <1>7, <2>1, FindsSame
<1> HIDE DEF n
<1>8. ASSUME NEW w \in Names
      PROVE  Finds(L2, w, n + 1, L2.head[w])
  <2>1. CASE w = v
    <3>1. n + 1 \in 1..n + 1 /\ (n + 1) + 1..n + 1 = {}
      BY <1>4
    <3>2. L2.head[w] = L2.local[n + 1] /\ L2.sym[L2.local[n + 1]].v = w
      BY <1>3, <1>4, <1>5, <2>1
    <3> QED
      BY <3>1, <3>2 DEF Finds
  <2>2. CASE w # v
    <3>1. Finds(L2, w, n, L.head[w])
      BY <1>4, <1>7 DEF ChainsOK, n
    <3>2. L2.sym[L2.local[n + 1]].v # w
      BY <1>3, <1>4, <1>5, <2>2
    <3>3. L2.head[w] = L.head[w]
      BY <1>5, <2>2
    <3> QED
      BY <1>4, <3>1, <3>2, <3>3, FindsMore
  <2> QED
    BY <2>1, <2>2
<1>9. ASSUME NEW k \in 1..n + 1
      PROVE  Finds(L2, L2.sym[L2.local[k]].v, k - 1, L2.sym[L2.local[k]].prev_tok)
  <2>1. CASE k \in 1..n
    <3>1. Finds(L, L.sym[L.local[k]].v, k - 1, L.sym[L.local[k]].prev_tok)
      BY <2>1 DEF ChainsOK, n
    <3>2. k - 1 \in 0..n
      BY <1>4, <2>1
    <3> QED
      BY <1>4, <1>6, <1>7, <2>1, <3>1, <3>2
  <2>2. CASE k = n + 1
    <3>1. k - 1 = n /\ n \in 0..n
      BY <1>4, <2>2
    <3>2. Finds(L2, v, n, L.head[v])
      BY <1>7, <3>1 DEF ChainsOK, n
    <3> QED
      BY <1>3, <1>4, <1>5, <2>2, <3>1, <3>2
  <2> QED
    BY <1>4, <2>1, <2>2
<1>10. \A j, k \in 1..Len(L2.global) :
          L2.sym[L2.global[j]].v = L2.sym[L2.global[k]].v => j = k
  BY <1>2, <1>6 DEF ChainsOK
<1>11. \A k \in 1..Len(L2.global) : L2.sym[L2.global[k]].prev_tok = Null
  BY <1>2, <1>6 DEF ChainsOK
<1> QED
  BY <1>4, <1>8, <1>9, <1>10, <1>11 DEF ChainsOK

\* The first label of a name in its function hides nothing.
LEMMA PushGlobalChains ==
    ASSUME NEW L, L \in LabelTable, ChainsOK(L), NEW v \in Names, NEW r \in States,
           Room(L), L.head[v] = Null, NEW L2, L2 = PushGlobal(L, v, r)
    PROVE  ChainsOK(L2)
<1> DEFINE n == Len(L.local)
           g == Len(L.global)
<1>0. PICK s, new : /\ s = FreshSlot(L)
                    /\ new = [v |-> v, r |-> r, prev_tok |-> Null,
                              jumps |-> {}, jnext |-> 0, refs |-> {}]
  OBVIOUS
<1>1. s \in Slots /\ s \notin OnStack(L)
  BY <1>0, FreshIs
<1>2. /\ L2 \in LabelTable
      /\ L2.local = L.local /\ L2.dangling = L.dangling
      /\ L2.global = Append(L.global, s)
      /\ L2.head = [L.head EXCEPT ![v] = s]
      /\ L2.sym = [L.sym EXCEPT ![s] = new]
  BY <1>0, PushGlobalIs
<1>3. new.v = v /\ new.prev_tok = Null
  BY <1>0
<1>4. /\ n \in Nat /\ g \in Nat
      /\ Len(L2.global) = g + 1 /\ L2.global[g + 1] = s
      /\ \A k \in 1..g : L2.global[k] = L.global[k]
  BY <1>1, <1>2 DEF LabelTable
<1>5. /\ L2.sym[s] = new
      /\ \A t \in Slots : t # s => L2.sym[t] = L.sym[t]
      /\ L2.head[v] = s
      /\ \A w \in Names : w # v => L2.head[w] = L.head[w]
  BY <1>1, <1>2 DEF LabelTable
<1>6. /\ \A k \in 1..n : L2.sym[L.local[k]] = L.sym[L.local[k]]
      /\ \A k \in 1..g : L2.sym[L2.global[k]] = L.sym[L.global[k]]
  BY <1>1, <1>4, <1>5, StackElements
<1> HIDE DEF n, g
<1>7. /\ \A k \in 1..n : L.sym[L.local[k]].v # v
      /\ \A k \in 1..g : L.sym[L.global[k]].v # v
  BY <1>4, FindsWhat DEF ChainsOK, n, g
\* A name that has a label finds what it found.
<1>8. ASSUME NEW w, w # v, NEW m \in 0..n, NEW x, Finds(L, w, m, x)
      PROVE  Finds(L2, w, m, x)
  <2>1. m \in Nat /\ (\A k \in 1..m : k \in 1..n) /\ \A k \in 1..m : \A j \in k+1..m : j \in 1..n
    BY <1>4
  <2>2. \A k \in 1..m : L2.local[k] = L.local[k] /\ L2.sym[L2.local[k]].v = L.sym[L.local[k]].v
    BY <1>2, <1>6, <2>1
  <2>3. CASE \E k \in 1..m : /\ x = L.local[k] /\ L.sym[L.local[k]].v = w
                             /\ \A j \in k+1..m : L.sym[L.local[j]].v # w
    <3>1. PICK k \in 1..m : /\ x = L.local[k] /\ L.sym[L.local[k]].v = w
                            /\ \A j \in k+1..m : L.sym[L.local[j]].v # w
      BY <2>3
    <3>2. \A j \in k+1..m : j \in 1..m
      BY <1>4
    <3>3. /\ x = L2.local[k] /\ L2.sym[L2.local[k]].v = w
          /\ \A j \in k+1..m : L2.sym[L2.local[j]].v # w
      BY <2>2, <3>1, <3>2
    <3> QED
      BY <3>3 DEF Finds
  <2>4. CASE ~ \E k \in 1..m : /\ x = L.local[k] /\ L.sym[L.local[k]].v = w
                               /\ \A j \in k+1..m : L.sym[L.local[j]].v # w
    <3>1. \A j \in 1..m : L2.sym[L2.local[j]].v # w
      BY <1>8, <2>2, <2>4 DEF Finds
    <3>2. CASE \E k \in 1..g : x = L.global[k] /\ L.sym[L.global[k]].v = w
      <4>1. PICK k \in 1..g : x = L.global[k] /\ L.sym[L.global[k]].v = w
        BY <3>2
      <4>2. k \in 1..Len(L2.global) /\ x = L2.global[k] /\ L2.sym[L2.global[k]].v = w
        BY <1>4, <1>6, <4>1
      <4> QED
        BY <3>1, <4>2 DEF Finds
    <3>3. CASE x = Null /\ \A k \in 1..g : L.sym[L.global[k]].v # w
      <4>1. \A k \in 1..Len(L2.global) : L2.sym[L2.global[k]].v # w
        <5>1. L2.sym[L2.global[g + 1]].v = v
          BY <1>3, <1>4, <1>5
        <5> QED
          BY <1>4, <1>6, <1>8, <3>3, <5>1
      <4> QED
        BY <3>1, <3>3, <4>1 DEF Finds
    <3> QED
      BY <1>8, <2>4, <3>2, <3>3 DEF Finds, g
  <2> QED
    BY <2>3, <2>4
<1>9. ASSUME NEW w \in Names
      PROVE  Finds(L2, w, n, L2.head[w])
  <2>1. CASE w = v
    <3>1. \A k \in 1..n : L2.sym[L2.local[k]].v # v
      BY <1>2, <1>6, <1>7
    <3>2. /\ g + 1 \in 1..Len(L2.global)
          /\ L2.head[w] = L2.global[g + 1] /\ L2.sym[L2.global[g + 1]].v = v
      BY <1>3, <1>4, <1>5, <2>1
    <3> QED
      BY <2>1, <3>1, <3>2 DEF Finds
  <2>2. CASE w # v
    <3>1. Finds(L, w, n, L.head[w]) /\ n \in 0..n
      BY <1>4 DEF ChainsOK, n
    <3> QED
      BY <1>5, <1>8, <2>2, <3>1
  <2> QED
    BY <2>1, <2>2
<1>10. ASSUME NEW k \in 1..n
       PROVE  Finds(L2, L2.sym[L2.local[k]].v, k - 1, L2.sym[L2.local[k]].prev_tok)
  <2>1. Finds(L, L.sym[L.local[k]].v, k - 1, L.sym[L.local[k]].prev_tok)
    BY DEF ChainsOK, n
  <2>2. k - 1 \in 0..n
    BY <1>4
  <2>3. L.sym[L.local[k]].v # v
    BY <1>7
  <2> QED
    BY <1>2, <1>6, <1>8, <2>1, <2>2, <2>3
<1>11. ASSUME NEW j \in 1..g + 1, NEW k \in 1..g + 1,
              L2.sym[L2.global[j]].v = L2.sym[L2.global[k]].v
       PROVE  j = k
  <2>1. L2.sym[L2.global[g + 1]].v = v
    BY <1>3, <1>4, <1>5
  <2>2. CASE j \in 1..g /\ k \in 1..g
    BY <1>6, <1>11, <2>2 DEF ChainsOK, g
  <2>3. CASE ~ (j \in 1..g /\ k \in 1..g)
    <3>1. \A m \in 1..g : L2.sym[L2.global[m]].v # v
      BY <1>6, <1>7
    <3>2. (j = g + 1 \/ j \in 1..g) /\ (k = g + 1 \/ k \in 1..g)
      BY <1>4
    <3> QED
      BY <1>11, <2>1, <2>3, <3>1, <3>2
  <2> QED
    BY <2>2, <2>3
<1>12. ASSUME NEW k \in 1..g + 1
       PROVE  L2.sym[L2.global[k]].prev_tok = Null
  <2>1. k \in 1..g \/ k = g + 1
    BY <1>4
  <2> QED
    BY <1>3, <1>4, <1>5, <1>6, <2>1 DEF ChainsOK, g
<1>13. Len(L2.local) = n
  BY <1>2 DEF n
<1> QED
  BY <1>4, <1>9, <1>10, <1>11, <1>12, <1>13 DEF ChainsOK

\* The states and the addresses of labels do not matter.
LEMMA SameChains ==
    ASSUME NEW L, L \in LabelTable, ChainsOK(L), NEW L2,
           L2.local = L.local, L2.global = L.global, L2.head = L.head,
           \A s \in OnStack(L) : /\ L2.sym[s].v = L.sym[s].v
                                 /\ L2.sym[s].prev_tok = L.sym[s].prev_tok
    PROVE  ChainsOK(L2)
<1>1. /\ \A k \in 1..Len(L.local) : /\ L2.sym[L.local[k]].v = L.sym[L.local[k]].v
                                    /\ L2.sym[L.local[k]].prev_tok = L.sym[L.local[k]].prev_tok
      /\ \A k \in 1..Len(L.global) : /\ L2.sym[L.global[k]].v = L.sym[L.global[k]].v
                                     /\ L2.sym[L.global[k]].prev_tok = L.sym[L.global[k]].prev_tok
      /\ Len(L.local) \in Nat
  BY StackElements
<1>2. ASSUME NEW m \in 0..Len(L.local), NEW w, NEW x, Finds(L, w, m, x)
      PROVE  Finds(L2, w, m, x)
  <2>1. m \in Nat /\ \A k \in 1..m : k \in 1..Len(L.local)
    BY <1>1
  <2> QED
    BY <1>1, <1>2, <2>1, FindsSame
<1>3. \A v \in Names : Finds(L2, v, Len(L2.local), L2.head[v])
  BY <1>1, <1>2 DEF ChainsOK
<1>4. ASSUME NEW k \in 1..Len(L2.local)
      PROVE  Finds(L2, L2.sym[L2.local[k]].v, k - 1, L2.sym[L2.local[k]].prev_tok)
  <2>1. k - 1 \in 0..Len(L.local)
    BY <1>1
  <2>2. Finds(L, L.sym[L.local[k]].v, k - 1, L.sym[L.local[k]].prev_tok)
    BY DEF ChainsOK
  <2> QED
    BY <1>1, <1>2, <2>1, <2>2
<1>5. \A j, k \in 1..Len(L2.global) :
         L2.sym[L2.global[j]].v = L2.sym[L2.global[k]].v => j = k
  <2>1. \A j, k \in 1..Len(L.global) :
           L.sym[L.global[j]].v = L.sym[L.global[k]].v => j = k
    BY DEF ChainsOK
  <2> QED
    BY <1>1, <2>1
<1>6. \A k \in 1..Len(L2.global) : L2.sym[L2.global[k]].prev_tok = Null
  <2>1. \A k \in 1..Len(L.global) : L.sym[L.global[k]].prev_tok = Null
    BY DEF ChainsOK
  <2> QED
    BY <1>1, <2>1
<1> QED
  BY <1>3, <1>4, <1>5, <1>6 DEF ChainsOK

\* A non-empty set of numbers has a least one.
LEMMA LeastNumber ==
    ASSUME NEW I, I \subseteq Nat, I # {}
    PROVE  \E m \in I : \A j \in I : m <= j
<1>1. PICK m \in I : \A j \in I : ~ (<<j, m>> \in OpToRel(<, Nat))
  BY NatLessThanWellFounded, WFMin, Zenon
<1>2. ASSUME NEW j \in I
      PROVE  m <= j
  <2>1. m \in Nat /\ j \in Nat
    OBVIOUS
  <2>2. j < m => <<j, m>> \in OpToRel(<, Nat)
    BY <2>1 DEF OpToRel
  <2>3. ~ (j < m)
    BY <1>1, <2>2
  <2> QED
    BY <2>1, <2>3
<1> QED
  BY <1>2

\* The labels of v that a pop frees.
FreedOf(L, st, d, v) == {k \in Reached(L, st, d)+1..Len(L[st]) : L.sym[L[st][k]].v = v}

\* A head is what the oldest freed label of its name hid, or as before.
LEMMA HeadAfterPop ==
    ASSUME NEW L, L \in LabelTable, NEW st \in Stacks, L[st] \in Seq(Slots),
           NEW d, Reached(L, st, d) \in Nat, NEW v \in Names
    PROVE  /\ FreedOf(L, st, d, v) = {} => HeadsAfterPop(L, st, d)[v] = L.head[v]
           /\ FreedOf(L, st, d, v) # {} =>
                 \E k \in FreedOf(L, st, d, v) :
                    /\ HeadsAfterPop(L, st, d)[v] = L.sym[L[st][k]].prev_tok
                    /\ \A j \in FreedOf(L, st, d, v) : k <= j
<1> DEFINE K == FreedOf(L, st, d, v)
<1>1. HeadsAfterPop(L, st, d)[v] =
        IF K = {} THEN L.head[v]
        ELSE L.sym[L[st][CHOOSE k \in K : \A j \in K : k <= j]].prev_tok
  BY DEF HeadsAfterPop, FreedOf
<1>2. K \subseteq Nat
  BY DEF FreedOf
<1> HIDE DEF K
<1>3. K # {} => \E k \in K : \A j \in K : k <= j
  BY <1>2, LeastNumber
<1>4. K # {} => /\ (CHOOSE k \in K : \A j \in K : k <= j) \in K
                /\ \A j \in K : (CHOOSE k \in K : \A j1 \in K : k <= j1) <= j
  BY <1>3
<1>5. K = {} => HeadsAfterPop(L, st, d)[v] = L.head[v]
  BY <1>1
<1>6. K # {} => \E k \in K : /\ HeadsAfterPop(L, st, d)[v] = L.sym[L[st][k]].prev_tok
                             /\ \A j \in K : k <= j
  BY <1>1, <1>4
<1> QED
  BY <1>5, <1>6 DEF K

\* Where label_pop stops is a depth of the stack.
LEMMA ReachedIs ==
    ASSUME NEW L, NEW st, NEW d \in Nat, L[st] \in Seq(Slots)
    PROVE  /\ Reached(L, st, d) \in Nat
           /\ ~ PopFails(L, st, d) => Reached(L, st, d) = d
<1>1. CASE Stuck(L, st, d) = {}
  BY <1>1 DEF Reached, PopFails
<1>2. CASE Stuck(L, st, d) # {}
  <2> DEFINE S == Stuck(L, st, d)
             I == {Len(L[st]) - j : j \in S}
  <2>1. Len(L[st]) \in Nat /\ \A j \in S : j \in Nat /\ Len(L[st]) - j \in Nat
    BY DEF Stuck
  <2> HIDE DEF S
  <2>2. I \subseteq Nat /\ I # {}
    BY <1>2, <2>1 DEF S
  <2>3. PICK m \in I : \A j \in I : m <= j
    <3> HIDE DEF I
    <3> QED
      BY <2>2, LeastNumber
  <2>4. PICK k \in S : m = Len(L[st]) - k
    BY <2>3
  <2>5. \A j \in S : j <= k
    <3>1. \A j \in S : Len(L[st]) - j \in I
      OBVIOUS
    <3>2. \A j \in S : m <= Len(L[st]) - j
      BY <2>3, <3>1
    <3> QED
      BY <2>1, <2>4, <3>2
  <2>6. (CHOOSE k1 \in S : \A j \in S : j <= k1) \in S
    BY <2>5
  <2> QED
    BY <1>2, <2>1, <2>6 DEF Reached, PopFails, S
<1> QED
  BY <1>1, <1>2

\* The heads are labels, or NULL.
LEMMA HeadsTyped ==
    ASSUME NEW L, L \in LabelTable, NEW st \in Stacks, L[st] \in Seq(Slots), NEW d \in Nat
    PROVE  HeadsAfterPop(L, st, d) \in [Names -> Slots \cup {Null}]
<1>1. ASSUME NEW v \in Names
      PROVE  HeadsAfterPop(L, st, d)[v] \in Slots \cup {Null}
  <2>1. Reached(L, st, d) \in Nat
    BY ReachedIs
  <2>2. \A k \in FreedOf(L, st, d, v) : L[st][k] \in Slots
    BY <2>1 DEF FreedOf
  <2>3. /\ \A s \in Slots : L.sym[s].prev_tok \in Slots \cup {Null}
        /\ L.head[v] \in Slots \cup {Null}
    BY DEF LabelTable, Label
  <2> QED
    BY <2>1, <2>2, <2>3, HeadAfterPop
<1>2. HeadsAfterPop(L, st, d) = [v \in Names |-> HeadsAfterPop(L, st, d)[v]]
  <2> DEFINE B(v) ==
        LET K == {k \in Reached(L, st, d)+1..Len(L[st]) : L.sym[L[st][k]].v = v}
        IN  IF K = {} THEN L.head[v]
            ELSE LET k == CHOOSE k \in K : \A j \in K : k <= j
                 IN  L.sym[L[st][k]].prev_tok
  <2>1. HeadsAfterPop(L, st, d) = [v \in Names |-> B(v)]
    BY DEF HeadsAfterPop
  <2> HIDE DEF B
  <2> QED
    BY <2>1
<1> QED
  BY <1>1, <1>2

\* The tables after label_pop.
LEMMA PopFailsIs ==
    ASSUME NEW L, L \in LabelTable, NEW st \in Stacks, L[st] \in Seq(Slots), NEW d \in Nat,
           PopFails(L, st, d), NEW L2, L2 = Popped(L, st, d)
    PROVE  /\ L2 \in LabelTable
           /\ L2.sym = L.sym /\ L2.local = L.local /\ L2.global = L.global
           /\ Freed(L, st, d) # {} => L2.dangling # {}
           /\ L.dangling \subseteq L2.dangling
           /\ Freed(L, st, d) = {} => L2.head = L.head
<1> DEFINE D == L.dangling \cup IF Freed(L, st, d) = {} THEN {} ELSE {st}
           H == HeadsAfterPop(L, st, d)
<1>1. L2 = [L EXCEPT !.head = H, !.dangling = D]
  BY DEF Popped
<1>2. H \in [Names -> Slots \cup {Null}]
  BY HeadsTyped
<1>3. D \in SUBSET Stacks
  BY DEF LabelTable
<1>4. Freed(L, st, d) = {} => H = L.head
  <2> SUFFICES ASSUME Freed(L, st, d) = {} PROVE H = L.head
    OBVIOUS
  <2>1. \A v \in Names : FreedOf(L, st, d, v) = {}
    BY DEF Freed, FreedOf
  <2>2. \A v \in Names : H[v] = L.head[v]
    BY <2>1, HeadAfterPop, ReachedIs
  <2> HIDE DEF H
  <2> QED
    BY <1>2, <2>2 DEF LabelTable
<1>5. /\ Freed(L, st, d) # {} => D # {}
      /\ L.dangling \subseteq D
  OBVIOUS
<1> HIDE DEF H, D, Label
<1>6. L2 = [sym |-> L.sym, head |-> H, global |-> L.global, local |-> L.local, dangling |-> D]
  BY <1>1 DEF LabelTable
<1> QED
  BY <1>2, <1>3, <1>4, <1>5, <1>6 DEF LabelTable

LEMMA PopLocalIs ==
    ASSUME NEW L, L \in LabelTable, NEW d \in 0..Len(L.local),
           ~ PopFails(L, "local", d), NEW L2, L2 = Popped(L, "local", d)
    PROVE  /\ L2 \in LabelTable
           /\ L2.sym = L.sym /\ L2.global = L.global /\ L2.dangling = L.dangling
           /\ L2.local = SubSeq(L.local, 1, d) /\ Len(L2.local) = d
           /\ \A k \in 1..d : L2.local[k] = L.local[k]
           /\ L2.head = HeadsAfterPop(L, "local", d)
<1> DEFINE H == HeadsAfterPop(L, "local", d)
<1>1. L2 = [L EXCEPT !.head = H, !.local = SubSeq(@, 1, d)]
  BY DEF Popped
<1>2. L["local"] \in Seq(Slots) /\ d \in Nat
  BY StackElements DEF LabelTable
<1>3. H \in [Names -> Slots \cup {Null}]
  BY <1>2, HeadsTyped DEF Stacks
<1>4. /\ SubSeq(L.local, 1, d) \in Seq(Slots) /\ Len(SubSeq(L.local, 1, d)) = d
      /\ \A k \in 1..d : SubSeq(L.local, 1, d)[k] = L.local[k]
  BY <1>2 DEF LabelTable
<1> HIDE DEF H, Label
<1>5. L2 = [sym |-> L.sym, head |-> H, global |-> L.global,
            local |-> SubSeq(L.local, 1, d), dangling |-> L.dangling]
  BY <1>1 DEF LabelTable
<1>6. L2 \in LabelTable
  BY <1>3, <1>4, <1>5 DEF LabelTable
<1>7. /\ L2.sym = L.sym /\ L2.global = L.global /\ L2.dangling = L.dangling
      /\ L2.local = SubSeq(L.local, 1, d) /\ L2.head = H
  BY <1>5
<1> QED
  BY <1>4, <1>6, <1>7 DEF H

LEMMA PopGlobalIs ==
    ASSUME NEW L, L \in LabelTable,
           ~ PopFails(L, "global", 0), NEW L2, L2 = Popped(L, "global", 0)
    PROVE  /\ L2 \in LabelTable
           /\ L2.sym = L.sym /\ L2.local = L.local /\ L2.dangling = L.dangling
           /\ L2.global = <<>>
           /\ L2.head = HeadsAfterPop(L, "global", 0)
<1> DEFINE H == HeadsAfterPop(L, "global", 0)
<1>1. L2 = [L EXCEPT !.head = H, !.global = SubSeq(@, 1, 0)]
  BY DEF Popped
<1>2. L["global"] \in Seq(Slots) /\ 0 \in Nat
  BY DEF LabelTable
<1>3. H \in [Names -> Slots \cup {Null}]
  BY <1>2, HeadsTyped DEF Stacks
<1>4. SubSeq(L.global, 1, 0) = <<>>
  BY DEF LabelTable
<1> HIDE DEF H, Label
<1>5. L2 = [sym |-> L.sym, head |-> H, global |-> <<>>,
            local |-> L.local, dangling |-> L.dangling]
  BY <1>1, <1>4 DEF LabelTable
<1>6. L2 \in LabelTable
  <2>0. <<>> \in Seq(Slots)
    OBVIOUS
  <2>1. PICK e : e = <<>> /\ e \in Seq(Slots)
    BY <2>0, Zenon
  <2>2. L2 = [sym |-> L.sym, head |-> H, global |-> e,
              local |-> L.local, dangling |-> L.dangling]
    BY <1>5, <2>1
  <2>3. e \in Seq(Slots)
    BY <2>1
  <2> QED
    BY <1>3, <2>2, <2>3 DEF LabelTable
<1>7. /\ L2.sym = L.sym /\ L2.local = L.local /\ L2.dangling = L.dangling
      /\ L2.global = <<>> /\ L2.head = H
  BY <1>5
<1> QED
  BY <1>6, <1>7 DEF H

\* Older labels decide when the newer ones have other names.
LEMMA FindsLess ==
    ASSUME NEW L, NEW v, NEW d \in Nat, NEW m \in Nat, d <= m, NEW x, Finds(L, v, m, x),
           \A j \in d+1..m : L.sym[L.local[j]].v # v
    PROVE  Finds(L, v, d, x)
<1>1. \A j \in 1..d : j \in 1..m
  OBVIOUS
<1>2. CASE \E k \in 1..m : /\ x = L.local[k] /\ L.sym[L.local[k]].v = v
                           /\ \A j \in k+1..m : L.sym[L.local[j]].v # v
  <2>1. PICK k \in 1..m : /\ x = L.local[k] /\ L.sym[L.local[k]].v = v
                          /\ \A j \in k+1..m : L.sym[L.local[j]].v # v
    BY <1>2
  <2>2. k \in 1..d \/ k \in d+1..m
    OBVIOUS
  <2>3. k \in 1..d /\ \A j \in k+1..d : j \in k+1..m
    BY <2>1, <2>2
  <2> QED
    BY <2>1, <2>3 DEF Finds
<1>3. CASE ~ \E k \in 1..m : /\ x = L.local[k] /\ L.sym[L.local[k]].v = v
                             /\ \A j \in k+1..m : L.sym[L.local[j]].v # v
  BY <1>1, <1>3 DEF Finds
<1> QED
  BY <1>2, <1>3

\* When the labels of a block are freed, what they hid is visible again.
LEMMA PopLocalChains ==
    ASSUME NEW L, L \in LabelTable, ChainsOK(L), NEW d \in 0..Len(L.local),
           ~ PopFails(L, "local", d), NEW L2, L2 = Popped(L, "local", d)
    PROVE  ChainsOK(L2)
<1> DEFINE n == Len(L.local)
<1>1. /\ L2.sym = L.sym /\ L2.global = L.global
      /\ Len(L2.local) = d /\ \A k \in 1..d : L2.local[k] = L.local[k]
      /\ L2.head = HeadsAfterPop(L, "local", d)
  BY PopLocalIs
<1>2. n \in Nat /\ d \in Nat /\ d <= n
  BY StackElements
<1>3. ASSUME NEW m \in 0..d, NEW w, NEW x, Finds(L, w, m, x)
      PROVE  Finds(L2, w, m, x)
  <2>1. m \in Nat /\ \A k \in 1..m : k \in 1..d
    BY <1>2
  <2> QED
    BY <1>1, <1>3, <2>1, FindsSame
<1>4. ASSUME NEW v \in Names
      PROVE  Finds(L2, v, d, L2.head[v])
  <2> DEFINE K == FreedOf(L, "local", d, v)
  <2>1. L["local"] \in Seq(Slots) /\ Reached(L, "local", d) = d
    BY <1>2, ReachedIs DEF LabelTable
  <2>2. /\ K = {} => L2.head[v] = L.head[v]
        /\ K # {} => \E k \in K : /\ L2.head[v] = L.sym[L.local[k]].prev_tok
                                 /\ \A j \in K : k <= j
    BY <1>1, <1>2, <2>1, HeadAfterPop DEF Stacks
  <2>3. K = {k \in d+1..n : L.sym[L.local[k]].v = v}
    BY <2>1 DEF FreedOf
  <2> HIDE DEF K, n
  <2>4. \E m \in d..n : /\ Finds(L, v, m, L2.head[v])
                        /\ \A j \in d+1..m : L.sym[L.local[j]].v # v
    <3>1. CASE K = {}
      <4>1. Finds(L, v, n, L2.head[v])
        BY <2>2, <3>1 DEF ChainsOK, n
      <4>2. n \in d..n /\ \A j \in d+1..n : L.sym[L.local[j]].v # v
        BY <1>2, <2>3, <3>1
      <4> QED
        BY <4>1, <4>2
    <3>2. CASE K # {}
      <4>1. PICK k \in K : /\ L2.head[v] = L.sym[L.local[k]].prev_tok
                           /\ \A j \in K : k <= j
        BY <2>2, <3>2
      <4>2. k \in d+1..n /\ k \in 1..n /\ L.sym[L.local[k]].v = v
        BY <1>2, <2>3
      <4>3. Finds(L, v, k - 1, L2.head[v])
        BY <4>1, <4>2 DEF ChainsOK, n
      <4>4. k - 1 \in d..n /\ \A j \in d+1..k - 1 : j \in d+1..n /\ ~ (k <= j)
        BY <1>2, <4>2
      <4>5. \A j \in d+1..k - 1 : L.sym[L.local[j]].v # v
        BY <2>3, <4>1, <4>4
      <4> QED
        BY <4>3, <4>4, <4>5
    <3> QED
      BY <3>1, <3>2
  <2>5. PICK m \in d..n : /\ Finds(L, v, m, L2.head[v])
                          /\ \A j \in d+1..m : L.sym[L.local[j]].v # v
    BY <2>4
  <2>6. Finds(L, v, d, L2.head[v])
    BY <1>2, <2>5, FindsLess
  <2> QED
    BY <1>2, <1>3, <2>6
<1>5. ASSUME NEW k \in 1..d
      PROVE  Finds(L2, L2.sym[L2.local[k]].v, k - 1, L2.sym[L2.local[k]].prev_tok)
  <2>1. k \in 1..n /\ k - 1 \in 0..d
    BY <1>2
  <2>2. Finds(L, L.sym[L.local[k]].v, k - 1, L.sym[L.local[k]].prev_tok)
    BY <2>1 DEF ChainsOK
  <2> QED
    BY <1>1, <1>3, <2>1, <2>2
<1> QED
  BY <1>1, <1>4, <1>5 DEF ChainsOK

\* At the end of a function no name has a label.
LEMMA PopGlobalChains ==
    ASSUME NEW L, L \in LabelTable, ChainsOK(L), L.local = <<>>,
           ~ PopFails(L, "global", 0), NEW L2, L2 = Popped(L, "global", 0)
    PROVE  ChainsOK(L2)
<1>1. /\ L2.sym = L.sym /\ L2.global = <<>> /\ L2.local = <<>>
      /\ L2.head = HeadsAfterPop(L, "global", 0)
  BY PopGlobalIs
<1>2. ASSUME NEW v \in Names
      PROVE  L2.head[v] = Null
  <2> DEFINE K == FreedOf(L, "global", 0, v)
  <2>1. L["global"] \in Seq(Slots) /\ 0 \in Nat
    BY DEF LabelTable
  <2>2. Reached(L, "global", 0) = 0
    BY <2>1, ReachedIs
  <2>3. K = {k \in 1..Len(L.global) : L.sym[L.global[k]].v = v}
    BY <2>2 DEF FreedOf
  <2>4. /\ K = {} => L2.head[v] = L.head[v]
        /\ K # {} => \E k \in K : L2.head[v] = L.sym[L.global[k]].prev_tok
    BY <1>1, <2>1, <2>2, HeadAfterPop DEF Stacks
  <2> HIDE DEF K
  <2>5. CASE K = {}
    <3>1. Finds(L, v, 0, L.head[v])
      BY DEF ChainsOK
    <3>2. \A k \in 1..Len(L.global) : L.sym[L.global[k]].v # v
      BY <2>3, <2>5
    <3> QED
      BY <2>4, <2>5, <3>1, <3>2 DEF Finds
  <2>6. CASE K # {}
    <3>1. \A k \in K : L.sym[L.global[k]].prev_tok = Null
      BY <2>3 DEF ChainsOK
    <3> QED
      BY <2>4, <2>6, <3>1
  <2> QED
    BY <2>5, <2>6
<1>3. \A v \in Names : Finds(L2, v, Len(L2.local), L2.head[v])
  BY <1>1, <1>2 DEF Finds
<1> QED
  BY <1>1, <1>3 DEF ChainsOK

-----------------------------------------------------------------------------
(***************************************************************************)
(* Tokens and cells.                                                       *)
(***************************************************************************)

LEMMA TailTyped ==
    ASSUME NEW S, NEW s \in Seq(S), s # <<>>
    PROVE  Head(s) \in S /\ Tail(s) \in Seq(S)
  BY HeadTailProperties

\* What the end of a token string leads back to.
LEMMA StringEndTyped ==
    ASSUME NEW in \in Input
    PROVE  /\ AtStringEnd(in) \in Input
           /\ in.macro # <<>> => AtStringEnd(in) = in
           /\ ~ in.unget => AtStringEnd(in).macro = Null \/ AtStringEnd(in).macro # <<>>
           /\ in.macro = <<>> => ~ AtStringEnd(in).unget
<1>1. CASE in.macro # <<>>
  BY <1>1 DEF AtStringEnd
<1>2. CASE in.macro = <<>> /\ in.unget
  <2>1. AtStringEnd(in) = [macro |-> in.saved, unget |-> FALSE, saved |-> Null, file |-> in.file]
    BY <1>2 DEF AtStringEnd, Unstacked, Input
  <2> QED
    BY <1>2, <2>1 DEF Input
<1>3. CASE in.macro = <<>> /\ ~ in.unget
  <2>1. in.unget = FALSE
    BY <1>3 DEF Input
  <2>2. AtStringEnd(in) = [macro |-> Null, unget |-> in.unget, saved |-> in.saved, file |-> in.file]
    BY <1>3 DEF AtStringEnd, Input
  <2> QED
    BY <1>3, <2>1, <2>2 DEF Input
<1> QED
  BY <1>1, <1>2, <1>3

LEMMA SettledTyped ==
    ASSUME NEW in \in Input
    PROVE  /\ Settled(in) \in Input
           /\ Settled(in).macro # Null => Settled(in).macro \in Seq(Lexemes) /\ Settled(in).macro # <<>>
<1> DEFINE one == AtStringEnd(in)
           two == AtStringEnd(one)
<1>1. one \in Input /\ two \in Input
  BY StringEndTyped
<1>2. two.macro = Null \/ two.macro # <<>>
  <2>1. CASE one.macro # <<>>
    BY <1>1, <2>1, StringEndTyped
  <2>2. CASE one.macro = <<>> /\ in.macro = <<>>
    <3>1. ~ one.unget
      BY <2>2, StringEndTyped
    <3> HIDE DEF one
    <3> QED
      BY <1>1, <3>1, StringEndTyped
  <2>3. CASE one.macro = <<>> /\ in.macro # <<>>
    BY <2>3, StringEndTyped
  <2> QED
    BY <2>1, <2>2, <2>3
<1>3. Settled(in) = two
  BY DEF Settled
<1> HIDE DEF two
<1> QED
  BY <1>1, <1>2, <1>3 DEF Input

\* next() gives a token, or the end of the file, whatever it reads from.
LEMMA TokenTyped ==
    ASSUME NEW in \in Input
    PROVE  Token(in) \in Lexemes /\ After(in) \in Input
<1> DEFINE s == Settled(in)
<1>1. /\ s \in Input
      /\ s.macro # Null => s.macro \in Seq(Lexemes) /\ s.macro # <<>>
  BY SettledTyped
<1>2. /\ Token(in) = IF s.macro # Null THEN Head(s.macro)
                     ELSE IF s.file = <<>> THEN EndOfFile
                     ELSE IF Head(s.file).op = "macro" THEN Head(Expansion)
                     ELSE Head(s.file)
      /\ After(in) = IF s.macro # Null THEN [s EXCEPT !.macro = Tail(@)]
                     ELSE IF s.file = <<>> THEN s
                     ELSE IF Head(s.file).op = "macro"
                          THEN [s EXCEPT !.macro = Tail(Expansion), !.file = Tail(@)]
                     ELSE [s EXCEPT !.file = Tail(@)]
  BY DEF Token, After
<1> HIDE DEF s
<1>3. /\ s.file \in Seq(Tokens)
      /\ s = [macro |-> s.macro, unget |-> s.unget, saved |-> s.saved, file |-> s.file]
      /\ s.unget \in BOOLEAN /\ s.saved \in Seq(Lexemes) \cup {Null}
      /\ s.macro \in Seq(Lexemes) \cup {Null}
  BY <1>1 DEF Input
<1>4. \A q : q \in Seq(Tokens) => q \in Seq(Lexemes)
  BY DEF Lexemes
<1>5. CASE s.macro # Null
  <2>1. Head(s.macro) \in Lexemes /\ Tail(s.macro) \in Seq(Lexemes)
    BY <1>1, <1>5, TailTyped
  <2>2. After(in) = [macro |-> Tail(s.macro), unget |-> s.unget, saved |-> s.saved, file |-> s.file]
    BY <1>2, <1>3, <1>5
  <2> QED
    BY <1>2, <1>3, <1>5, <2>1, <2>2 DEF Input
<1>6. CASE s.macro = Null /\ s.file = <<>>
  BY <1>1, <1>2, <1>6 DEF Lexemes
<1>7. CASE s.macro = Null /\ s.file # <<>> /\ Head(s.file).op = "macro"
  <2>1. /\ Tail(s.file) \in Seq(Tokens)
        /\ Head(Expansion) \in Tokens /\ Tail(Expansion) \in Seq(Tokens)
    BY <1>3, <1>7, TailTyped, UnitsAssumption
  <2>2. After(in) = [macro |-> Tail(Expansion), unget |-> s.unget, saved |-> s.saved,
                     file |-> Tail(s.file)]
    BY <1>2, <1>3, <1>7
  <2>3. Tail(Expansion) \in Seq(Lexemes)
    BY <1>4, <2>1
  <2>4. After(in) \in Input
    BY <1>3, <2>1, <2>2, <2>3 DEF Input
  <2> QED
    BY <1>2, <1>7, <2>1, <2>4 DEF Lexemes
<1>8. CASE s.macro = Null /\ s.file # <<>> /\ Head(s.file).op # "macro"
  <2>1. Tail(s.file) \in Seq(Tokens) /\ Head(s.file) \in Tokens
    BY <1>3, <1>8, TailTyped
  <2>2. After(in) = [macro |-> s.macro, unget |-> s.unget, saved |-> s.saved,
                     file |-> Tail(s.file)]
    BY <1>2, <1>3, <1>8
  <2>3. After(in) \in Input
    BY <1>3, <2>1, <2>2 DEF Input
  <2> QED
    BY <1>2, <1>8, <2>1, <2>3 DEF Lexemes
<1> QED
  BY <1>5, <1>6, <1>7, <1>8

\* is_label looks one token ahead.
LEMMA AheadTyped ==
    ASSUME NEW in \in Input
    PROVE  AfterName(in) \in Input /\ AtName(in) \in Input
<1>1. in.file \in Seq(Tokens) /\ in.saved \in Seq(Lexemes) \cup {Null}
      /\ in.macro \in Seq(Lexemes) \cup {Null} /\ in.unget \in BOOLEAN
      /\ in = [macro |-> in.macro, unget |-> in.unget, saved |-> in.saved, file |-> in.file]
  BY DEF Input
<1>2. <<>> \in Seq(Lexemes)
  OBVIOUS
<1>3. [macro |-> in.saved, unget |-> FALSE, saved |-> Null, file |-> in.file] \in Input
  BY <1>1 DEF Input
<1>4. [macro |-> <<>>, unget |-> in.unget, saved |-> in.saved, file |-> in.file] \in Input
  <2>1. PICK e : e = <<>> /\ e \in Seq(Lexemes)
    BY <1>2, Zenon
  <2>2. [macro |-> e, unget |-> in.unget, saved |-> in.saved, file |-> in.file] \in Input
    BY <1>1, <2>1 DEF Input
  <2> QED
    BY <2>1, <2>2
<1>5. [macro |-> <<>>, unget |-> TRUE, saved |-> in.macro, file |-> in.file] \in Input
  <2>1. PICK e : e = <<>> /\ e \in Seq(Lexemes)
    BY <1>2, Zenon
  <2>2. [macro |-> e, unget |-> TRUE, saved |-> in.macro, file |-> in.file] \in Input
    BY <1>1, <2>1 DEF Input
  <2> QED
    BY <2>1, <2>2
<1>6. AfterName(in) \in Input
  <2>1. CASE in.unget
    <3>1. AfterName(in) = [in EXCEPT !.macro = in.saved, !.unget = FALSE, !.saved = Null]
      BY <2>1 DEF AfterName, Unstacked
    <3>2. AfterName(in) = [macro |-> in.saved, unget |-> FALSE, saved |-> Null, file |-> in.file]
      BY <1>1, <3>1
    <3> QED
      BY <1>3, <3>2
  <2>2. CASE ~ in.unget
    BY <2>2 DEF AfterName
  <2> QED
    BY <2>1, <2>2
<1>7. AtName(in) \in Input
  <2>1. in.unget => AtName(in) = [macro |-> <<>>, unget |-> in.unget, saved |-> in.saved, file |-> in.file]
    <3>1. in.unget => AtName(in) = [in EXCEPT !.macro = <<>>]
      BY DEF AtName
    <3> QED
      BY <1>1, <3>1
  <2>2. ~ in.unget => AtName(in) = [macro |-> <<>>, unget |-> TRUE, saved |-> in.macro, file |-> in.file]
    BY DEF AtName
  <2> QED
    BY <1>4, <1>5, <2>1, <2>2
<1> QED
  BY <1>6, <1>7

LEMMA AdvanceTyped ==
    ASSUME input \in Input, Advance
    PROVE  tok' \in Lexemes /\ input' \in Input
<1>1. \E in \in Input : tok' = Token(in) /\ input' = After(in)
  BY AheadTyped DEF Advance, Next1
<1> QED
  BY <1>1, TokenTyped

\* A label has a name; a call and a definition a function.
LEMMA TokenFields ==
    ASSUME NEW t \in Lexemes
    PROVE  /\ t.op \in LabelOps => t.l \in Names
           /\ t.op \in {"call", "func"} => t.f \in Funcs
  BY DEF Lexemes, Tokens, LabelOps, EndOfFile

LEMMA AppendCell ==
    ASSUME NEW c \in Seq(Nat), \A a \in DOMAIN c : c[a] \in 0..Len(c) + 1,
           NEW x \in 0..Len(c) + 1
    PROVE  /\ Append(c, x) \in Seq(Nat)
           /\ Len(Append(c, x)) = Len(c) + 1
           /\ \A a \in DOMAIN Append(c, x) : Append(c, x)[a] \in 0..Len(Append(c, x))
<1>1. Len(c) \in Nat /\ DOMAIN c = 1..Len(c) /\ x \in Nat
  OBVIOUS
<1>2. /\ Append(c, x) \in Seq(Nat) /\ Len(Append(c, x)) = Len(c) + 1
      /\ DOMAIN Append(c, x) = 1..Len(c) + 1
      /\ Append(c, x)[Len(c) + 1] = x
      /\ \A a \in 1..Len(c) : Append(c, x)[a] = c[a]
  BY <1>1
<1>3. \A a \in 1..Len(c) + 1 : a \in 1..Len(c) \/ a = Len(c) + 1
  BY <1>1
<1> QED
  BY <1>1, <1>2, <1>3

\* Resolving relocations writes addresses of the code.
LEMMA RelocatedCells ==
    ASSUME NEW c \in Seq(Nat), \A a \in DOMAIN c : c[a] \in 0..Len(c),
           NEW r, \A x \in r : x[2] \in 0..Len(c)
    PROVE  /\ Relocated(c, r) \in Seq(Nat) /\ Len(Relocated(c, r)) = Len(c)
           /\ \A a \in DOMAIN Relocated(c, r) : Relocated(c, r)[a] \in 0..Len(c)
<1> DEFINE B(a) == IF \E x \in r : x[1] = a
                   THEN (CHOOSE x \in r : x[1] = a)[2] ELSE c[a]
           n == Len(c)
<1>1. n \in Nat /\ DOMAIN c = 1..n
  OBVIOUS
<1>2. ASSUME NEW a \in 1..n
      PROVE  B(a) \in 0..n
  <2>1. CASE \E x \in r : x[1] = a
    <3>1. (CHOOSE x \in r : x[1] = a) \in r
      BY <2>1
    <3> QED
      BY <2>1, <3>1
  <2>2. CASE ~ \E x \in r : x[1] = a
    BY <1>1, <2>2
  <2> QED
    BY <2>1, <2>2
<1>3. Relocated(c, r) = [a \in 1..n |-> B(a)]
  BY <1>1 DEF Relocated
<1> HIDE DEF B, n
<1>4. [a \in 1..n |-> B(a)] \in Seq(Nat) /\ Len([a \in 1..n |-> B(a)]) = n
  <2>1. [a \in 1..n |-> B(a)] \in [1..n -> Nat]
    BY <1>1, <1>2
  <2> QED
    BY <1>1, <2>1, SeqDef, LenProperties
<1> QED
  BY <1>1, <1>2, <1>3, <1>4 DEF n

LEMMA ResolvedCells ==
    ASSUME NEW L, NEW n, TableOK(L, n), NEW st \in Stacks, L[st] \in Seq(Slots), NEW d \in Nat
    PROVE  \A x \in Resolved(L, st, d) : x[2] \in 0..n
<1>1. Reached(L, st, d) \in Nat
  BY ReachedIs
<1>2. Freed(L, st, d) \subseteq Slots
  BY <1>1 DEF Freed
<1> QED
  BY <1>2 DEF Resolved, TableOK

LEMMA TableMore ==
    ASSUME NEW L, NEW n \in Nat, TableOK(L, n)
    PROVE  TableOK(L, n + 1)
  BY DEF TableOK

\* A new state of a label, where its name and what it hides are the same.
WithSym(L, s, e) == [L EXCEPT !.sym[s] = e]

LEMMA LabelSet ==
    ASSUME NEW L, NEW n \in Nat, TableOK(L, n), NEW s \in Slots, NEW e \in Label,
           e.v = L.sym[s].v, e.prev_tok = L.sym[s].prev_tok, e.jnext \in 0..n
    PROVE  /\ TableOK(WithSym(L, s, e), n)
           /\ WithSym(L, s, e).head = L.head /\ WithSym(L, s, e).local = L.local
           /\ WithSym(L, s, e).dangling = L.dangling
           /\ ChainsOK(L) => ChainsOK(WithSym(L, s, e))
<1>0. PICK L2 : L2 = WithSym(L, s, e)
  OBVIOUS
<1>1. /\ L.sym \in [Slots -> Label] /\ L \in LabelTable
      /\ L = [sym |-> L.sym, head |-> L.head, global |-> L.global,
              local |-> L.local, dangling |-> L.dangling]
  BY DEF TableOK, LabelTable
<1>2. [L.sym EXCEPT ![s] = e] \in [Slots -> Label]
  <2> HIDE DEF Label
  <2> QED
    BY <1>1
<1>3. L2 = [sym |-> [L.sym EXCEPT ![s] = e], head |-> L.head, global |-> L.global,
            local |-> L.local, dangling |-> L.dangling]
  BY <1>0, <1>1 DEF WithSym
<1>4. L2 \in LabelTable
  <2> HIDE DEF Label
  <2> QED
    BY <1>1, <1>2, <1>3 DEF LabelTable
<1>5. \A t \in Slots : L2.sym[t] = IF t = s THEN e ELSE L.sym[t]
  BY <1>1, <1>3
<1>6. TableOK(L2, n)
  BY <1>4, <1>5 DEF TableOK
<1>7. \A t \in OnStack(L) : t \in Slots
  BY <1>1 DEF OnStack, Elements, LabelTable
<1>8. \A t \in OnStack(L) : /\ L2.sym[t].v = L.sym[t].v
                            /\ L2.sym[t].prev_tok = L.sym[t].prev_tok
  BY <1>5, <1>7
<1>9. ChainsOK(L) => ChainsOK(L2)
  BY <1>1, <1>3, <1>8, SameChains
<1>10. L2.head = L.head /\ L2.local = L.local /\ L2.dangling = L.dangling
  BY <1>3
<1> QED
  BY <1>0, <1>6, <1>9, <1>10

LEMMA PushGlobalLocal ==
    ASSUME NEW L, L \in LabelTable, NEW v \in Names, NEW r \in States, Room(L),
           L.head[v] = Null
    PROVE  PushGlobal(L, v, r).local = L.local
<1>1. PICK new, s, L2 : /\ new = [v |-> v, r |-> r, prev_tok |-> Null,
                                  jumps |-> {}, jnext |-> 0, refs |-> {}]
                        /\ s = FreshSlot(L) /\ L2 = PushGlobal(L, v, r)
  OBVIOUS
<1>2. /\ L2 \in LabelTable
      /\ L2.local = L.local /\ L2.dangling = L.dangling
      /\ L2.global = Append(L.global, s)
      /\ L2.head = [L.head EXCEPT ![v] = s]
      /\ L2.sym = [L.sym EXCEPT ![s] = new]
  BY <1>1, PushGlobalIs
<1> QED
  BY <1>1, <1>2

\* A pushed label has no address.
LEMMA PushTable ==
    ASSUME NEW L, NEW n \in Nat, TableOK(L, n), NEW v \in Names, NEW r \in States, Room(L),
           NEW L2, \/ L2 = PushLocal(L, v, r)
                   \/ L.head[v] = Null /\ L2 = PushGlobal(L, v, r)
    PROVE  /\ TableOK(L2, n) /\ L2.dangling = L.dangling
           /\ L2.head[v] \in Slots
           /\ L2.local # <<>> => L.local # <<>> \/ L2 = PushLocal(L, v, r)
           /\ L2.sym[L2.head[v]].r = r
<1>1. L \in LabelTable
  BY DEF TableOK
<1>2. FreshSlot(L) \in Slots
  BY FreshIs
<1>3. PICK new, s : /\ new.v = v /\ new.jnext = 0 /\ new.r = r /\ s = FreshSlot(L)
                    /\ L2 \in LabelTable /\ L2.dangling = L.dangling
                    /\ L2.head = [L.head EXCEPT ![v] = s]
                    /\ L2.sym = [L.sym EXCEPT ![s] = new]
                    /\ L2 = PushLocal(L, v, r) \/ L2.local = L.local
  <2>1. CASE L2 = PushLocal(L, v, r)
    <3>1. PICK new, s : /\ new = [v |-> v, r |-> r, prev_tok |-> L.head[v],
                                 jumps |-> {}, jnext |-> 0, refs |-> {}]
                        /\ s = FreshSlot(L)
      OBVIOUS
    <3>2. new.v = v /\ new.jnext = 0 /\ new.r = r
      BY <3>1
    <3>3. /\ L2 \in LabelTable /\ L2.dangling = L.dangling
          /\ L2.head = [L.head EXCEPT ![v] = s]
          /\ L2.sym = [L.sym EXCEPT ![s] = new]
      BY <1>1, <2>1, <3>1, PushLocalIs
    <3> QED
      BY <2>1, <3>1, <3>2, <3>3, Zenon
  <2>2. CASE L.head[v] = Null /\ L2 = PushGlobal(L, v, r)
    <3>1. PICK new, s : /\ new = [v |-> v, r |-> r, prev_tok |-> Null,
                                 jumps |-> {}, jnext |-> 0, refs |-> {}]
                        /\ s = FreshSlot(L)
      OBVIOUS
    <3>2. new.v = v /\ new.jnext = 0 /\ new.r = r
      BY <3>1
    <3>3. /\ L2 \in LabelTable /\ L2.dangling = L.dangling
          /\ L2.head = [L.head EXCEPT ![v] = s]
          /\ L2.sym = [L.sym EXCEPT ![s] = new]
          /\ L2.local = L.local
      BY <1>1, <2>2, <3>1, PushGlobalIs
    <3> QED
      BY <2>2, <3>1, <3>2, <3>3, Zenon
  <2> QED
    BY <2>1, <2>2
<1>4. \A t \in Slots : L2.sym[t] = IF t = s THEN new ELSE L.sym[t]
  BY <1>1, <1>3 DEF LabelTable
<1>5. \A t \in Slots : L2.sym[t].jnext \in 0..n
  BY <1>3, <1>4 DEF TableOK
<1>6. L2.head[v] = s
  BY <1>1, <1>3 DEF LabelTable
<1> QED
  BY <1>2, <1>3, <1>4, <1>5, <1>6 DEF TableOK

\* A use of a label finds it, or makes one of the function.
LEMMA UsedIs ==
    ASSUME NEW n \in Nat, TableOK(labels, n), NEW v \in Names,
           label_find(labels, v) = Null => Room(labels),
           NEW L, L = Used(v)
    PROVE  /\ TableOK(L, n) /\ label_find(L, v) \in Slots
           /\ L.local = labels.local /\ L.dangling = labels.dangling
           /\ ChainsOK(labels) => ChainsOK(L)
<1>1. labels \in LabelTable /\ labels.head[v] \in Slots \cup {Null}
  BY DEF TableOK, LabelTable
<1>2. CASE labels.head[v] = Null
  <2>1. L = PushGlobal(labels, v, "FORWARD") /\ Room(labels) /\ "FORWARD" \in States
    BY <1>2 DEF Used, label_find, States
  <2>2. TableOK(L, n) /\ L.dangling = labels.dangling /\ L.head[v] \in Slots
    BY <1>2, <2>1, PushTable
  <2>3. L.local = labels.local
    BY <1>1, <1>2, <2>1, PushGlobalLocal
  <2>4. ChainsOK(labels) => ChainsOK(L)
    BY <1>1, <1>2, <2>1, PushGlobalChains
  <2> QED
    BY <2>2, <2>3, <2>4 DEF label_find
<1>3. CASE labels.head[v] # Null
  <2>0. PICK s : s = labels.head[v]
    OBVIOUS
  <2>1. s \in Slots
    BY <1>1, <1>3, <2>0
  <2>2. CASE labels.sym[s].r = "DECLARED"
    <3> DEFINE e == [labels.sym[s] EXCEPT !.r = "FORWARD"]
    <3>1. labels.sym[s] \in Label /\ labels.sym[s].jnext \in 0..n
      BY <1>1, <2>1 DEF TableOK, LabelTable
    <3>2. /\ e \in Label /\ e.v = labels.sym[s].v /\ e.prev_tok = labels.sym[s].prev_tok
          /\ e.jnext = labels.sym[s].jnext
      BY <3>1 DEF Label, States
    <3>3. L = WithSym(labels, s, e)
      BY <1>3, <2>0, <2>2 DEF Used, label_find, WithSym
    <3> HIDE DEF e
    <3>4. e.jnext \in 0..n
      BY <3>1, <3>2
    <3>5. /\ TableOK(L, n) /\ L.head = labels.head /\ L.local = labels.local
          /\ L.dangling = labels.dangling /\ (ChainsOK(labels) => ChainsOK(L))
      BY <2>1, <3>2, <3>3, <3>4, LabelSet
    <3> QED
      BY <2>0, <2>1, <3>5 DEF label_find
  <2>3. CASE labels.sym[s].r # "DECLARED"
    <3>1. L = labels
      BY <1>3, <2>0, <2>3 DEF Used, label_find
    <3> QED
      BY <2>0, <2>1, <3>1 DEF label_find
  <2> QED
    BY <2>2, <2>3
<1> QED
  BY <1>2, <1>3

-----------------------------------------------------------------------------
(***************************************************************************)
(* The steps.                                                              *)
(***************************************************************************)

\* A token that becomes part of the function.
LEMMA EmitCell ==
    ASSUME InlineInv, CodeOK, NEW x \in 0..Len(code), Emit(x)
    PROVE  CodeOK' /\ Len(code') = Len(code) + 1 /\ fn'.f = fn.f
<1>1. code \in Seq(Nat) /\ Len(code) \in Nat /\ \A a \in DOMAIN code : code[a] \in 0..Len(code) + 1
  BY DEF CodeOK
<1>2. code' = Append(code, x) /\ x \in 0..Len(code) + 1
  BY <1>1 DEF Emit
<1>3. fn'.f = fn.f
  BY DEF Emit, InlineInv, ShapeOK
<1>4. /\ code' \in Seq(Nat) /\ Len(code') = Len(code) + 1
      /\ \A a \in DOMAIN code' : code'[a] \in 0..Len(code')
  BY <1>1, <1>2, AppendCell
<1> QED
  BY <1>3, <1>4 DEF CodeOK

LEMMA StatementStep ==
    ASSUME TypeInv, LabelInv, phase = "body", phase' = "body", Advance,
           fn'.f = fn.f, UNCHANGED <<inlines, jmp, tainted, defined>>, used' \subseteq Funcs,
           CodeOK', TableOK(labels', Len(code')), DepthsOK(llabels', Len(labels'.local)),
           Fresh(labels', llabels') => ChainsOK(labels'),
           Fresh(labels, llabels) => Fresh(labels', llabels')
    PROVE  TypeInv' /\ LabelInv'
<1>1. PhaseOK'
  BY DEF TypeInv, PhaseOK, inlines
<1>2. tok' \in Lexemes /\ input' \in Input
  BY AdvanceTyped DEF TypeInv, InputOK
<1>3. InputOK'
  BY <1>2 DEF TypeInv, InputOK, inlines, Current
<1>4. TypeInv'
  BY <1>1, <1>3 DEF TypeInv
<1>5. LabelInv'
  BY DEF LabelInv
<1> QED
  BY <1>4, <1>5

LEMMA ErrorStep ==
    ASSUME TypeInv, LabelInv, phase # "idle", NEW L, NEW in \in Input, Error(L, in),
           TableOK(L, Len(code)), Fresh(L, <<>>) => ChainsOK(L)
    PROVE  TypeInv' /\ LabelInv'
<1>1. /\ phase' \in {"passes", "exited"} /\ labels' = L /\ input' = in /\ llabels' = <<>>
      /\ tok' = EndOfFile /\ i' = 1 /\ jmp' = FALSE
      /\ tainted' = (\/ tainted \/ OnStack(L) # {} \/ L.dangling # {}
                     \/ in.macro # Null \/ in.unget)
      /\ UNCHANGED <<defined, used, inline_fns, code>>
  BY DEF Error, symbols, output
<1>2. inline_fns \in Seq(Recorded)
  BY DEF TypeInv, InputOK
<1>3. PhaseOK'
  <2>1. 1 \in 1..Len(inline_fns) + 1
    BY <1>2
  <2> QED
    BY <1>1, <2>1 DEF PhaseOK
<1>4. InputOK'
  BY <1>1 DEF TypeInv, InputOK, Current, Lexemes
<1>5. DepthsOK(llabels', Len(labels'.local))
  BY <1>1 DEF DepthsOK
<1>6. CodeOK'
  BY <1>1 DEF TypeInv, CodeOK
<1>7. TypeInv'
  BY <1>1, <1>3, <1>4, <1>5, <1>6 DEF TypeInv
<1>8. ~ tainted' => Fresh(labels', llabels')
  <2>1. L.local \in Seq(Slots)
    BY DEF TableOK, LabelTable
  <2>2. L.local # <<>> => L.local[1] \in OnStack(L)
    <3>1. L.local # <<>> => 1 \in DOMAIN L.local
      BY <2>1
    <3> QED
      BY <3>1 DEF OnStack, Elements
  <2> QED
    BY <1>1, <2>2 DEF Fresh
<1>9. LabelInv'
  BY <1>1, <1>8 DEF LabelInv
<1> QED
  BY <1>7, <1>9

\* The blocks stay where they are when no label is freed.
LEMMA DepthsMore ==
    ASSUME NEW q, NEW n \in Nat, NEW m \in Nat, n <= m, DepthsOK(q, n)
    PROVE  DepthsOK(q, m)
<1>1. \A k \in DOMAIN q : q[k] <= m
  <2>1. q \in Seq(Nat) /\ \A k \in DOMAIN q : q[k] \in Nat /\ q[k] <= n
    BY DEF DepthsOK
  <2> QED
    BY <2>1
<1> QED
  BY <1>1 DEF DepthsOK

\* What stays when the stack of blocks and the depths of the stacks do.
LEMMA FreshSame ==
    ASSUME NEW L, NEW L2, NEW q, L2.dangling = L.dangling, L2.local = L.local
    PROVE  /\ Fresh(L, q) <=> Fresh(L2, q)
           /\ \A n : DepthsOK(q, Len(L.local)) => DepthsOK(q, Len(L2.local))
  BY DEF Fresh

LEMMA OpenBlockOK ==
    InlineInv /\ TypeInv /\ LabelInv /\ OpenBlock => TypeInv' /\ LabelInv'
<1> SUFFICES ASSUME InlineInv, TypeInv, LabelInv, OpenBlock PROVE TypeInv' /\ LabelInv'
  OBVIOUS
<1> DEFINE n == Len(labels.local)
<1>1. /\ phase = "body" /\ phase' = "body" /\ labels' = labels
      /\ llabels' = Append(llabels, n) /\ Emit(0) /\ Advance
      /\ UNCHANGED <<inlines, jmp, tainted, defined, used>>
  BY DEF OpenBlock, symbols, errors
<1>2. /\ CodeOK /\ InlineInv /\ Len(code) \in Nat /\ TableOK(labels, Len(code))
      /\ labels \in LabelTable /\ used \subseteq Funcs
      /\ llabels \in Seq(Nat) /\ DepthsOK(llabels, n)
  BY DEF TypeInv, CodeOK, TableOK, InputOK, DepthsOK
<1>3. CodeOK' /\ Len(code') = Len(code) + 1 /\ fn'.f = fn.f
  BY <1>1, <1>2, EmitCell
<1>4. TableOK(labels', Len(code'))
  BY <1>1, <1>2, <1>3, TableMore
<1>5. n \in Nat /\ labels.local \in Seq(Slots)
  BY <1>2 DEF LabelTable
<1>6. /\ llabels' \in Seq(Nat) /\ Len(llabels') = Len(llabels) + 1 /\ Len(llabels) \in Nat
      /\ llabels'[Len(llabels) + 1] = n
      /\ \A k \in 1..Len(llabels) : llabels'[k] = llabels[k]
  BY <1>1, <1>2, <1>5
<1> HIDE DEF n
<1>7. DepthsOK(llabels', n)
  <2>1. ASSUME NEW k \in 1..Len(llabels) + 1
        PROVE  llabels'[k] <= n /\ \A j \in 1..k : llabels'[j] <= llabels'[k]
    <3>1. k \in 1..Len(llabels) \/ k = Len(llabels) + 1
      BY <1>6
    <3>2. \A j \in 1..Len(llabels) : llabels[j] <= n
      BY <1>2 DEF DepthsOK
    <3>3. CASE k \in 1..Len(llabels)
      <4>1. llabels[k] <= n /\ \A j \in 1..k : llabels[j] <= llabels[k]
        BY <1>2, <3>3 DEF DepthsOK
      <4>2. \A j \in 1..k : j \in 1..Len(llabels)
        BY <1>6, <3>3
      <4> QED
        BY <1>6, <3>3, <4>1, <4>2
    <3>4. CASE k = Len(llabels) + 1
      <4>1. \A j \in 1..k : j \in 1..Len(llabels) \/ j = k
        BY <1>6, <3>4
      <4> QED
        BY <1>5, <1>6, <3>2, <3>4, <4>1
    <3> QED
      BY <3>1, <3>3, <3>4
  <2>2. DOMAIN llabels' = 1..Len(llabels) + 1
    BY <1>6
  <2> QED
    BY <1>6, <2>1, <2>2 DEF DepthsOK
<1>8. Fresh(labels, llabels) <=> Fresh(labels', llabels')
  <2>1. CASE llabels = <<>>
    <3>1. llabels' # <<>> /\ llabels'[1] = n
      BY <1>6, <2>1
    <3>2. labels.local = <<>> <=> n = 0
      BY <1>5 DEF n
    <3> QED
      BY <1>1, <2>1, <3>1, <3>2 DEF Fresh
  <2>2. CASE llabels # <<>>
    <3>1. llabels' # <<>> /\ llabels'[1] = llabels[1]
      BY <1>2, <1>6, <2>2
    <3> QED
      BY <1>1, <2>2, <3>1 DEF Fresh
  <2> QED
    BY <2>1, <2>2
<1>9. Fresh(labels', llabels') => ChainsOK(labels')
  BY <1>1, <1>8 DEF LabelInv
<1>10. DepthsOK(llabels', Len(labels'.local))
  BY <1>1, <1>7 DEF n
<1> QED
  BY <1>1, <1>2, <1>3, <1>4, <1>8, <1>9, <1>10, StatementStep

LEMMA CallOK ==
    InlineInv /\ TypeInv /\ LabelInv /\ Call => TypeInv' /\ LabelInv'
<1> SUFFICES ASSUME InlineInv, TypeInv, LabelInv, Call PROVE TypeInv' /\ LabelInv'
  OBVIOUS
<1>1. /\ phase = "body" /\ phase' = "body" /\ UNCHANGED <<labels, llabels>>
      /\ Emit(0) /\ Advance
      /\ UNCHANGED <<inlines, jmp, tainted, defined>> /\ used' = used \cup {tok.f}
      /\ tok.op = "call"
  BY DEF Call, InBlock, errors
<1>2. /\ CodeOK /\ Len(code) \in Nat /\ TableOK(labels, Len(code))
      /\ used \subseteq Funcs /\ tok \in Lexemes
      /\ DepthsOK(llabels, Len(labels.local))
  BY DEF TypeInv, CodeOK, InputOK
<1>3. CodeOK' /\ Len(code') = Len(code) + 1 /\ fn'.f = fn.f
  BY <1>1, <1>2, EmitCell
<1>4. TableOK(labels', Len(code'))
  BY <1>1, <1>2, <1>3, TableMore
<1>5. used' \subseteq Funcs
  BY <1>1, <1>2, TokenFields
<1>6. /\ Fresh(labels', llabels') => ChainsOK(labels')
      /\ Fresh(labels, llabels) => Fresh(labels', llabels')
      /\ DepthsOK(llabels', Len(labels'.local))
  BY <1>1, <1>2 DEF LabelInv
<1> QED
  BY <1>1, <1>3, <1>4, <1>5, <1>6, StatementStep

LEMMA DeclareLabelOK ==
    InlineInv /\ TypeInv /\ LabelInv /\ DeclareLabel => TypeInv' /\ LabelInv'
<1> SUFFICES ASSUME InlineInv, TypeInv, LabelInv, DeclareLabel PROVE TypeInv' /\ LabelInv'
  OBVIOUS
<1>1. /\ phase = "body" /\ phase' = "body" /\ UNCHANGED llabels /\ llabels # <<>>
      /\ Emit(0) /\ Advance
      /\ UNCHANGED <<inlines, jmp, tainted, defined, used>>
      /\ tok.op = "local" /\ Room(labels)
      /\ labels' = PushLocal(labels, tok.l, "DECLARED")
  BY DEF DeclareLabel, InBlock, errors, symbols
<1>2. /\ CodeOK /\ Len(code) \in Nat /\ TableOK(labels, Len(code)) /\ labels \in LabelTable
      /\ used \subseteq Funcs /\ tok \in Lexemes
      /\ DepthsOK(llabels, Len(labels.local))
  BY DEF TypeInv, CodeOK, InputOK, TableOK
<1>3. CodeOK' /\ Len(code') = Len(code) + 1 /\ fn'.f = fn.f
  BY <1>1, <1>2, EmitCell
<1>4. tok.l \in Names /\ "DECLARED" \in States
  BY <1>1, <1>2, TokenFields DEF LabelOps, States
<1>5. PICK r, v : r = "DECLARED" /\ v = tok.l /\ r \in States /\ v \in Names
  BY <1>4
<1>6. labels' = PushLocal(labels, v, r)
  BY <1>1, <1>5
<1>7. PICK new, s : /\ new = [v |-> v, r |-> r, prev_tok |-> labels.head[v],
                              jumps |-> {}, jnext |-> 0, refs |-> {}]
                    /\ s = FreshSlot(labels)
  OBVIOUS
<1>8. /\ labels' \in LabelTable
      /\ labels'.global = labels.global /\ labels'.dangling = labels.dangling
      /\ labels'.local = Append(labels.local, s)
      /\ labels'.head = [labels.head EXCEPT ![v] = s]
      /\ labels'.sym = [labels.sym EXCEPT ![s] = new]
  BY <1>1, <1>2, <1>5, <1>6, <1>7, PushLocalIs
<1>9. TableOK(labels', Len(code))
  BY <1>1, <1>2, <1>5, <1>6, PushTable
<1>10. TableOK(labels', Len(code'))
  BY <1>2, <1>3, <1>9, TableMore
<1>11. Fresh(labels, llabels) <=> Fresh(labels', llabels')
  BY <1>1, <1>8 DEF Fresh
<1>12. Fresh(labels', llabels') => ChainsOK(labels')
  BY <1>1, <1>2, <1>5, <1>6, <1>11, PushLocalChains DEF LabelInv
<1>13. Len(labels.local) \in Nat /\ Len(labels'.local) = Len(labels.local) + 1
  <2>1. s \in Slots
    BY <1>1, <1>7, FreshIs
  <2> QED
    BY <1>2, <1>8, <2>1 DEF LabelTable
<1>14. DepthsOK(llabels', Len(labels'.local))
  <2>1. Len(labels'.local) \in Nat /\ Len(labels.local) <= Len(labels'.local)
    BY <1>13
  <2> QED
    BY <1>1, <1>2, <1>13, <2>1, DepthsMore
<1> QED
  BY <1>1, <1>2, <1>3, <1>10, <1>11, <1>12, <1>14, StatementStep

\* A use of a label: what a jump or an address adds to it is not its name.
LEMMA UseOK ==
    ASSUME InlineInv, TypeInv, LabelInv, phase = "body", phase' = "body", Advance,
           fn'.f = fn.f, UNCHANGED <<llabels, inlines, jmp, tainted, defined, used>>,
           CodeOK', Len(code') = Len(code) + 1,
           TableOK(labels', Len(code')),
           labels'.local = labels.local, labels'.dangling = labels.dangling,
           ChainsOK(labels) => ChainsOK(labels')
    PROVE  TypeInv' /\ LabelInv'
<1>1. used' \subseteq Funcs /\ DepthsOK(llabels, Len(labels.local))
  BY DEF TypeInv, InputOK
<1>2. Fresh(labels, llabels) <=> Fresh(labels', llabels')
  BY DEF Fresh
<1>3. /\ Fresh(labels', llabels') => ChainsOK(labels')
      /\ DepthsOK(llabels', Len(labels'.local))
  BY <1>1, <1>2 DEF LabelInv
<1> QED
  BY <1>1, <1>2, <1>3, StatementStep

LEMMA GotoOK ==
    InlineInv /\ TypeInv /\ LabelInv /\ Goto => TypeInv' /\ LabelInv'
<1> SUFFICES ASSUME InlineInv, TypeInv, LabelInv, Goto PROVE TypeInv' /\ LabelInv'
  OBVIOUS
<1>1. PICK L, s, v :
         /\ v = tok.l /\ L = Used(v) /\ s = label_find(L, v)
         /\ \/ L.sym[s].r = "FORWARD"
               /\ labels' = [L EXCEPT !.sym[s].jumps = @ \cup {Here}] /\ Emit(0)
            \/ L.sym[s].r # "FORWARD" /\ labels' = L /\ Emit(L.sym[s].jnext)
         /\ label_find(labels, v) = Null => Room(labels)
  BY DEF Goto
<1>2. /\ phase = "body" /\ phase' = "body" /\ UNCHANGED llabels /\ tok.op = "goto" /\ Advance
      /\ UNCHANGED <<inlines, jmp, tainted, defined, used>>
  BY DEF Goto, InBlock, errors, symbols
<1>3. /\ CodeOK /\ Len(code) \in Nat /\ TableOK(labels, Len(code)) /\ v \in Names
  BY <1>1, <1>2, TokenFields DEF TypeInv, CodeOK, InputOK, LabelOps
<1>4. /\ TableOK(L, Len(code)) /\ s \in Slots
      /\ L.local = labels.local /\ L.dangling = labels.dangling
      /\ ChainsOK(labels) => ChainsOK(L)
  BY <1>1, <1>3, UsedIs
<1>5. /\ L.sym[s] \in Label /\ L.sym[s].jnext \in 0..Len(code) /\ Here \in Nat
      /\ L.sym[s].jumps \subseteq Nat
  BY <1>3, <1>4 DEF TableOK, LabelTable, Label, Here
<1>6. CodeOK' /\ Len(code') = Len(code) + 1 /\ fn'.f = fn.f
  BY <1>1, <1>3, <1>5, EmitCell
<1>7. /\ TableOK(labels', Len(code))
      /\ labels'.local = labels.local /\ labels'.dangling = labels.dangling
      /\ ChainsOK(labels) => ChainsOK(labels')
  <2>1. CASE labels' = [L EXCEPT !.sym[s].jumps = @ \cup {Here}]
    <3> DEFINE e == [L.sym[s] EXCEPT !.jumps = @ \cup {Here}]
    <3>1. /\ e \in Label /\ e.v = L.sym[s].v /\ e.prev_tok = L.sym[s].prev_tok
          /\ e.jnext \in 0..Len(code)
      BY <1>5 DEF Label
    <3>2. labels' = WithSym(L, s, e)
      BY <2>1 DEF WithSym
    <3> HIDE DEF e
    <3>3. /\ TableOK(labels', Len(code)) /\ (ChainsOK(L) => ChainsOK(labels'))
          /\ labels'.local = L.local /\ labels'.dangling = L.dangling
      BY <1>3, <1>4, <3>1, <3>2, LabelSet
    <3> QED
      BY <1>4, <3>3
  <2>2. CASE labels' = L
    BY <1>4, <2>2
  <2> QED
    BY <1>1, <2>1, <2>2
<1>8. TableOK(labels', Len(code'))
  BY <1>3, <1>6, <1>7, TableMore
<1> QED
  BY <1>2, <1>6, <1>7, <1>8, UseOK

LEMMA AddressOfLabelOK ==
    InlineInv /\ TypeInv /\ LabelInv /\ AddressOfLabel => TypeInv' /\ LabelInv'
<1> SUFFICES ASSUME InlineInv, TypeInv, LabelInv, AddressOfLabel PROVE TypeInv' /\ LabelInv'
  OBVIOUS
<1>1. PICK L, s, v :
         /\ v = tok.l /\ L = Used(v) /\ s = label_find(L, v)
         /\ labels' = [L EXCEPT !.sym[s].refs = @ \cup {Here}]
         /\ label_find(labels, v) = Null => Room(labels)
  BY DEF AddressOfLabel
<1>2. /\ phase = "body" /\ phase' = "body" /\ UNCHANGED llabels /\ tok.op = "addr" /\ Advance
      /\ UNCHANGED <<inlines, jmp, tainted, defined, used>> /\ Emit(0)
  BY DEF AddressOfLabel, InBlock, errors, symbols
<1>3. /\ CodeOK /\ Len(code) \in Nat /\ TableOK(labels, Len(code)) /\ v \in Names
  BY <1>1, <1>2, TokenFields DEF TypeInv, CodeOK, InputOK, LabelOps
<1>4. /\ TableOK(L, Len(code)) /\ s \in Slots
      /\ L.local = labels.local /\ L.dangling = labels.dangling
      /\ ChainsOK(labels) => ChainsOK(L)
  BY <1>1, <1>3, UsedIs
<1>5. /\ L.sym[s] \in Label /\ L.sym[s].jnext \in 0..Len(code) /\ Here \in Nat
      /\ L.sym[s].refs \subseteq Nat
  BY <1>3, <1>4 DEF TableOK, LabelTable, Label, Here
<1>6. CodeOK' /\ Len(code') = Len(code) + 1 /\ fn'.f = fn.f
  BY <1>2, <1>3, EmitCell
<1> DEFINE e == [L.sym[s] EXCEPT !.refs = @ \cup {Here}]
<1>7. /\ e \in Label /\ e.v = L.sym[s].v /\ e.prev_tok = L.sym[s].prev_tok
      /\ e.jnext \in 0..Len(code)
  BY <1>5 DEF Label
<1>8. labels' = WithSym(L, s, e)
  BY <1>1 DEF WithSym
<1> HIDE DEF e
<1>9. /\ TableOK(labels', Len(code)) /\ (ChainsOK(L) => ChainsOK(labels'))
      /\ labels'.local = L.local /\ labels'.dangling = L.dangling
  BY <1>3, <1>4, <1>7, <1>8, LabelSet
<1>10. TableOK(labels', Len(code'))
  BY <1>3, <1>6, <1>9, TableMore
<1> QED
  BY <1>2, <1>4, <1>6, <1>9, <1>10, UseOK

LEMMA ThreeFields ==
    ASSUME NEW t \in Label, NEW d, NEW a, NEW z
    PROVE  [[[t EXCEPT !.r = d] EXCEPT !.jnext = a] EXCEPT !.jumps = z]
              = [v |-> t.v, r |-> d, prev_tok |-> t.prev_tok,
                 jumps |-> z, jnext |-> a, refs |-> t.refs]
<1>1. t = [v |-> t.v, r |-> t.r, prev_tok |-> t.prev_tok, jumps |-> t.jumps,
           jnext |-> t.jnext, refs |-> t.refs]
  BY DEF Label
<1>2. PICK t1 : t1 = [t EXCEPT !.r = d]
  OBVIOUS
<1>3. t1 = [v |-> t.v, r |-> d, prev_tok |-> t.prev_tok, jumps |-> t.jumps,
            jnext |-> t.jnext, refs |-> t.refs]
  BY <1>1, <1>2
<1>4. PICK t2 : t2 = [t1 EXCEPT !.jnext = a]
  OBVIOUS
<1>5. t2 = [v |-> t.v, r |-> d, prev_tok |-> t.prev_tok, jumps |-> t.jumps,
            jnext |-> a, refs |-> t.refs]
  BY <1>3, <1>4
<1>6. [t2 EXCEPT !.jumps = z] = [v |-> t.v, r |-> d, prev_tok |-> t.prev_tok,
                                 jumps |-> z, jnext |-> a, refs |-> t.refs]
  BY <1>5
<1> QED
  BY <1>2, <1>4, <1>6

\* A label that gets its address.
WithAddress(L, s, a) ==
    [L EXCEPT !.sym[s].r = "DEFINED", !.sym[s].jnext = a, !.sym[s].jumps = {}]

LEMMA DefinedSym ==
    ASSUME NEW L, L \in LabelTable, NEW s \in Slots, NEW a, NEW e,
           e = [v |-> L.sym[s].v, r |-> "DEFINED", prev_tok |-> L.sym[s].prev_tok,
                jumps |-> {}, jnext |-> a, refs |-> L.sym[s].refs]
    PROVE  WithAddress(L, s, a) = WithSym(L, s, e)
<1> DEFINE e1 == [L.sym[s] EXCEPT !.r = "DEFINED"]
           e2 == [e1 EXCEPT !.jnext = a]
           e3 == [e2 EXCEPT !.jumps = {}]
           S1 == [L.sym EXCEPT ![s] = e1]
           S2 == [S1 EXCEPT ![s] = e2]
           S3 == [S2 EXCEPT ![s] = e3]
           L1 == [L EXCEPT !.sym = S1]
           L2 == [L1 EXCEPT !.sym = S2]
           L3 == [L2 EXCEPT !.sym = S3]
<1>1. L.sym[s] \in Label /\ L.sym \in [Slots -> Label]
  BY DEF LabelTable
<1>2. e3 = e
  <2>1. L.sym[s] \in Label
    BY <1>1
  <2> QED
    BY <2>1, ThreeFields
<1>3. S3 = [L.sym EXCEPT ![s] = e3]
  <2> HIDE DEF e1, e2, e3
  <2> QED
    BY <1>1
<1>4. S1[s] = e1 /\ S2[s] = e2
  <2> HIDE DEF e1, e2
  <2> QED
    BY <1>1
<1>5. L3 = [L EXCEPT !.sym = S3] /\ L1.sym = S1 /\ L2.sym = S2
  <2> HIDE DEF S1, S2, S3
  <2> QED
    BY DEF LabelTable
<1>6. [L EXCEPT !.sym[s].r = "DEFINED", !.sym[s].jnext = a, !.sym[s].jumps = {}] = L3
  BY <1>4, <1>5
<1>7. WithAddress(L, s, a) = L3
  BY <1>6 DEF WithAddress
<1> HIDE DEF e1, e2, e3, S1, S2, S3, L1, L2, L3
<1> QED
  BY <1>2, <1>3, <1>5, <1>7 DEF WithSym

LEMMA DefineLabelOK ==
    InlineInv /\ TypeInv /\ LabelInv /\ DefineLabel => TypeInv' /\ LabelInv'
<1> SUFFICES ASSUME InlineInv, TypeInv, LabelInv, DefineLabel PROVE TypeInv' /\ LabelInv'
  OBVIOUS
<1>1. PICK L, s, v :
         /\ v = tok.l /\ s = label_find(L, v)
         /\ L = IF label_find(labels, v) # Null THEN labels
                ELSE PushGlobal(labels, v, "DEFINED")
         /\ labels' = [L EXCEPT !.sym[s].r = "DEFINED", !.sym[s].jnext = Here,
                                !.sym[s].jumps = {}]
         /\ code' = Append([a \in DOMAIN code |->
                              IF a \in L.sym[s].jumps THEN Here ELSE code[a]], 0)
         /\ label_find(labels, v) = Null => Room(labels)
  BY DEF DefineLabel
<1>2. /\ phase = "body" /\ phase' = "body" /\ UNCHANGED llabels /\ tok.op = "label" /\ Advance
      /\ UNCHANGED <<inlines, jmp, tainted, defined, used>>
      /\ fn' = [fn EXCEPT !.toks = Append(@, tok)]
  BY DEF DefineLabel, InBlock, errors, symbols
<1>3. /\ CodeOK /\ Len(code) \in Nat /\ TableOK(labels, Len(code)) /\ v \in Names
  <2>1. tok \in Lexemes /\ CodeOK /\ Len(code) \in Nat /\ TableOK(labels, Len(code))
    BY DEF TypeInv, CodeOK, InputOK
  <2>2. tok.l \in Names
    BY <1>2, <2>1, TokenFields DEF LabelOps
  <2> QED
    BY <1>1, <2>1, <2>2
<1>4. /\ TableOK(L, Len(code)) /\ s \in Slots
      /\ L.local = labels.local /\ L.dangling = labels.dangling
      /\ ChainsOK(labels) => ChainsOK(L)
  <2>1. labels \in LabelTable /\ labels.head[v] \in Slots \cup {Null}
    BY <1>3 DEF TableOK, LabelTable
  <2>2. CASE label_find(labels, v) # Null
    BY <1>1, <1>3, <2>1, <2>2 DEF label_find
  <2>3. CASE label_find(labels, v) = Null
    <3>1. PICK r : r = "DEFINED" /\ r \in States
      BY DEF States
    <3>2. L = PushGlobal(labels, v, r) /\ labels.head[v] = Null /\ Room(labels)
      BY <1>1, <2>3, <3>1 DEF label_find
    <3>3. TableOK(L, Len(code)) /\ L.dangling = labels.dangling /\ L.head[v] \in Slots
      BY <1>3, <3>1, <3>2, PushTable
    <3>4. L.local = labels.local
      BY <1>3, <2>1, <3>1, <3>2, PushGlobalLocal
    <3>5. ChainsOK(labels) => ChainsOK(L)
      BY <1>3, <2>1, <3>1, <3>2, PushGlobalChains
    <3> QED
      BY <1>1, <3>3, <3>4, <3>5 DEF label_find
  <2> QED
    BY <2>2, <2>3
<1>5. /\ L.sym[s] \in Label /\ Here = Len(code) + 1 /\ Here \in Nat
      /\ L \in LabelTable
  BY <1>3, <1>4 DEF TableOK, LabelTable, Here
<1>6. PICK e : e = [v |-> L.sym[s].v, r |-> "DEFINED", prev_tok |-> L.sym[s].prev_tok,
                    jumps |-> {}, jnext |-> Here, refs |-> L.sym[s].refs]
  OBVIOUS
<1>7. /\ e \in Label /\ e.v = L.sym[s].v /\ e.prev_tok = L.sym[s].prev_tok
      /\ e.jnext \in 0..Len(code) + 1
  <2>1. {} \in SUBSET Nat /\ "DEFINED" \in States
    BY DEF States
  <2> HIDE DEF States
  <2>2. e \in Label
    BY <1>5, <1>6, <2>1 DEF Label
  <2>3. e.v = L.sym[s].v /\ e.prev_tok = L.sym[s].prev_tok /\ e.jnext = Here
    BY <1>6
  <2> QED
    BY <1>3, <1>5, <2>2, <2>3
<1>13. labels' = WithSym(L, s, e)
  <2>1. WithAddress(L, s, Here) = WithSym(L, s, e)
    BY <1>4, <1>5, <1>6, DefinedSym
  <2>2. labels' = WithAddress(L, s, Here)
    BY <1>1 DEF WithAddress
  <2> QED
    BY <2>1, <2>2
<1>8. TableOK(L, Len(code) + 1) /\ Len(code) + 1 \in Nat
  BY <1>3, <1>4, TableMore
<1>9. /\ TableOK(labels', Len(code) + 1) /\ (ChainsOK(L) => ChainsOK(labels'))
      /\ labels'.local = L.local /\ labels'.dangling = L.dangling
  BY <1>4, <1>7, <1>8, <1>13, LabelSet
<1>10. CodeOK' /\ Len(code') = Len(code) + 1
  <2> DEFINE c == [a \in DOMAIN code |-> IF a \in L.sym[s].jumps THEN Here ELSE code[a]]
  <2>1. /\ code \in Seq(Nat) /\ DOMAIN code = 1..Len(code)
        /\ \A a \in DOMAIN code : code[a] \in 0..Len(code)
    BY <1>3 DEF CodeOK
  <2>2. c \in [1..Len(code) -> Nat] /\ \A a \in 1..Len(code) : c[a] \in 0..Len(code) + 1
    BY <1>3, <1>5, <2>1
  <2>6. code' = Append(c, 0)
    BY <1>1
  <2> HIDE DEF c
  <2>3. c \in Seq(Nat) /\ Len(c) = Len(code)
    BY <1>3, <2>2, SeqDef, LenProperties
  <2>4. 0 \in 0..Len(c) + 1 /\ DOMAIN c = 1..Len(code)
    BY <1>3, <2>2, <2>3
  <2>5. \A a \in DOMAIN c : c[a] \in 0..Len(c) + 1
    BY <2>2, <2>3, <2>4
  <2> QED
    BY <2>3, <2>4, <2>5, <2>6, AppendCell DEF CodeOK
<1>11. fn'.f = fn.f
  BY <1>2 DEF InlineInv, ShapeOK
<1>12. TableOK(labels', Len(code'))
  BY <1>9, <1>10
<1> QED
  BY <1>2, <1>4, <1>9, <1>10, <1>11, <1>12, UseOK

\* The stack where the innermost block begins.
LEMMA OpenedIs ==
    ASSUME NEW n \in Nat, DepthsOK(llabels, n), llabels # <<>>
    PROVE  Opened \in 0..n /\ Opened \in Nat
<1>1. llabels \in Seq(Nat) /\ Len(llabels) \in DOMAIN llabels
  BY DEF DepthsOK
<1> QED
  BY <1>1 DEF DepthsOK, Opened

\* After an error no label of the block may be left.
LEMMA FailedPop ==
    ASSUME NEW L, L \in LabelTable, NEW n, TableOK(L, n), NEW st \in Stacks,
           L[st] \in Seq(Slots), NEW d \in Nat, PopFails(L, st, d),
           NEW q, Fresh(L, q) => ChainsOK(L), Fresh(Popped(L, st, d), <<>>) => Fresh(L, q)
    PROVE  /\ TableOK(Popped(L, st, d), n)
           /\ Fresh(Popped(L, st, d), <<>>) => ChainsOK(Popped(L, st, d))
<1>1. PICK L2 : L2 = Popped(L, st, d)
  OBVIOUS
<1>2. /\ L2 \in LabelTable
      /\ L2.sym = L.sym /\ L2.local = L.local /\ L2.global = L.global
      /\ Freed(L, st, d) # {} => L2.dangling # {}
      /\ L.dangling \subseteq L2.dangling
      /\ Freed(L, st, d) = {} => L2.head = L.head
  BY <1>1, PopFailsIs
<1>3. TableOK(L2, n)
  BY <1>2 DEF TableOK
<1>4. ASSUME Fresh(L2, <<>>)
      PROVE  ChainsOK(L2)
  <2>1. L2.head = L.head /\ ChainsOK(L)
    BY <1>1, <1>2, <1>4 DEF Fresh
  <2> QED
    BY <1>2, <2>1, SameChains
<1> QED
  BY <1>1, <1>3, <1>4

\* Where no local label is left, the blocks begin at the bottom of the stack.
LEMMA FreshBelow == TypeInv /\ Fresh(labels, <<>>) => Fresh(labels, llabels)
<1> SUFFICES ASSUME TypeInv, Fresh(labels, <<>>) PROVE Fresh(labels, llabels)
  OBVIOUS
<1>1. CASE llabels = <<>>
  BY <1>1
<1>2. CASE llabels # <<>>
  <2>1. labels.local = <<>> /\ labels.dangling = {}
    BY DEF Fresh
  <2>2. llabels \in Seq(Nat) /\ DepthsOK(llabels, 0)
    BY <2>1 DEF TypeInv, DepthsOK
  <2>3. 1 \in DOMAIN llabels
    BY <1>2, <2>2
  <2>4. llabels[1] = 0
    BY <2>2, <2>3 DEF DepthsOK
  <2> QED
    BY <1>2, <2>1, <2>4 DEF Fresh
<1> QED
  BY <1>1, <1>2

LEMMA FailedBlock ==
    ASSUME TypeInv, LabelInv, llabels # <<>>, PopFails(labels, "local", Opened)
    PROVE  /\ TableOK(Popped(labels, "local", Opened), Len(code))
           /\ Fresh(Popped(labels, "local", Opened), <<>>)
                 => ChainsOK(Popped(labels, "local", Opened))
<1> DEFINE n == Len(labels.local)
<1>1. /\ TableOK(labels, Len(code)) /\ labels \in LabelTable
      /\ DepthsOK(llabels, n) /\ llabels \in Seq(Nat)
      /\ labels.local \in Seq(Slots) /\ labels["local"] \in Seq(Slots) /\ n \in Nat
  BY DEF TypeInv, TableOK, DepthsOK, LabelTable
<1>2. Opened \in 0..n /\ Opened \in Nat /\ "local" \in Stacks
  BY <1>1, OpenedIs DEF Stacks
<1>3. Fresh(Popped(labels, "local", Opened), <<>>) => Fresh(labels, llabels)
  <2>1. PICK L2 : L2 = Popped(labels, "local", Opened)
    OBVIOUS
  <2>2. /\ L2 \in LabelTable
        /\ L2.sym = labels.sym /\ L2.local = labels.local /\ L2.global = labels.global
        /\ Freed(labels, "local", Opened) # {} => L2.dangling # {}
        /\ labels.dangling \subseteq L2.dangling
        /\ Freed(labels, "local", Opened) = {} => L2.head = labels.head
    BY <1>1, <1>2, <2>1, PopFailsIs
  <2>3. Fresh(L2, <<>>) => Fresh(labels, <<>>)
    BY <2>2 DEF Fresh
  <2> QED
    BY <2>1, <2>3, FreshBelow
<1> QED
  BY <1>1, <1>2, <1>3, FailedPop DEF LabelInv

LEMMA CloseBlockOK ==
    InlineInv /\ TypeInv /\ LabelInv /\ CloseBlock => TypeInv' /\ LabelInv'
<1> SUFFICES ASSUME InlineInv, TypeInv, LabelInv, CloseBlock PROVE TypeInv' /\ LabelInv'
  OBVIOUS
<1> DEFINE n == Len(labels.local)
           m == Len(llabels)
<1>1. phase = "body" /\ llabels # <<>> /\ m > 1
  BY DEF CloseBlock, InBlock
<1>2. /\ CodeOK /\ Len(code) \in Nat /\ TableOK(labels, Len(code)) /\ labels \in LabelTable
      /\ input \in Input /\ used \subseteq Funcs
      /\ DepthsOK(llabels, n) /\ llabels \in Seq(Nat) /\ m \in Nat
      /\ labels.local \in Seq(Slots) /\ labels["local"] \in Seq(Slots) /\ n \in Nat
  BY DEF TypeInv, CodeOK, InputOK, TableOK, DepthsOK, LabelTable
<1>3. Opened \in 0..n /\ Opened \in Nat /\ "local" \in Stacks
  BY <1>1, <1>2, OpenedIs DEF Stacks
<1>4. CASE PopFails(labels, "local", Opened)
  <2>1. Error(Popped(labels, "local", Opened), input)
    BY <1>4 DEF CloseBlock
  <2>3. /\ TableOK(Popped(labels, "local", Opened), Len(code))
        /\ Fresh(Popped(labels, "local", Opened), <<>>)
              => ChainsOK(Popped(labels, "local", Opened))
    BY <1>1, <1>4, FailedBlock
  <2> QED
    BY <1>1, <1>2, <2>1, <2>3, ErrorStep
<1>5. CASE ~ PopFails(labels, "local", Opened)
  <2>1. /\ labels' = Popped(labels, "local", Opened)
        /\ code' = Append(Relocated(code, Resolved(labels, "local", Opened)), 0)
        /\ fn' = [fn EXCEPT !.toks = Append(@, tok)]
        /\ llabels' = SubSeq(llabels, 1, m - 1)
        /\ Advance /\ phase' = "body"
        /\ UNCHANGED <<inlines, jmp, tainted, defined, used>>
    BY <1>1, <1>5 DEF CloseBlock, errors, symbols
  <2>2. /\ labels' \in LabelTable
        /\ labels'.sym = labels.sym /\ labels'.global = labels.global
        /\ labels'.dangling = labels.dangling
        /\ labels'.local = SubSeq(labels.local, 1, Opened) /\ Len(labels'.local) = Opened
        /\ \A k \in 1..Opened : labels'.local[k] = labels.local[k]
        /\ labels'.head = HeadsAfterPop(labels, "local", Opened)
    BY <1>2, <1>3, <1>5, <2>1, PopLocalIs
  <2>3. CodeOK' /\ Len(code') = Len(code) + 1
    <3>1. \A x \in Resolved(labels, "local", Opened) : x[2] \in 0..Len(code)
      BY <1>2, <1>3, ResolvedCells
    <3> DEFINE c == Relocated(code, Resolved(labels, "local", Opened))
    <3>2. /\ c \in Seq(Nat) /\ Len(c) = Len(code)
          /\ \A a \in DOMAIN c : c[a] \in 0..Len(code)
      BY <1>2, <3>1, RelocatedCells DEF CodeOK
    <3>3. code' = Append(c, 0)
      BY <2>1
    <3> HIDE DEF c
    <3>4. (\A a \in DOMAIN c : c[a] \in 0..Len(c) + 1) /\ 0 \in 0..Len(c) + 1
      BY <1>2, <3>2
    <3> QED
      BY <3>2, <3>3, <3>4, AppendCell DEF CodeOK
  <2>4. fn'.f = fn.f
    BY <2>1 DEF InlineInv, ShapeOK
  <2>5. TableOK(labels', Len(code'))
    <3>1. TableOK(labels', Len(code))
      BY <1>2, <2>2 DEF TableOK
    <3> QED
      BY <1>2, <2>3, <3>1, TableMore
  <2>6. /\ llabels' \in Seq(Nat) /\ DOMAIN llabels' = 1..m - 1 /\ llabels' # <<>>
        /\ \A k \in 1..m - 1 : llabels'[k] = llabels[k]
    <3>1. /\ llabels' \in Seq(Nat) /\ Len(llabels') = m - 1 /\ m - 1 >= 1
          /\ \A k \in 1..m - 1 : llabels'[k] = llabels[k]
      BY <1>1, <1>2, <2>1
    <3> QED
      BY <3>1
  <2>7. DepthsOK(llabels', Opened)
    <3>1. m \in DOMAIN llabels /\ \A k \in 1..m - 1 : k \in DOMAIN llabels /\ k \in 1..m
      BY <1>1, <1>2
    <3>2. \A k \in 1..m - 1 : \A j \in 1..k : j \in 1..m - 1
      BY <1>2
    <3>3. \A k \in 1..m - 1 : llabels[k] <= llabels[m]
      BY <1>2, <3>1 DEF DepthsOK
    <3>4. \A k \in 1..m - 1 : \A j \in 1..k : llabels[j] <= llabels[k]
      BY <1>2, <3>1 DEF DepthsOK
    <3>5. PICK q, d : q = llabels' /\ d = Opened
      OBVIOUS
    <3>6. /\ q \in Seq(Nat) /\ DOMAIN q = 1..m - 1 /\ d = llabels[m]
          /\ \A k \in 1..m - 1 : q[k] = llabels[k]
      BY <2>6, <3>5 DEF Opened
    <3>7. ASSUME NEW k \in 1..m - 1
          PROVE  q[k] <= d /\ \A j \in 1..k : q[j] <= q[k]
      BY <3>2, <3>3, <3>4, <3>6
    <3>8. DepthsOK(q, d)
      BY <3>6, <3>7 DEF DepthsOK
    <3> QED
      BY <3>5, <3>8
  <2>8. Fresh(labels, llabels) <=> Fresh(labels', llabels')
    <3>1. llabels'[1] = llabels[1]
      BY <1>1, <1>2, <2>6
    <3> QED
      BY <1>1, <2>2, <2>6, <3>1 DEF Fresh
  <2>9. ChainsOK(labels) => ChainsOK(labels')
    BY <1>2, <1>3, <1>5, <2>1, PopLocalChains
  <2>10. Fresh(labels', llabels') => ChainsOK(labels')
    BY <2>8, <2>9 DEF LabelInv
  <2>11. DepthsOK(llabels', Len(labels'.local)) /\ used' \subseteq Funcs
    BY <1>2, <2>1, <2>2, <2>7
  <2> QED
    BY <1>1, <2>1, <2>3, <2>4, <2>5, <2>8, <2>10, <2>11, StatementStep
<1> QED
  BY <1>4, <1>5

\* An error that leaves the labels as they are.
LEMMA ErrorHere ==
    ASSUME TypeInv, LabelInv, phase # "idle", NEW in \in Input, Error(labels, in)
    PROVE  TypeInv' /\ LabelInv'
<1>1. TableOK(labels, Len(code))
  BY DEF TypeInv
<1>2. Fresh(labels, <<>>) => ChainsOK(labels)
  BY FreshBelow DEF LabelInv
<1> QED
  BY <1>1, <1>2, ErrorStep

LEMMA StatementWrongOK ==
    InlineInv /\ TypeInv /\ LabelInv /\ StatementWrong => TypeInv' /\ LabelInv'
<1> SUFFICES ASSUME InlineInv, TypeInv, LabelInv, StatementWrong PROVE TypeInv' /\ LabelInv'
  OBVIOUS
<1>1. phase = "body" /\ input \in Input
  BY DEF StatementWrong, InBlock, TypeInv, InputOK
<1>2. PICK in : /\ in \in {AtName(input), AfterName(input), input}
                /\ Error(labels, in)
  BY DEF StatementWrong
<1>3. in \in Input
  BY <1>1, <1>2, AheadTyped
<1> QED
  BY <1>1, <1>2, <1>3, ErrorHere

\* macro_ptr is set.
LEMMA MacroSet ==
    ASSUME NEW in \in Input, NEW q \in Seq(Lexemes) \cup {Null}
    PROVE  [in EXCEPT !.macro = q] \in Input
  BY DEF Input

\* The end of a function: its labels are freed, and none is left.
LEMMA FunctionDoneOK ==
    ASSUME InlineInv, TypeInv, LabelInv, phase = "body",
           llabels # <<>>, Len(llabels) = 1,
           NEW L, L = Popped(labels, "local", Opened), ~ PopFails(labels, "local", Opened),
           ~ PopFails(L, "global", 0), FunctionDone(L, Resolved(labels, "local", Opened))
    PROVE  TypeInv' /\ LabelInv'
<1> DEFINE n == Len(labels.local)
           r == Resolved(labels, "local", Opened) \cup Resolved(L, "global", 0)
<1>1. /\ CodeOK /\ Len(code) \in Nat /\ TableOK(labels, Len(code)) /\ labels \in LabelTable
      /\ input \in Input /\ inline_fns \in Seq(Recorded)
      /\ defined \subseteq Funcs /\ used \subseteq Funcs
      /\ DepthsOK(llabels, n) /\ llabels \in Seq(Nat) /\ llabels # <<>>
      /\ labels.local \in Seq(Slots) /\ labels["local"] \in Seq(Slots) /\ n \in Nat
      /\ i \in 1..Len(inline_fns) + 1 /\ jmp \in BOOLEAN
      /\ ~ jmp => i <= Len(inline_fns)
  <2>1. /\ CodeOK /\ Len(code) \in Nat /\ TableOK(labels, Len(code)) /\ labels \in LabelTable
        /\ input \in Input /\ inline_fns \in Seq(Recorded)
        /\ defined \subseteq Funcs /\ used \subseteq Funcs
        /\ DepthsOK(llabels, n) /\ llabels \in Seq(Nat)
    BY DEF TypeInv, CodeOK, InputOK, TableOK, DepthsOK
  <2>2. labels.local \in Seq(Slots) /\ labels["local"] \in Seq(Slots) /\ n \in Nat
    BY <2>1 DEF LabelTable
  <2>4. i \in 1..Len(inline_fns) + 1 /\ jmp \in BOOLEAN /\ (~ jmp => i <= Len(inline_fns))
    BY DEF TypeInv, PhaseOK
  <2> QED
    BY <2>1, <2>2, <2>4
<1>2. /\ Opened \in 0..n /\ Opened \in Nat /\ "local" \in Stacks /\ "global" \in Stacks
      /\ Opened = llabels[1]
  BY <1>1, OpenedIs DEF Stacks, Opened
<1>3. /\ L \in LabelTable
      /\ L.sym = labels.sym /\ L.global = labels.global /\ L.dangling = labels.dangling
      /\ L.local = SubSeq(labels.local, 1, Opened) /\ Len(L.local) = Opened
      /\ \A k \in 1..Opened : L.local[k] = labels.local[k]
      /\ L.head = HeadsAfterPop(labels, "local", Opened)
  BY <1>1, <1>2, PopLocalIs
<1>4. TableOK(L, Len(code)) /\ L["global"] \in Seq(Slots) /\ 0 \in Nat
  BY <1>1, <1>3 DEF TableOK, LabelTable
<1>5. /\ labels' = Popped(L, "global", 0)
      /\ code' = Append(Relocated(code, r), 0)
      /\ llabels' = <<>> /\ tok' = Token(input)
      /\ UNCHANGED <<defined, used, inline_fns, jmp, tainted>>
      /\ \/ jmp /\ phase' = "decl" /\ input' = After(input) /\ i' = i
         \/ /\ ~ jmp /\ phase' = "passes" /\ i' = i + 1
            /\ input' = [After(input) EXCEPT !.macro = Null]
  BY DEF FunctionDone, symbols, errors
<1>6. /\ labels' \in LabelTable
      /\ labels'.sym = L.sym /\ labels'.local = L.local /\ labels'.dangling = L.dangling
      /\ labels'.global = <<>>
      /\ labels'.head = HeadsAfterPop(L, "global", 0)
  BY <1>3, <1>5, PopGlobalIs
<1>7. CodeOK' /\ Len(code') = Len(code) + 1
  <2>1. \A x \in r : x[2] \in 0..Len(code)
    <3>1. \A x \in Resolved(labels, "local", Opened) : x[2] \in 0..Len(code)
      BY <1>1, <1>2, ResolvedCells
    <3>2. \A x \in Resolved(L, "global", 0) : x[2] \in 0..Len(code)
      BY <1>2, <1>4, ResolvedCells
    <3> QED
      BY <3>1, <3>2
  <2> HIDE DEF r
  <2> DEFINE c == Relocated(code, r)
  <2>2. /\ c \in Seq(Nat) /\ Len(c) = Len(code)
        /\ \A a \in DOMAIN c : c[a] \in 0..Len(code)
    BY <1>1, <2>1, RelocatedCells DEF CodeOK
  <2>3. code' = Append(c, 0)
    BY <1>5
  <2> HIDE DEF c
  <2>4. (\A a \in DOMAIN c : c[a] \in 0..Len(c) + 1) /\ 0 \in 0..Len(c) + 1
    BY <1>1, <2>2
  <2> QED
    BY <2>2, <2>3, <2>4, AppendCell DEF CodeOK
<1>8. TableOK(labels', Len(code'))
  <2>1. TableOK(labels', Len(code))
    BY <1>4, <1>6 DEF TableOK
  <2> QED
    BY <1>1, <1>7, <2>1, TableMore
<1>9. PhaseOK'
  BY <1>1, <1>5 DEF PhaseOK
<1>10. InputOK'
  <2>1. Token(input) \in Lexemes /\ After(input) \in Input
    BY <1>1, TokenTyped
  <2>2. [After(input) EXCEPT !.macro = Null] \in Input
    <3>1. Null \in Seq(Lexemes) \cup {Null}
      OBVIOUS
    <3> QED
      BY <2>1, <3>1, MacroSet
  <2>3. Current' = {} /\ phase' # "record"
    BY <1>5 DEF Current
  <2> QED
    BY <1>1, <1>5, <2>1, <2>2, <2>3 DEF InputOK
<1>11. DepthsOK(llabels', Len(labels'.local))
  BY <1>5 DEF DepthsOK
<1>12. TypeInv'
  BY <1>7, <1>8, <1>9, <1>10, <1>11 DEF TypeInv
<1>13. Fresh(labels', llabels') <=> Fresh(labels, llabels)
  <2>1. L.local = <<>> <=> Opened = 0
    BY <1>2, <1>3 DEF LabelTable
  <2> QED
    BY <1>1, <1>2, <1>3, <1>5, <1>6, <2>1 DEF Fresh
<1>14. ASSUME Fresh(labels', llabels')
       PROVE  ChainsOK(labels')
  <2>1. ChainsOK(labels) /\ L.local = <<>>
    BY <1>5, <1>6, <1>13, <1>14 DEF LabelInv, Fresh
  <2>2. ChainsOK(L)
    BY <1>1, <1>2, <2>1, PopLocalChains
  <2> QED
    BY <1>3, <1>5, <2>1, <2>2, PopGlobalChains
<1>15. LabelInv'
  BY <1>5, <1>13, <1>14 DEF LabelInv
<1> QED
  BY <1>12, <1>15

LEMMA EndFunctionOK ==
    InlineInv /\ TypeInv /\ LabelInv /\ EndFunction => TypeInv' /\ LabelInv'
<1> SUFFICES ASSUME InlineInv, TypeInv, LabelInv, EndFunction PROVE TypeInv' /\ LabelInv'
  OBVIOUS
<1>1. PICK L : L = Popped(labels, "local", Opened)
  OBVIOUS
<1>2. /\ phase = "body" /\ llabels # <<>> /\ Len(llabels) = 1
      /\ IF PopFails(labels, "local", Opened) THEN Error(L, input)
         ELSE IF PopFails(L, "global", 0)
              THEN Error(Popped(L, "global", 0), After(input))
              ELSE FunctionDone(L, Resolved(labels, "local", Opened))
  BY <1>1 DEF EndFunction, InBlock
<1>3. input \in Input /\ After(input) \in Input
  BY TokenTyped DEF TypeInv, InputOK
<1>4. CASE PopFails(labels, "local", Opened)
  <2>1. TableOK(L, Len(code)) /\ (Fresh(L, <<>>) => ChainsOK(L))
    BY <1>1, <1>2, <1>4, FailedBlock
  <2> QED
    BY <1>2, <1>3, <1>4, <2>1, ErrorStep
<1>5. CASE ~ PopFails(labels, "local", Opened) /\ PopFails(L, "global", 0)
  <2> DEFINE n == Len(labels.local)
  <2>1. /\ TableOK(labels, Len(code)) /\ labels \in LabelTable
        /\ DepthsOK(llabels, n) /\ llabels \in Seq(Nat) /\ n \in Nat
    BY DEF TypeInv, TableOK, DepthsOK, LabelTable
  <2>2. /\ Opened \in 0..n /\ Opened \in Nat /\ "global" \in Stacks /\ 0 \in Nat
        /\ Opened = llabels[1]
    BY <1>2, <2>1, OpenedIs DEF Stacks, Opened
  <2>3. /\ L \in LabelTable
        /\ L.sym = labels.sym /\ L.global = labels.global /\ L.dangling = labels.dangling
        /\ L.local = SubSeq(labels.local, 1, Opened) /\ Len(L.local) = Opened
        /\ \A k \in 1..Opened : L.local[k] = labels.local[k]
        /\ L.head = HeadsAfterPop(labels, "local", Opened)
    BY <1>1, <1>5, <2>1, <2>2, PopLocalIs
  <2>4. TableOK(L, Len(code)) /\ L["global"] \in Seq(Slots)
    BY <2>1, <2>3 DEF TableOK, LabelTable
  <2>5. Fresh(L, llabels) <=> Fresh(labels, llabels)
    BY <1>2, <2>3 DEF Fresh
  <2>6. Fresh(L, llabels) => ChainsOK(L)
    BY <1>1, <1>5, <2>1, <2>2, <2>5, PopLocalChains DEF LabelInv
  <2>7. Fresh(Popped(L, "global", 0), <<>>) => Fresh(L, llabels)
    <3>1. PICK L2 : L2 = Popped(L, "global", 0)
      OBVIOUS
    <3>2. L2.local = L.local /\ L.dangling \subseteq L2.dangling
      <4>1. PICK st, d : st = "global" /\ d = 0
        OBVIOUS
      <4>2. /\ st \in Stacks /\ d \in Nat /\ L[st] \in Seq(Slots) /\ L \in LabelTable
            /\ PopFails(L, st, d) /\ L2 = Popped(L, st, d)
        BY <1>5, <2>2, <2>3, <2>4, <3>1, <4>1
      <4> QED
        BY <4>2, PopFailsIs
    <3>3. L.local = <<>> => Opened = 0
      BY <2>2, <2>3
    <3>4. Fresh(L2, <<>>) => L.dangling = {} /\ L.local = <<>>
      BY <3>2 DEF Fresh
    <3> QED
      BY <1>2, <2>2, <3>1, <3>3, <3>4 DEF Fresh
  <2>8. /\ TableOK(Popped(L, "global", 0), Len(code))
        /\ Fresh(Popped(L, "global", 0), <<>>) => ChainsOK(Popped(L, "global", 0))
    BY <1>5, <2>2, <2>3, <2>4, <2>6, <2>7, FailedPop
  <2> QED
    BY <1>2, <1>3, <1>5, <2>8, ErrorStep
<1>6. CASE ~ PopFails(labels, "local", Opened) /\ ~ PopFails(L, "global", 0)
  BY <1>1, <1>2, <1>6, FunctionDoneOK
<1> QED
  BY <1>4, <1>5, <1>6

LEMMA TouchFreedOK ==
    TypeInv /\ LabelInv /\ TouchFreed => TypeInv' /\ LabelInv'
<1> SUFFICES ASSUME TypeInv, LabelInv, TouchFreed PROVE TypeInv' /\ LabelInv'
  OBVIOUS
<1>1. /\ phase' = "undefined" /\ tainted' = TRUE
      /\ UNCHANGED <<input, tok, labels, llabels, fn, defined, used, inlines, jmp, code>>
  BY DEF TouchFreed, UseFreed, symbols, output
<1>2. PhaseOK'
  BY <1>1 DEF TypeInv, PhaseOK, inlines
<1>3. InputOK'
  BY <1>1 DEF TypeInv, InputOK, Current, inlines
<1>4. CodeOK' /\ TableOK(labels', Len(code')) /\ DepthsOK(llabels', Len(labels'.local))
  BY <1>1 DEF TypeInv, CodeOK
<1> QED
  BY <1>1, <1>2, <1>3, <1>4 DEF TypeInv, LabelInv

\* The labels stay as they are.
LEMMA SameLabels ==
    ASSUME LabelInv, UNCHANGED <<labels, llabels, tainted>>,
           phase # "idle" \/ phase' = "idle"
    PROVE  LabelInv'
  BY DEF LabelInv

LEMMA StartUnitOK ==
    TypeInv /\ LabelInv /\ StartUnit => TypeInv' /\ LabelInv'
<1> SUFFICES ASSUME TypeInv, LabelInv, StartUnit PROVE TypeInv' /\ LabelInv'
  OBVIOUS
<1>1. PICK t \in Texts : tok' = Token([input EXCEPT !.file = t])
                         /\ input' = After([input EXCEPT !.file = t])
  BY DEF StartUnit, Next1
<1>2. /\ phase = "idle" /\ phase' = "decl" /\ jmp' = TRUE
      /\ (tainted' = ~ Clean)
      /\ UNCHANGED <<labels, llabels, fn, defined, used, inlines, code>>
  BY DEF StartUnit, symbols, output
<1>3. tok' \in Lexemes /\ input' \in Input
  <2>1. t \in Seq(Tokens) /\ input \in Input
    BY UnitsAssumption DEF TypeInv, InputOK
  <2>2. [input EXCEPT !.file = t] \in Input
    BY <2>1 DEF Input
  <2> QED
    BY <1>1, <2>2, TokenTyped
<1>4. llabels = <<>>
  BY <1>2 DEF TypeInv, PhaseOK
<1>5. PhaseOK'
  BY <1>2, <1>4 DEF TypeInv, PhaseOK, inlines
<1>6. InputOK'
  BY <1>2, <1>3 DEF TypeInv, InputOK, Current, inlines
<1>7. CodeOK' /\ TableOK(labels', Len(code')) /\ DepthsOK(llabels', Len(labels'.local))
  BY <1>2 DEF TypeInv, CodeOK
<1>8. ~ tainted' => Fresh(labels', llabels')
  BY <1>2, <1>4 DEF Clean, Fresh
<1>9. LabelInv'
  BY <1>2, <1>8 DEF LabelInv
<1> QED
  BY <1>5, <1>6, <1>7, <1>9 DEF TypeInv

LEMMA RecreateOK ==
    TypeInv /\ LabelInv /\ Recreate => TypeInv' /\ LabelInv'
<1> SUFFICES ASSUME TypeInv, LabelInv, Recreate PROVE TypeInv' /\ LabelInv'
  OBVIOUS
<1> DEFINE H == [v \in Names |-> Null]
           D == {st \in Stacks : labels[st] # <<>>}
<1>1. /\ phase = "idle" /\ phase' = "idle"
      /\ labels' = [labels EXCEPT !.head = H, !.dangling = D]
      /\ input' = [input EXCEPT !.macro = Null]
      /\ UNCHANGED <<tok, llabels, fn, defined, used, inlines, jmp, tainted, code>>
  BY DEF Recreate, symbols, output, errors
<1>2. llabels = <<>> /\ labels \in LabelTable /\ TableOK(labels, Len(code)) /\ input \in Input
  BY <1>1 DEF TypeInv, PhaseOK, TableOK, InputOK
<1>3. D \in SUBSET Stacks /\ H \in [Names -> Slots \cup {Null}]
  OBVIOUS
<1>4. D = {} => labels.local = <<>> /\ labels.global = <<>>
  BY DEF Stacks
<1>5. \A v \in Names : H[v] = Null
  OBVIOUS
<1> HIDE DEF D, H
<1>6. /\ labels' \in LabelTable /\ labels'.sym = labels.sym /\ labels'.local = labels.local
      /\ labels'.global = labels.global /\ labels'.head = H /\ labels'.dangling = D
  <2>1. labels' = [sym |-> labels.sym, head |-> H, global |-> labels.global,
                   local |-> labels.local, dangling |-> D]
    BY <1>1, <1>2 DEF LabelTable
  <2> HIDE DEF Label
  <2> QED
    BY <1>2, <1>3, <2>1 DEF LabelTable
<1>7. PhaseOK'
  BY <1>1 DEF TypeInv, PhaseOK, inlines
<1>8. InputOK'
  <2>1. input' \in Input
    BY <1>1, <1>2, MacroSet
  <2> QED
    BY <1>1, <2>1 DEF TypeInv, InputOK, Current, inlines
<1>9. CodeOK' /\ TableOK(labels', Len(code')) /\ DepthsOK(llabels', Len(labels'.local))
  BY <1>1, <1>2, <1>6 DEF TypeInv, CodeOK, TableOK
<1>10. Fresh(labels', llabels') => ChainsOK(labels')
  <2> SUFFICES ASSUME D = {} PROVE ChainsOK(labels')
    BY <1>6 DEF Fresh
  <2>1. labels'.local = <<>> /\ labels'.global = <<>>
    BY <1>4, <1>6
  <2> QED
    BY <1>5, <1>6, <2>1 DEF ChainsOK, Finds
<1>11. LabelInv'
  BY <1>1, <1>10 DEF LabelInv
<1> QED
  BY <1>7, <1>8, <1>9, <1>11 DEF TypeInv

LEMMA BeginFunctionOK ==
    TypeInv /\ LabelInv /\ BeginFunction => TypeInv' /\ LabelInv'
<1> SUFFICES ASSUME TypeInv, LabelInv, BeginFunction PROVE TypeInv' /\ LabelInv'
  OBVIOUS
<1>1. /\ phase = "decl" /\ phase' \in {"record", "body"} /\ tok.op = "func"
      /\ defined' = defined \cup {tok.f} /\ used' \subseteq used \cup {tok.f}
      /\ fn'.f = tok.f /\ fn'.toks = <<>> /\ Advance
      /\ UNCHANGED <<labels, llabels, inlines, jmp, tainted, code>>
  BY DEF BeginFunction, errors, output
<1>2. tok.f \in Funcs /\ input \in Input
  BY <1>1, TokenFields DEF TypeInv, InputOK
<1>3. tok' \in Lexemes /\ input' \in Input
  BY <1>1, <1>2, AdvanceTyped
<1>4. PhaseOK'
  BY <1>1 DEF TypeInv, PhaseOK, inlines
<1>5. InputOK'
  BY <1>1, <1>2, <1>3 DEF TypeInv, InputOK, Current, inlines
<1>6. CodeOK' /\ TableOK(labels', Len(code')) /\ DepthsOK(llabels', Len(labels'.local))
  BY <1>1 DEF TypeInv, CodeOK
<1>7. LabelInv'
  BY <1>1, SameLabels
<1> QED
  BY <1>4, <1>5, <1>6, <1>7 DEF TypeInv

LEMMA RecordOK ==
    InlineInv /\ TypeInv /\ LabelInv /\ Record => TypeInv' /\ LabelInv'
<1> SUFFICES ASSUME InlineInv, TypeInv, LabelInv, Record PROVE TypeInv' /\ LabelInv'
  OBVIOUS
<1>1. /\ phase = "record" /\ Next1(input)
      /\ UNCHANGED <<labels, llabels, defined, used, i, jmp, tainted, code>>
      /\ \/ /\ phase' = "decl"
            /\ inline_fns' = Append(inline_fns, [sym |-> fn.f, toks |-> Append(fn.toks, tok)])
         \/ /\ phase' = "record" /\ inline_fns' = inline_fns
            /\ fn' = [fn EXCEPT !.toks = Append(fn.toks, tok)]
  BY DEF Record, errors, output, symbols
<1>2. /\ tok \in Lexemes /\ input \in Input /\ fn.toks \in Seq(Lexemes)
      /\ fn.f \in Funcs /\ inline_fns \in Seq(Recorded) /\ jmp
      /\ i \in 1..Len(inline_fns) + 1
  BY <1>1 DEF TypeInv, InputOK, PhaseOK, Current
<1>3. tok' \in Lexemes /\ input' \in Input
  BY <1>1, <1>2, TokenTyped DEF Next1
<1>4. Append(fn.toks, tok) \in Seq(Lexemes)
  BY <1>2
<1>5. /\ inline_fns' \in Seq(Recorded) /\ i' \in 1..Len(inline_fns') + 1
  <2>1. [sym |-> fn.f, toks |-> Append(fn.toks, tok)] \in Recorded
    BY <1>2, <1>4 DEF Recorded
  <2>2. PICK e \in Recorded : inline_fns' = inline_fns \/ inline_fns' = Append(inline_fns, e)
    BY <1>1, <2>1
  <2>3. CASE inline_fns' = inline_fns
    BY <1>1, <1>2, <2>3
  <2>4. CASE inline_fns' = Append(inline_fns, e)
    <3>1. inline_fns' \in Seq(Recorded)
      BY <1>2, <2>4
    <3>2. Len(inline_fns') = Len(inline_fns) + 1 /\ Len(inline_fns) \in Nat
      BY <1>2, <2>4
    <3>3. i' = i
      BY <1>1
    <3> QED
      BY <1>2, <3>1, <3>2, <3>3
  <2> QED
    BY <2>2, <2>3, <2>4
<1>6. PhaseOK'
  <2>1. llabels' = <<>> /\ jmp' \in BOOLEAN /\ jmp'
    BY <1>1, <1>2 DEF TypeInv, PhaseOK
  <2> QED
    BY <1>1, <1>5, <2>1 DEF PhaseOK
<1>7. InputOK'
  <2>1. phase' = "record" => fn'.toks \in Seq(Lexemes) /\ fn'.f = fn.f
    BY <1>1, <1>4 DEF InlineInv, ShapeOK
  <2>2. Current' \subseteq Funcs
    BY <1>1, <1>2, <2>1 DEF Current
  <2> QED
    BY <1>1, <1>3, <1>5, <2>1, <2>2 DEF TypeInv, InputOK
<1>8. CodeOK' /\ TableOK(labels', Len(code')) /\ DepthsOK(llabels', Len(labels'.local))
  BY <1>1 DEF TypeInv, CodeOK
<1>9. LabelInv'
  BY <1>1, SameLabels
<1> QED
  BY <1>6, <1>7, <1>8, <1>9 DEF TypeInv

LEMMA GenerateInlineOK ==
    TypeInv /\ LabelInv /\ GenerateInline => TypeInv' /\ LabelInv'
<1> SUFFICES ASSUME TypeInv, LabelInv, GenerateInline PROVE TypeInv' /\ LabelInv'
  OBVIOUS
<1>1. /\ phase = "passes" /\ phase' = "body" /\ i <= Len(inline_fns) /\ inline_fns[i].sym # Null
      /\ inline_fns' = [inline_fns EXCEPT ![i].sym = Null]
      /\ Next1([input EXCEPT !.macro = Append(inline_fns[i].toks, EndOfFile)])
      /\ fn'.f = inline_fns[i].sym
      /\ UNCHANGED <<labels, llabels, defined, used, i, jmp, tainted, code>>
  BY DEF GenerateInline, Referenced, errors, output, symbols
<1>2. /\ input \in Input /\ inline_fns \in Seq(Recorded) /\ i \in 1..Len(inline_fns) + 1
      /\ Len(inline_fns) \in Nat /\ llabels = <<>> /\ jmp \in BOOLEAN
  BY <1>1 DEF TypeInv, InputOK, PhaseOK
<1>3. i \in 1..Len(inline_fns) /\ inline_fns[i] \in Recorded
  BY <1>1, <1>2
<1>4. inline_fns[i].sym \in Funcs /\ inline_fns[i].toks \in Seq(Lexemes)
  BY <1>1, <1>3 DEF Recorded
<1>5. tok' \in Lexemes /\ input' \in Input
  <2>1. Append(inline_fns[i].toks, EndOfFile) \in Seq(Lexemes)
    <3>1. EndOfFile \in Lexemes
      BY DEF Lexemes
    <3> QED
      BY <1>4, <3>1
  <2>2. [input EXCEPT !.macro = Append(inline_fns[i].toks, EndOfFile)] \in Input
    BY <1>2, <2>1, MacroSet
  <2> QED
    BY <1>1, <2>2, TokenTyped DEF Next1
<1>6. inline_fns' \in Seq(Recorded) /\ Len(inline_fns') = Len(inline_fns)
  <2> DEFINE x == [inline_fns[i] EXCEPT !.sym = Null]
  <2>3. x \in Recorded
    BY <1>3 DEF Recorded
  <2> HIDE DEF x
  <2>1. PICK e : e = x /\ e \in Recorded
    BY <2>3, Zenon
  <2>2. inline_fns' = [inline_fns EXCEPT ![i] = e]
    BY <1>1, <2>1 DEF x
  <2> QED
    BY <1>2, <1>3, <2>1, <2>2
<1>7. PhaseOK'
  BY <1>1, <1>2, <1>3, <1>6 DEF PhaseOK
<1>8. InputOK'
  BY <1>1, <1>4, <1>5, <1>6 DEF TypeInv, InputOK, Current
<1>9. CodeOK' /\ TableOK(labels', Len(code')) /\ DepthsOK(llabels', Len(labels'.local))
  BY <1>1 DEF TypeInv, CodeOK
<1>10. LabelInv'
  BY <1>1, SameLabels
<1> QED
  BY <1>7, <1>8, <1>9, <1>10 DEF TypeInv

\* The passes and the end of the unit.
LEMMA PassOver ==
    TypeInv /\ LabelInv /\ (EndOfUnit \/ SkipInline \/ NextPass \/ FinishUnit)
       => TypeInv' /\ LabelInv'
<1> SUFFICES ASSUME TypeInv, LabelInv, EndOfUnit \/ SkipInline \/ NextPass \/ FinishUnit
             PROVE  TypeInv' /\ LabelInv'
  OBVIOUS
<1>1. /\ phase \in {"decl", "passes"} /\ phase' \in {"passes", "returned"}
      /\ UNCHANGED <<input, tok, labels, llabels, fn, defined, used, inline_fns, tainted, code>>
      /\ jmp' = jmp \/ jmp' = FALSE
      /\ \/ i' = 1 \/ i' = i
         \/ i <= Len(inline_fns) /\ i' = i + 1
  BY DEF EndOfUnit, SkipInline, NextPass, FinishUnit, parser, inlines, symbols, errors, output
<1>2. /\ llabels = <<>> /\ i \in 1..Len(inline_fns) + 1 /\ Len(inline_fns) \in Nat
      /\ jmp \in BOOLEAN
  BY <1>1 DEF TypeInv, PhaseOK, InputOK
<1>3. PhaseOK'
  <2>1. Len(inline_fns') = Len(inline_fns)
    BY <1>1
  <2>2. i' \in 1..Len(inline_fns') + 1
    BY <1>1, <1>2, <2>1
  <2>3. jmp' \in BOOLEAN /\ llabels' = <<>>
    BY <1>1, <1>2
  <2> QED
    BY <1>1, <2>2, <2>3 DEF PhaseOK
<1>4. InputOK'
  BY <1>1 DEF TypeInv, InputOK, Current
<1>5. CodeOK' /\ TableOK(labels', Len(code')) /\ DepthsOK(llabels', Len(labels'.local))
  BY <1>1 DEF TypeInv, CodeOK
<1>6. LabelInv'
  BY <1>1, SameLabels
<1> QED
  BY <1>3, <1>4, <1>5, <1>6 DEF TypeInv

\* A label without its jumps, its address and its relocations.
LEMMA RebasedSym ==
    ASSUME NEW t \in Label
    PROVE  [t EXCEPT !.jumps = {}, !.jnext = 0, !.refs = {}]
              = [v |-> t.v, r |-> t.r, prev_tok |-> t.prev_tok,
                 jumps |-> {}, jnext |-> 0, refs |-> {}]
<1>1. t = [v |-> t.v, r |-> t.r, prev_tok |-> t.prev_tok, jumps |-> t.jumps,
           jnext |-> t.jnext, refs |-> t.refs]
  BY DEF Label
<1>2. PICK e, z : e = {} /\ z = 0
  OBVIOUS
<1>3. PICK t1 : t1 = [t EXCEPT !.jumps = e]
  OBVIOUS
<1>4. t1 = [v |-> t.v, r |-> t.r, prev_tok |-> t.prev_tok, jumps |-> e,
            jnext |-> t.jnext, refs |-> t.refs]
  BY <1>1, <1>3
<1>5. PICK t2 : t2 = [t1 EXCEPT !.jnext = z]
  OBVIOUS
<1>6. t2 = [v |-> t.v, r |-> t.r, prev_tok |-> t.prev_tok, jumps |-> e,
            jnext |-> z, refs |-> t.refs]
  BY <1>4, <1>5
<1>7. [t2 EXCEPT !.refs = e]
         = [v |-> t.v, r |-> t.r, prev_tok |-> t.prev_tok,
            jumps |-> e, jnext |-> z, refs |-> e]
  BY <1>6
<1>8. [t EXCEPT !.jumps = e, !.jnext = z, !.refs = e] = [t2 EXCEPT !.refs = e]
  BY <1>3, <1>5
<1> QED
  BY <1>2, <1>7, <1>8

\* The table after tcc_compile is the one it left, without addresses.
LEMMA ReturnOK ==
    TypeInv /\ LabelInv /\ Return => TypeInv' /\ LabelInv'
<1> SUFFICES ASSUME TypeInv, LabelInv, Return PROVE TypeInv' /\ LabelInv'
  OBVIOUS
<1> DEFINE B(s) == IF s \in OnStack(labels)
                   THEN [labels.sym[s] EXCEPT !.jumps = {}, !.jnext = 0, !.refs = {}]
                   ELSE Unused
           S == [s \in Slots |-> B(s)]
<1>1. /\ phase = "returned" /\ phase' = "idle" /\ input' = [input EXCEPT !.file = <<>>]
      /\ tok' = EndOfFile /\ defined' = {} /\ used' = {} /\ inline_fns' = <<>> /\ i' = 1
      /\ code' = <<>> /\ labels' = Rebased(labels)
      /\ UNCHANGED <<llabels, fn, jmp>>
  BY DEF Return
<1>2. /\ input \in Input /\ llabels = <<>> /\ labels \in LabelTable /\ jmp \in BOOLEAN
  BY <1>1 DEF TypeInv, InputOK, PhaseOK, TableOK
<1>3. ASSUME NEW s \in Slots
      PROVE  /\ B(s) \in Label /\ B(s).jnext = 0
             /\ s \in OnStack(labels) => /\ B(s).v = labels.sym[s].v
                                         /\ B(s).prev_tok = labels.sym[s].prev_tok
  <2>1. labels.sym[s] \in Label
    BY <1>2 DEF LabelTable
  <2>2. CASE s \in OnStack(labels)
    <3>1. [labels.sym[s] EXCEPT !.jumps = {}, !.jnext = 0, !.refs = {}]
             = [v |-> labels.sym[s].v, r |-> labels.sym[s].r,
                prev_tok |-> labels.sym[s].prev_tok,
                jumps |-> {}, jnext |-> 0, refs |-> {}]
      BY <2>1, RebasedSym
    <3> QED
      BY <2>1, <2>2, <3>1 DEF Label
  <2>3. CASE s \notin OnStack(labels)
    <3>1. (CHOOSE v \in Names : TRUE) \in Names
      BY LabelsAssumption
    <3>2. Unused \in Label /\ Unused.jnext = 0
      BY <3>1 DEF Unused, Label, States
    <3> QED
      BY <2>3, <3>2
  <2> QED
    BY <2>2, <2>3
<1>4. labels' = [labels EXCEPT !.sym = S]
  BY <1>1 DEF Rebased
<1> HIDE DEF B
<1>5. S \in [Slots -> Label] /\ \A s \in Slots : S[s] = B(s)
  BY <1>3
<1> HIDE DEF S
<1>6. /\ labels' \in LabelTable /\ labels'.sym = S /\ labels'.local = labels.local
      /\ labels'.global = labels.global /\ labels'.head = labels.head
      /\ labels'.dangling = labels.dangling
  <2>1. labels' = [sym |-> S, head |-> labels.head, global |-> labels.global,
                   local |-> labels.local, dangling |-> labels.dangling]
    BY <1>2, <1>4 DEF LabelTable
  <2> HIDE DEF Label
  <2> QED
    BY <1>2, <1>5, <2>1 DEF LabelTable
<1>7. code' \in Seq(Nat) /\ Len(code') = 0 /\ DOMAIN code' = {}
  BY <1>1
<1>8. TableOK(labels', Len(code'))
  BY <1>3, <1>5, <1>6, <1>7 DEF TableOK
<1>9. ChainsOK(labels) => ChainsOK(labels')
  <2>1. OnStack(labels) \subseteq Slots
    BY <1>2 DEF OnStack, Elements, LabelTable
  <2> QED
    BY <1>2, <1>3, <1>5, <1>6, <2>1, SameChains
<1>10. PhaseOK'
  <2>1. Len(inline_fns') = 0
    BY <1>1
  <2> QED
    BY <1>1, <1>2, <2>1 DEF PhaseOK
<1>11. InputOK'
  <2>1. input' \in Input
    <3>1. PICK e : e = <<>> /\ e \in Seq(Tokens)
      <4>1. <<>> \in Seq(Tokens)
        OBVIOUS
      <4> QED
        BY <4>1, Zenon
    <3>2. [input EXCEPT !.file = e] \in Input
      BY <1>2, <3>1 DEF Input
    <3> QED
      BY <1>1, <3>1, <3>2
  <2>2. inline_fns' \in Seq(Recorded)
    BY <1>1
  <2> QED
    BY <1>1, <2>1, <2>2 DEF InputOK, Current, Lexemes
<1>12. CodeOK' /\ DepthsOK(llabels', Len(labels'.local))
  BY <1>1, <1>2, <1>7 DEF CodeOK, DepthsOK
<1>13. LabelInv'
  BY <1>1, <1>6, <1>9 DEF LabelInv, Fresh
<1> QED
  BY <1>8, <1>10, <1>11, <1>12, <1>13 DEF TypeInv

LEMMA InitOK == Init => TypeInv /\ LabelInv
<1> SUFFICES ASSUME Init PROVE TypeInv /\ LabelInv
  OBVIOUS
<1> DEFINE S == [s \in Slots |-> Unused]
           H == [v \in Names |-> Null]
<1>1. PICK e : /\ e = <<>> /\ e \in Seq(Tokens) /\ e \in Seq(Recorded) /\ e \in Seq(Slots)
               /\ e \in Seq(Nat) /\ Len(e) = 0 /\ DOMAIN e = {}
  <2>1. /\ <<>> \in Seq(Tokens) /\ <<>> \in Seq(Recorded) /\ <<>> \in Seq(Slots)
        /\ <<>> \in Seq(Nat) /\ Len(<<>>) = 0 /\ DOMAIN <<>> = {}
    OBVIOUS
  <2> QED
    BY <2>1, Zenon
<1>2. Unused \in Label /\ Unused.jnext = 0
  <2>1. (CHOOSE v \in Names : TRUE) \in Names
    BY LabelsAssumption
  <2> QED
    BY <2>1 DEF Unused, Label, States
<1>3. /\ S \in [Slots -> Label] /\ \A s \in Slots : S[s].jnext = 0
      /\ H \in [Names -> Slots \cup {Null}] /\ \A v \in Names : H[v] = Null
  BY <1>2
<1>4. /\ phase = "idle" /\ tok = EndOfFile /\ llabels = e /\ defined = {} /\ used = {}
      /\ inline_fns = e /\ i = 1 /\ jmp = FALSE /\ code = e /\ tainted = FALSE
      /\ input = [macro |-> Null, unget |-> FALSE, saved |-> Null, file |-> e]
      /\ labels = [sym |-> S, head |-> H, global |-> e, local |-> e, dangling |-> {}]
  BY <1>1 DEF Init, NoLabels
<1> HIDE DEF S, H
<1>5. PhaseOK
  <2>1. llabels = <<>> /\ Len(inline_fns) = 0
    BY <1>1, <1>4
  <2>2. i \in 1..Len(inline_fns) + 1
    BY <1>4, <2>1
  <2> QED
    BY <1>4, <2>1, <2>2 DEF PhaseOK
<1>6. InputOK
  <2>1. input \in Input
    BY <1>1, <1>4 DEF Input
  <2> QED
    BY <1>1, <1>4, <2>1 DEF InputOK, Current, Lexemes
<1>7. CodeOK /\ DepthsOK(llabels, Len(labels.local))
  BY <1>1, <1>4 DEF CodeOK, DepthsOK
<1>8. labels \in LabelTable
  <2> HIDE DEF Label
  <2> QED
    BY <1>1, <1>3, <1>4 DEF LabelTable
<1>9. /\ labels.local = e /\ labels.global = e /\ labels.head = H /\ labels.sym = S
  BY <1>4
<1>10. TableOK(labels, Len(code))
  BY <1>1, <1>3, <1>4, <1>8, <1>9 DEF TableOK
<1>11. ChainsOK(labels)
  BY <1>1, <1>3, <1>9 DEF ChainsOK, Finds
<1> QED
  BY <1>4, <1>5, <1>6, <1>7, <1>10, <1>11 DEF TypeInv, LabelInv

\* A declaration, and the end of the file in a recorded function, in error.
LEMMA DeclErrorOK ==
    TypeInv /\ LabelInv /\ (DeclareWrong \/ RecordWrong) => TypeInv' /\ LabelInv'
<1> SUFFICES ASSUME TypeInv, LabelInv, DeclareWrong \/ RecordWrong
             PROVE  TypeInv' /\ LabelInv'
  OBVIOUS
<1>1. PICK in : in \in {AtName(input), input} /\ Error(labels, in)
  BY DEF DeclareWrong, RecordWrong
<1>2. phase # "idle"
  BY DEF DeclareWrong, RecordWrong
<1>3. in \in Input
  BY <1>1, AheadTyped DEF TypeInv, InputOK
<1> QED
  BY <1>1, <1>2, <1>3, ErrorHere

LEMMA StatementOK ==
    InlineInv /\ TypeInv /\ LabelInv /\ Statement => TypeInv' /\ LabelInv'
  BY OpenBlockOK, DeclareLabelOK, GotoOK, AddressOfLabelOK, DefineLabelOK, CallOK,
     StatementWrongOK, CloseBlockOK, EndFunctionOK, TouchFreedOK DEF Statement

LEMMA NextOK ==
    InlineInv /\ TypeInv /\ LabelInv /\ [Next]_vars => TypeInv' /\ LabelInv'
<1> SUFFICES ASSUME InlineInv, TypeInv, LabelInv, [Next]_vars PROVE TypeInv' /\ LabelInv'
  OBVIOUS
<1>1. CASE StartUnit
  BY <1>1, StartUnitOK
<1>2. CASE Recreate
  BY <1>2, RecreateOK
<1>3. CASE DeclareWrong \/ RecordWrong
  BY <1>3, DeclErrorOK
<1>4. CASE BeginFunction
  BY <1>4, BeginFunctionOK
<1>5. CASE Record
  BY <1>5, RecordOK
<1>6. CASE EndOfUnit \/ SkipInline \/ NextPass \/ FinishUnit
  BY <1>6, PassOver
<1>7. CASE Statement
  BY <1>7, StatementOK
<1>8. CASE GenerateInline
  BY <1>8, GenerateInlineOK
<1>9. CASE Return
  BY <1>9, ReturnOK
<1>10. CASE UNCHANGED vars
  <2>1. /\ PhaseOK' /\ InputOK' /\ CodeOK' /\ TableOK(labels', Len(code'))
        /\ DepthsOK(llabels', Len(labels'.local))
    BY <1>10 DEF vars, TypeInv, PhaseOK, InputOK, CodeOK, Current
  <2>2. LabelInv'
    BY <1>10 DEF vars, LabelInv
  <2> QED
    BY <2>1, <2>2 DEF TypeInv
<1> QED
  BY <1>1, <1>2, <1>3, <1>4, <1>5, <1>6, <1>7, <1>8, <1>9, <1>10 DEF Next, Compile, Passes

\* The newest label of a name on a stack.
LEMMA NewestIs ==
    ASSUME NEW q, NEW sym, NEW v, NEW n \in Nat, NEW k \in 1..n, sym[q[k]].v = v,
           DOMAIN q = 1..n, \A j \in k+1..n : sym[q[j]].v # v
    PROVE  LET K == {m \in DOMAIN q : sym[q[m]].v = v}
           IN  K # {} /\ (CHOOSE m \in K : \A j \in K : j <= m) = k
<1> DEFINE K == {m \in DOMAIN q : sym[q[m]].v = v}
<1>1. k \in K /\ K \subseteq 1..n
  OBVIOUS
<1>2. \A j \in K : j <= k
  OBVIOUS
<1> HIDE DEF K
<1>3. PICK c : c = CHOOSE m \in K : \A j \in K : j <= m
  OBVIOUS
<1>4. c \in K /\ \A j \in K : j <= c
  BY <1>1, <1>2, <1>3
<1>5. c = k
  <2>1. c \in Nat /\ k \in Nat /\ c <= k /\ k <= c
    BY <1>1, <1>2, <1>4
  <2> QED
    BY <2>1
<1> QED
  BY <1>1, <1>3, <1>5 DEF K

LEMMA HeadsFollow == TypeInv /\ LabelInv => HeadsExact
<1> SUFFICES ASSUME TypeInv, LabelInv, phase = "body", ~ tainted, NEW v \in Names
             PROVE  LET Of(st) == {k \in DOMAIN labels[st] : labels.sym[labels[st][k]].v = v}
                        Newest(st) == labels[st][CHOOSE k \in Of(st) : \A j \in Of(st) : j <= k]
                    IN  labels.head[v] = IF Of("local") # {} THEN Newest("local")
                                         ELSE IF Of("global") # {} THEN Newest("global")
                                         ELSE Null
  BY DEF HeadsExact
<1> DEFINE n == Len(labels.local)
           g == Len(labels.global)
           x == labels.head[v]
           Of(st) == {k \in DOMAIN labels[st] : labels.sym[labels[st][k]].v = v}
           Newest(st) == labels[st][CHOOSE k \in Of(st) : \A j \in Of(st) : j <= k]
<1>1. ChainsOK(labels) /\ labels \in LabelTable
  BY DEF LabelInv, TypeInv, TableOK
<1>2. /\ n \in Nat /\ g \in Nat
      /\ DOMAIN labels.local = 1..n /\ DOMAIN labels.global = 1..g
      /\ labels["local"] = labels.local /\ labels["global"] = labels.global
  BY <1>1 DEF LabelTable
<1>3. Finds(labels, v, n, x)
  BY <1>1 DEF ChainsOK
<1>4. CASE \E k \in 1..n : /\ x = labels.local[k] /\ labels.sym[labels.local[k]].v = v
                           /\ \A j \in k+1..n : labels.sym[labels.local[j]].v # v
  <2>1. PICK k \in 1..n : /\ x = labels.local[k] /\ labels.sym[labels.local[k]].v = v
                          /\ \A j \in k+1..n : labels.sym[labels.local[j]].v # v
    BY <1>4
  <2>2. Of("local") # {} /\ (CHOOSE m \in Of("local") : \A j \in Of("local") : j <= m) = k
    BY <1>2, <2>1, NewestIs
  <2> QED
    BY <1>2, <2>1, <2>2
<1>5. CASE ~ \E k \in 1..n : /\ x = labels.local[k] /\ labels.sym[labels.local[k]].v = v
                             /\ \A j \in k+1..n : labels.sym[labels.local[j]].v # v
  <2>1. \A j \in 1..n : labels.sym[labels.local[j]].v # v
    BY <1>3, <1>5 DEF Finds
  <2>2. Of("local") = {}
    BY <1>2, <2>1
  <2>3. CASE \E k \in 1..g : x = labels.global[k] /\ labels.sym[labels.global[k]].v = v
    <3>1. PICK k \in 1..g : x = labels.global[k] /\ labels.sym[labels.global[k]].v = v
      BY <2>3
    <3>2. \A j \in k+1..g : labels.sym[labels.global[j]].v # v
      <4> SUFFICES ASSUME NEW j \in k+1..g, labels.sym[labels.global[j]].v = v PROVE FALSE
        OBVIOUS
      <4>1. j \in 1..g /\ j # k
        BY <1>2
      <4> QED
        BY <1>1, <3>1, <4>1 DEF ChainsOK
    <3>3. Of("global") # {} /\ (CHOOSE m \in Of("global") : \A j \in Of("global") : j <= m) = k
      BY <1>2, <3>1, <3>2, NewestIs
    <3> QED
      BY <1>2, <2>2, <3>1, <3>3
  <2>4. CASE ~ \E k \in 1..g : x = labels.global[k] /\ labels.sym[labels.global[k]].v = v
    <3>1. (\A k \in 1..g : labels.sym[labels.global[k]].v # v) /\ x = Null
      BY <1>3, <1>5, <2>4 DEF Finds
    <3>2. Of("global") = {}
      BY <1>2, <3>1
    <3> QED
      BY <2>2, <3>1, <3>2
  <2> QED
    BY <2>3, <2>4
<1> QED
  BY <1>4, <1>5

LEMMA TypeFollows == TypeInv => TypeOK
<1> SUFFICES ASSUME TypeInv PROVE TypeOK
  OBVIOUS
<1>1. labels \in LabelTable /\ input \in Input /\ inline_fns \in Seq(Recorded)
  BY DEF TypeInv, TableOK, InputOK
<1>2. /\ labels.sym \in [Slots -> Label] /\ labels.head \in [Names -> Slots \cup {Null}]
      /\ labels.dangling \subseteq Stacks /\ input.unget \in BOOLEAN
  <2> HIDE DEF Label
  <2> QED
    BY <1>1 DEF LabelTable, Input
<1>3. \A st \in Stacks : Elements(labels[st]) \subseteq Slots
  BY <1>1 DEF Stacks, Elements, LabelTable
<1>4. Elements(llabels) \subseteq 0..Len(labels.local)
  BY <1>1 DEF TypeInv, DepthsOK, Elements, LabelTable
<1>5. \A k \in DOMAIN inline_fns : inline_fns[k].sym \in Funcs \cup {Null}
  <2> TAKE k \in DOMAIN inline_fns
  <2>1. inline_fns[k] \in Recorded
    BY <1>1
  <2> QED
    BY <2>1 DEF Recorded
<1>6. PhaseOK /\ CodeOK /\ defined \subseteq Funcs /\ used \subseteq Funcs
  BY DEF TypeInv, InputOK
<1> QED
  BY <1>2, <1>3, <1>4, <1>5, <1>6 DEF TypeOK, PhaseOK, CodeOK

LEMMA LabelsKept == Spec => [](InlineInv /\ TypeInv /\ LabelInv)
  BY InitInline, InitOK, NextInline, NextOK, PTL DEF Spec

\* What the parser reads has the type of a token or of a label, whatever was
\* read and whatever errors there were before.  (libtcc.c:690-826,
\* tccgen.c:5676-5765)
THEOREM TypeCorrect == Spec => []TypeOK
  BY LabelsKept, TypeFollows, PTL

\* label_find gives the newest local label of a name, or else the label of the
\* function, in every function of a unit that found nothing an error had left:
\* label_push and label_pop keep the chains of prev_tok.  (tccpp.c:1068-1118)
THEOREM LabelsFound == Spec => []HeadsExact
  BY LabelsKept, HeadsFollow, PTL
=============================================================================
