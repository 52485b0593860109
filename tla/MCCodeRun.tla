----------------------------- MODULE MCCodeRun -----------------------------
(***************************************************************************)
(* Instances of CodeRun for TLC: programs of a small depth.  The calls and *)
(* operations of a program are told apart by their place in it.            *)
(***************************************************************************)
EXTENDS CodeRun

CONSTANTS i1, i2, d1, lbl, lbl2  \* two variables, a float variable, two labels

MCInputs == [{i1, i2} -> {0, 1}] \X {0, 1, C!NaN}
AllInputs == {(d1 :> i[2]) @@ i[1] : i \in MCInputs}

\* Expressions and statements, without the places.
Const(n) == [t |-> "const", n |-> n]
Var(n)   == [t |-> "var", x |-> n]
FVar     == [t |-> "fvar", x |-> d1]
TheCall  == [t |-> "call", id |-> <<>>]
Cmp(cc, e) == [t |-> "cmp", cc |-> cc, e |-> e]
Not_(e)  == [t |-> "not", e |-> e]
And(es)  == [t |-> "and", es |-> es]
Or(es)   == [t |-> "or", es |-> es]
Cond(c, a, b) == [t |-> "cond", c |-> c, a |-> a, b |-> b]
StmtExpr(ss) == [t |-> "block", ss |-> ss]

Exp(e)       == [t |-> "exp", e |-> e]
Op(a, b)     == [t |-> "use", id |-> <<>>, a |-> a, b |-> b]
Seq_(ss)     == [t |-> "seq", ss |-> ss]
If_(e, s)    == [t |-> "if", id |-> <<>>, e |-> e, s |-> s, else |-> s]
IfElse(e, s, u) == [t |-> "ifelse", e |-> e, s |-> s, else |-> u]
While_(e, s) == [t |-> "while", e |-> e, s |-> s]
Do_(s, e)    == [t |-> "do", e |-> e, s |-> s]
For_(e, i, s) == [t |-> "for", e |-> e, i |-> i, s |-> s]
Switch_(e, s) == [t |-> "switch", e |-> e, s |-> s]
Case_(a, b, s) == [t |-> "case", v1 |-> a, v2 |-> b, s |-> s]
Default_(s)  == [t |-> "default", s |-> s]
Vla(n)       == [t |-> "vla", id |-> <<>>, n |-> n]
Label_(s)    == [t |-> "label", id |-> <<>>, l |-> lbl, s |-> s]
Goto_        == [t |-> "goto", id |-> <<>>, l |-> lbl]
Break        == [t |-> "break"]
Cont         == [t |-> "continue"]
Leave        == [t |-> "leave"]
Return_(e)   == [t |-> "return", e |-> e]

\* The node with the place p, and so its children.
RECURSIVE Placed(_, _)
Placed(n, p) ==
    LET Child(g) == Placed(n[g], Append(p, g))
        Children(g) == [i \in DOMAIN n[g] |-> Placed(n[g][i], p \o <<g, i>>)]
    IN  [g \in DOMAIN n |->
            CASE g = "id" -> p
              [] g \in {"es", "ss"} -> Children(g)
              [] g \in {"e", "a", "b", "c", "s", "i", "else"} -> Child(g)
              [] OTHER -> n[g]]

-----------------------------------------------------------------------------
(***************************************************************************)
(* Conditions.                                                             *)
(***************************************************************************)

Atoms == {Const(0), Const(1), Var(i1), TheCall, FVar, Cmp("gt", Var(i1)),
          Cmp("eq", TheCall), Cmp("gt", FVar), Cmp("ne", FVar)}

Pairs(A, B) == {<<a, b>> : a \in A, b \in B}

Few == {Const(1), Var(i2), TheCall, Cmp("gt", Var(i1))}

Compound(A, B) ==
    {Not_(e) : e \in A}
    \cup {And(es) : es \in Pairs(A, B)} \cup {Or(es) : es \in Pairs(A, B)}
    \cup {Cond(c, a, b) : c \in A, a \in {TheCall, Const(1)}, b \in B}

\* The negation of an order of floats is left to FloatNegations.
NotFloatOrder(e) ==
    ~ (e.t = "not" /\ e.e.t = "cmp" /\ e.e.e.t = "fvar" /\ e.e.cc # "ne")

Simple == {e \in Compound(Atoms, Few) : NotFloatOrder(e)}

Nested == {e \in Compound({c \in Simple : c.t \in {"and", "or", "not"}},
                          {TheCall, Cmp("eq", TheCall)}) : e.t # "cond"}
          \cup {And(<<TheCall, e, TheCall>>) : e \in Simple}
          \cup {Or(<<TheCall, e, TheCall>>) : e \in Simple}
          \cup {Cond(e, a, TheCall) : e \in Simple, a \in {TheCall, Or(<<TheCall, Var(i1)>>)}}

Contexts(e) ==
    {IfElse(e, Exp(TheCall), Leave), Exp(e), Return_(e),
     Op(e, TheCall), Op(TheCall, e), Do_(Exp(TheCall), e)}

ConditionPrograms ==
    {Placed(p, <<>>) :
        p \in UNION {Contexts(e) : e \in Simple}
              \cup {IfElse(e, Exp(TheCall), Leave) : e \in Nested}
              \cup {Op(TheCall, e) : e \in Nested}}

-----------------------------------------------------------------------------
(***************************************************************************)
(* Statements: loops and switches in one another, with every jump out of   *)
(* each, and a label before or after.  Their conditions are calls.         *)
(***************************************************************************)

Step == Exp(TheCall)

Jumps == {Break, Cont, Leave, Return_(TheCall), Goto_, Step}

\* A loop or a switch around the statements a and b.
Around(a, b) ==
    LET body == Seq_(<<If_(TheCall, a), b, Step>>)
    IN  {While_(TheCall, body), Do_(body, TheCall), For_(TheCall, TheCall, body),
         Switch_(TheCall, Seq_(<<Case_(0, 0, a), Step, Case_(1, 2, b), Default_(Step), Step>>)),
         Switch_(TheCall, Seq_(<<Default_(a), Case_(2, 2, b), Step>>))}

Inner == UNION {Around(a, Step) : a \in Jumps}

Nests ==
    UNION {Around(a, b) : a \in Jumps, b \in Jumps \cup Inner}
    \cup {Switch_(TheCall, Do_(Seq_(<<Case_(0, 0, Step), Case_(1, 1, Step), Step>>), TheCall))}

\* continue is inside a loop
RECURSIVE ContinueIn(_)
ContinueIn(s) ==
    CASE s.t = "continue" -> TRUE
      [] s.t \in {"if", "case", "default", "switch"} -> ContinueIn(s.s)
      [] s.t = "seq" -> \E j \in DOMAIN s.ss : ContinueIn(s.ss[j])
      [] OTHER -> FALSE

StatementPrograms ==
    {Placed(Seq_(ss), <<>>) :
        ss \in UNION {{<<Label_(Step), s, Step>>, <<s, Label_(Step), Step>>} :
                        s \in {n \in Nests : ~ ContinueIn(n)}}}

-----------------------------------------------------------------------------
(***************************************************************************)
(* Variable length arrays of the sizes i1 and i2, declared before, in and  *)
(* after blocks and loops, with a goto from every place.  A call after     *)
(* every item sees the arrays, and a return ends the function.             *)
(***************************************************************************)

Seen(ss) == Seq_(FoldLeft(LAMBDA a, s : a \o <<s, Step>>, <<>>, ss))

\* A label and what comes to it, with an array of its own.
Here      == Label_(Step)
FarGoto   == If_(TheCall, Seen(<<Vla(i2), Goto_>>))
NearGoto  == If_(TheCall, Goto_)
There     == [t |-> "label", id |-> <<>>, l |-> lbl2, s |-> Step]

UpTo(n, S) == UNION {[1 .. k -> S] : k \in 0 .. n}

InnerBlocks == {Seen(ss) : ss \in UpTo(2, {Vla(i2), Goto_, FarGoto, Here, If_(TheCall, Leave)})}

Middles ==
    InnerBlocks \cup {While_(TheCall, b) : b \in InnerBlocks}
    \cup {While_(TheCall, If_(TheCall, Break)),
          Switch_(TheCall, Seq_(<<Case_(0, 0, Seen(<<Vla(i1)>>)), Default_(Step)>>)),
          Op(TheCall, StmtExpr(<<Vla(i1), Exp(TheCall)>>))}

Firsts ==
    {<<>>, <<Vla(i1)>>, <<Here>>}
    \cup {<<Vla(i1), s>> : s \in {Vla(i2), FarGoto, NearGoto, Here}}

Lasts == UpTo(1, {Vla(i2), Goto_, FarGoto, NearGoto, Here, There})

WithArrays ==
    {Placed(Seq_(Seen(a \o <<b>> \o c).ss \o <<Leave>>), <<>>) :
        a \in Firsts, b \in Middles, c \in Lasts}

\* The statements in s: its substatement, if it has one.
Inside(s) ==
    CASE s.t \in {"if", "while", "switch", "case", "default", "label"} -> <<s.s>>
      [] s.t \in {"seq", "block"} -> s.ss
      [] s.t = "use" -> <<s.b>>
      [] OTHER -> <<>>

\* The declarations, gotos, labels and conditions of s, in the order of the text.
RECURSIVE Marks(_)
Marks(s) ==
    FoldLeft(LAMBDA a, n : a \o Marks(n),
             IF s.t \in {"vla", "goto", "label", "if"} THEN <<s>> ELSE <<>>, Inside(s))

Of(f, t) == {n \in DOMAIN f : f[n].t = t}

\* A goto must not go into the scope of an array, nor a label be defined twice
\* or not at all.
Legal(p) ==
    LET f == Marks(p)
        L(g) == {n \in Of(f, "label") : f[n].l = f[g].l}
    IN  /\ \A n \in Of(f, "label") : L(n) = {n}
        /\ \A g \in Of(f, "goto") : \E n \in L(g) :
              ArraysAt(p, f[n].id) \subseteq ArraysAt(p, f[g].id)

\* Left out, as they fail.  A block without arrays in the scope of an array:
\* vla_sp_loc is left with the address of a variable of block().
RECURSIVE Forgetful(_, _)
Forgetful(s, inside) ==
    LET D == Of(Inside(s), "vla")
    IN  \/ inside /\ s.t = "seq" /\ D = {}
        \/ \E n \in DOMAIN Inside(s) :
              Forgetful(Inside(s)[n], inside \/ \E d \in D : d < n)

Block_(id) == SubSeq(id, 1, Len(id) - 1)

\* A goto on a condition: the code after it in its block believes that the
\* stack pointer is saved.
OnCondition(p) ==
    LET f == Marks(p)
    IN  \E g \in Of(f, "if"), n \in Of(f, "vla") \cup Of(f, "label") :
           /\ f[g].s.t = "goto" /\ ArraysAt(p, f[g].id) # {}
           /\ g < n /\ IsPrefix(Block_(f[g].id), f[n].id)

\* A goto that does not come by the place where the stack pointer is saved
\* for its label: it goes into a block, or over the declaration of an array.
Unsaved(p) ==
    LET f == Marks(p)
    IN  \E g \in Of(f, "goto"), n \in Of(f, "label") :
           /\ f[g].l = f[n].l /\ ArraysAt(p, f[n].id) # {}
           /\ \/ ~ IsPrefix(Block_(f[n].id), f[g].id)
              \/ \E k \in Of(f, "vla") : g < k /\ k < n

\* Two labels of a block with another block that declares an array between.
Between(p) ==
    LET f == Marks(p)
    IN  \E k, n \in Of(f, "label"), d \in Of(f, "vla") :
           /\ k < d /\ d < n /\ Len(f[k].id) < Len(f[d].id)
           /\ ArraysAt(p, f[k].id) # {} /\ Block_(f[k].id) = Block_(f[n].id)

VlaPrograms ==
    {p \in WithArrays : /\ Legal(p) /\ VlasIn(p) # {}
                        /\ ~ Forgetful(p, FALSE) /\ ~ OnCondition(p)
                        /\ ~ Unsaved(p) /\ ~ Between(p)}

-----------------------------------------------------------------------------

AllPrograms == ConditionPrograms \cup StatementPrograms \cup VlaPrograms

\* The variables of statements are sizes; their switches have three ways.
Sizes         == {[n \in {i1, i2, d1} |-> IF n = i2 THEN 2 ELSE 1]}
InputsOf(p)   == IF p.t = "seq" THEN Sizes ELSE AllInputs
ReturnedIn(p) == IF p.t = "seq" /\ Last(p.ss).t # "leave" THEN {0, 1, 2} ELSE {0, 1}

-----------------------------------------------------------------------------
(***************************************************************************)
(* Negated orders of floats, and statements in expressions.                *)
(***************************************************************************)

FloatNegations ==
    {Placed(If_(Not_(Cmp(cc, FVar)), Exp(TheCall)), <<>>) : cc \in {"gt", "ge", "ne"}}

\* A call that depends on a variable, in an expression.
InExpression == StmtExpr(<<If_(Var(i2), Exp(TheCall)), Exp(Const(1))>>)

StatementExpressions ==
    {Placed(Op(a, b), <<>>) :
        a \in {TheCall, And(<<TheCall, Var(i1)>>), Cmp("gt", Var(i1))},
        b \in {InExpression}}
=============================================================================
