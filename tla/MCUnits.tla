------------------------------ MODULE MCUnits ------------------------------
(***************************************************************************)
(* Instances of Units for TLC: texts with one function, whose body is any  *)
(* balanced sequence of LabelItems (longer ones of the label x only), and  *)
(* texts with a plain function and two inline ones with a body of          *)
(* OtherBodies each.                                                       *)
(***************************************************************************)
EXTENDS Units

CONSTANTS LabelItems, LabelLength, NestLength

Token1(o)    == [op |-> o]
OfLabel(o, v) == [op |-> o, l |-> v]
CallOf(foo)  == [op |-> "call", f |-> foo]

\* The tokens of an item of a text.
Item(n) ==
    CASE n = "gx" -> <<OfLabel("goto", "x")>>
      [] n = "lx" -> <<OfLabel("label", "x")>>
      [] n = "ax" -> <<OfLabel("addr", "x")>>
      [] n = "tx" -> <<OfLabel("local", "x")>>
      [] n = "gy" -> <<OfLabel("goto", "y")>>
      [] n = "ly" -> <<OfLabel("label", "y")>>
      [] n = "cp" -> <<CallOf("p")>>
      [] n = "cq" -> <<CallOf("q")>>
      [] n = "{"  -> <<Token1("open")>>
      [] n = "}"  -> <<Token1("close")>>
      [] n = "{x" -> <<Token1("open"), OfLabel("local", "x")>>
      [] n = "{xy" -> <<Token1("open"), OfLabel("local", "x"), OfLabel("local", "y")>>
      [] OTHER    -> <<Token1(n)>>

Joined(items) ==
    LET Upto[n \in 0..Len(items)] ==
            IF n = 0 THEN <<>> ELSE Upto[n - 1] \o Item(items[n])
    IN  Upto[Len(items)]

Depth(items, n) ==
    Cardinality({k \in 1..n : items[k] \in {"{", "{x", "{xy"}})
    - Cardinality({k \in 1..n : items[k] = "}"})

Balanced(items) == /\ \A n \in DOMAIN items : Depth(items, n) >= 0
                   /\ Depth(items, Len(items)) = 0

Opening(foo, inl) == <<[op |-> "func", f |-> foo, inline |-> inl], Token1("open")>>

Def(foo, inl, body) == Opening(foo, inl) \o body \o <<Token1("close")>>

LabelBodies ==
    {Joined(items) :
        items \in {s \in UNION {[1..n -> LabelItems] : n \in 0..LabelLength}
                        \cup UNION {[1..n -> {"gx", "lx", "{x", "}"}] : n \in 0..NestLength} :
                    Balanced(s)}}

LabelTexts == {Def("m", FALSE, b) : b \in LabelBodies}

OtherBodies == {Joined(items) : items \in
    {<<>>, <<"cp">>, <<"cq">>, <<"cp", "cq">>, <<"gx", "lx", "cq">>,
     <<"cp", "bad", "lx">>, <<"cq", "wrong">>, <<"macro">>, <<"lx", "macro">>,
     <<"gx", "ly", "cp">>, <<"{x", "tx", "gx", "lx", "}", "cp">>}}

OtherTexts ==
    {Def("p", TRUE, a) \o Def("q", TRUE, b) \o Def("m", FALSE, c) :
        a, b, c \in OtherBodies}
    \cup {Def("m", FALSE, c) \o Def("q", TRUE, b) \o Def("p", TRUE, a) :
        a, b, c \in OtherBodies}
    \cup {Def("p", TRUE, <<>>) \o Def("m", FALSE, c) \o Def("p", FALSE, <<>>) :
        c \in OtherBodies}
    \cup {Def("m", FALSE, c) \o Opening("p", inl) : c \in OtherBodies, inl \in BOOLEAN}

MCTexts == LabelTexts \cup OtherTexts

MCExpansion == Joined(<<"lx", "gx", "cp">>)
=============================================================================
