----------------------------- MODULE MCPreproc -----------------------------
(***************************************************************************)
(* The instance of Preproc for TLC: two macros, and one header that has    *)
(* every content of at most MaxLines lines.  A header without #ifndef may  *)
(* have #elif, and is included under the groups of the main file; one with *)
(* #ifndef may be guarded, and the main file changes the macros around it. *)
(***************************************************************************)
EXTENDS Preproc

CONSTANTS m1, m2, h1, h2, MaxLines

Line(op, arg) == [op |-> op, arg |-> arg]

Repertoire ==
    {Line("ifndef", m1), Line("if", m2), Line("elif", m2), Line("else", None),
     Line("endif", None), Line("text", None), Line("define", m1),
     Line("define", m2), Line("undef", m1), Line("include", h1), Line("line", h2)}

WithOps(Ops) == {l \in Repertoire : l.op \in Ops}

\* A header that begins with a group may have one line more than one that
\* goes on in a group of its includer.
Grouped == {c \in SeqOf(WithOps({"if", "elif", "else", "endif", "text"}), MaxLines) :
              Len(c) = MaxLines => c[1].op = "if"}

Guards == {c \in SeqOf(WithOps({"ifndef", "if", "else", "endif", "text"}), MaxLines) :
              Contains(c, Line("ifndef", m1))}

\* A second line of text shows nothing that the first does not.
OneText(c) == \A i, j \in DOMAIN c : c[i].op = "text" /\ c[j].op = "text" => i = j

MCContents ==
    {[h \in {h1, h2} |-> IF h = h1 THEN c ELSE <<>>] : c \in {d \in Grouped \cup Guards : OneText(d)}}

MCMainLines(c) ==
    IF c[h1] \in Guards THEN WithOps({"include", "undef", "line"}) \cup {Line("define", m1)}
    ELSE WithOps({"include", "if", "else", "endif"}) \cup {Line("define", m2)}
=============================================================================
