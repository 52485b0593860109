------------------------------ MODULE CSource ------------------------------
(***************************************************************************)
(* What a statement of C does: its calls, operations and return, in order. *)
(*                                                                         *)
(* Expressions:  [const n] [var x] [fvar x] [call id] [cmp cc e] (e cc 0)  *)
(*   [not e] [and es] [or es] [cond c a b] [block ss] (({ ss }), whose     *)
(*   value is that of the last statement, an [exp e])                      *)
(* Statements:   [exp e] [use id a b] (an operation on two values) [seq ss]*)
(*   [if e s] [ifelse e s else] [while e s] [do s e] [for e i s]           *)
(*   [switch e s] [case v1 v2 s] [default s] [label l s] [goto l] [break]  *)
(*   [continue] [return e] [leave] (return;)                               *)
(* Declarations, in a seq: [vla id n] (a variable length array of size n)  *)
(*                                                                         *)
(* A run is [k, v]: what is still to be executed, and the values computed  *)
(* for it, the last one first.                                             *)
(***************************************************************************)
EXTENDS Integers, Sequences, SequencesExt

NaN == 99       \* the value of a float variable that is not a number

\* n cc 0; a comparison with a NaN is false, except "ne".
Compared(cc, n) ==
    IF n = NaN THEN cc = "ne"
    ELSE CASE cc = "eq" -> n = 0  [] cc = "ne" -> n # 0
           [] cc = "lt" -> n < 0  [] cc = "ge" -> n >= 0
           [] cc = "le" -> n <= 0 [] cc = "gt" -> n > 0

Truth(b) == IF b THEN 1 ELSE 0

\* Items of k that are not nodes of the program.
Then(a, b) == [t |-> "then", a |-> a, b |-> b]      \* by the last value
Loop(k)    == [t |-> "loop", k |-> k]               \* the end of a loop's body
End        == [t |-> "end"]                         \* the end of a switch
Select(s)  == [t |-> "select", s |-> s]             \* to the case in s
Pop        == [t |-> "pop"]
Normal     == [t |-> "normal"]                      \* the last value to 0 or 1
Result(n)  == [t |-> "const", n |-> n]

\* e1 && e2 && ... or e1 || e2 || ...
RECURSIVE Logic(_, _)
Logic(es, and) ==
    IF Len(es) = 1 THEN <<Head(es), Normal>>
    ELSE <<Head(es), IF and THEN Then(Logic(Tail(es), and), <<Result(0)>>)
                     ELSE Then(<<Result(1)>>, Logic(Tail(es), and))>>

Test(e, a, b) == <<e, Then(a, b)>>

\* The items after the first one of a kind in K, and with it.
FirstOf(k, K) == CHOOSE i \in DOMAIN k :
                    k[i].t \in K /\ \A j \in 1 .. i - 1 : k[j].t \notin K
After(k, K)   == SubSeq(k, FirstOf(k, K) + 1, Len(k))
From(k, K)    == SubSeq(k, FirstOf(k, K), Len(k))

\* s itself has the label that goto l, or a switch on n, looks for.
Has(s, key) ==
    CASE key.t = "goto" -> s.t = "label" /\ s.l = key.l
      [] key.t = "case" -> s.t = "case" /\ s.v1 <= key.n /\ key.n <= s.v2
      [] key.t = "default" -> s.t = "default"

\* A run of s from the statement that has the label, in a sequence of one;
\* empty when s does not have it.
RECURSIVE Enter(_, _)
Enter(s, key) ==
    LET In(b, after) ==
            LET e == Enter(b, key) IN IF e = <<>> THEN <<>> ELSE <<e[1] \o after>>
        RECURSIVE InSeq(_)
        InSeq(ss) ==
            IF ss = <<>> THEN <<>>
            ELSE LET e == In(Head(ss), Tail(ss)) IN IF e = <<>> THEN InSeq(Tail(ss)) ELSE e
    IN  IF Has(s, key) THEN << <<s>> >>
        ELSE CASE s.t \in {"if", "label", "case", "default"} -> In(s.s, <<>>)
               [] s.t = "ifelse" -> IF In(s.s, <<>>) = <<>> THEN In(s.else, <<>>)
                                    ELSE In(s.s, <<>>)
               [] s.t = "while"  -> In(s.s, <<Loop(<<s>>)>>)
               [] s.t = "do"     -> In(s.s, <<Loop(Test(s.e, <<s>>, <<>>))>>)
               [] s.t = "for"    -> In(s.s, <<Loop(<<s.i, Pop, s>>)>>)
               [] s.t = "seq"    -> InSeq(s.ss)
               [] s.t = "switch" /\ key.t = "goto" -> In(s.s, <<End>>)
               [] OTHER          -> <<>>

\* The case of the value n in the body s of a switch.
Selected(s, n) ==
    LET case == Enter(s, [t |-> "case", n |-> n])
        dflt == Enter(s, [t |-> "default"])
    IN  IF case # <<>> THEN case[1] ELSE IF dflt # <<>> THEN dflt[1] ELSE <<>>

\* One step of the run k, v of the program p, where x are the variables.
Step(k, v, p, x) ==
    LET s    == Head(k)
        rest == Tail(k)
        n    == Head(v)
        Run(items)    == [k |-> items \o rest, v |-> v]
        Used(items)   == [k |-> items \o rest, v |-> Tail(v)]
        Yield(m)      == [k |-> rest, v |-> <<m>> \o v]
        Replace(m)    == [k |-> rest, v |-> <<m>> \o Tail(v)]
    IN  CASE s.t = "const"     -> Yield(s.n)
          [] s.t \in {"var", "fvar"} -> Yield(x[s.x])
          [] s.t = "cmp"       -> Run(<<s.e, [t |-> "compare", cc |-> s.cc]>>)
          [] s.t = "compare"   -> Replace(Truth(Compared(s.cc, n)))
          [] s.t = "not"       -> Run(Test(s.e, <<Result(0)>>, <<Result(1)>>))
          [] s.t = "and"       -> Run(Logic(s.es, TRUE))
          [] s.t = "or"        -> Run(Logic(s.es, FALSE))
          [] s.t = "normal"    -> Replace(Truth(n # 0))
          [] s.t = "then"      -> Used(IF n # 0 THEN s.a ELSE s.b)
          [] s.t = "cond"      -> Run(Test(s.c, <<s.a>>, <<s.b>>))
          [] s.t = "block"     -> Run(Front(s.ss) \o <<Last(s.ss).e>>)
          [] s.t = "pop"       -> Used(<<>>)
          [] s.t = "exp"       -> Run(<<s.e, Pop>>)
          [] s.t = "seq"       -> Run(s.ss)
          [] s.t = "if"        -> Run(Test(s.e, <<s.s>>, <<>>))
          [] s.t = "ifelse"    -> Run(Test(s.e, <<s.s>>, <<s.else>>))
          [] s.t = "while"     -> Run(Test(s.e, <<s.s, Loop(<<s>>)>>, <<>>))
          [] s.t = "do"        -> Run(<<s.s, Loop(Test(s.e, <<s>>, <<>>))>>)
          [] s.t = "for"       -> Run(Test(s.e, <<s.s, Loop(<<s.i, Pop, s>>)>>, <<>>))
          [] s.t = "loop"      -> Run(s.k)
          [] s.t = "switch"    -> Run(<<s.e, Select(s.s)>>)
          [] s.t = "select"    -> Used(Selected(s.s, n) \o <<End>>)
          [] s.t = "end"       -> Run(<<>>)
          [] s.t \in {"case", "default", "label"} -> Run(<<s.s>>)
          [] s.t = "vla"       -> Run(<<>>)
          [] s.t = "goto"      -> [k |-> Enter(p, s)[1], v |-> <<>>]
          [] s.t = "break"     -> [k |-> After(k, {"loop", "end"}), v |-> v]
          [] s.t = "continue"  -> [k |-> From(k, {"loop"}), v |-> v]
          [] s.t = "use"       -> Run(<<s.a, s.b, [t |-> "operate", id |-> s.id]>>)
          [] s.t = "return"    -> Run(<<s.e, [t |-> "result"]>>)

None == -1      \* a value that does not matter

\* What the run does next that can be seen.
Effect(k, v) ==
    IF k = <<>> \/ Head(k).t = "leave" THEN [e |-> "return", n |-> None]
    ELSE CASE Head(k).t = "result"  -> [e |-> "return", n |-> Head(v)]
           [] Head(k).t = "call"    -> [e |-> "call", id |-> Head(k).id]
           [] Head(k).t = "operate" ->
                [e |-> "use", id |-> Head(k).id, a |-> Head(Tail(v)), b |-> Head(v)]
           [] OTHER                 -> [e |-> "none"]

\* The run up to its next effect, in at most f steps.
RECURSIVE Advance(_, _, _, _)
Advance(run, p, x, f) ==
    IF f = 0 \/ Effect(run.k, run.v).e # "none" THEN run
    ELSE Advance(Step(run.k, run.v, p, x), p, x, f - 1)

\* The run after its effect, where n is what the call returned.
Resume(run, n) ==
    CASE Head(run.k).t = "call"    -> [k |-> Tail(run.k), v |-> <<n>> \o run.v]
      [] Head(run.k).t = "operate" -> [k |-> Tail(run.k), v |-> Tail(Tail(run.v))]
=============================================================================
