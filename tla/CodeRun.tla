------------------------------ MODULE CodeRun ------------------------------
(***************************************************************************)
(* The code that CodeGen produces for a function, run on an x86-64 beside  *)
(* the function itself: both do the same calls and operations on the same  *)
(* values, and return the same, whatever the calls return.                 *)
(***************************************************************************)
EXTENDS CodeGen

CONSTANTS
    Programs,   \* the bodies of the functions
    Inputs(_),  \* the values of its variables: functions from their names
    Labels,     \* the labels that the programs use
    Returned(_),\* what calls may return in a program
    Fuel        \* bound: steps from one effect to the next

C == INSTANCE CSource

VARIABLES
    prog, x,    \* the program and its variables; they do not change
    gen,        \* what CodeGen leaves: the code, vstack, the labels
    run,        \* the run of the program, at an effect
    cpu         \* the processor: at the same effect of the code

vars == <<prog, x, gen, run, cpu>>

Undefined == -2     \* the contents of a register or slot never written

\* The parity flag is set by an unordered comparison only.
Flags(n, c) == [d |-> n - c, unordered |-> n = C!NaN]

\* sp: how far the stack pointer is below the frame; array: where each
\* variable length array begins, once it is allocated.
Reset == [pc |-> 1, reg |-> [r \in Regs |-> Undefined], slot |-> <<>>,
          flags |-> Flags(0, 0), sp |-> 0, array |-> <<>>]

\* Unordered operands set the carry and zero flags.
Holds(cc, f) ==
    IF f.unordered THEN cc \in {"eq", "lt", "le"}
    ELSE CASE cc = "eq" -> f.d = 0  [] cc = "ne" -> f.d # 0
           [] cc = "lt" -> f.d < 0  [] cc = "ge" -> f.d >= 0
           [] cc = "le" -> f.d <= 0 [] cc = "gt" -> f.d > 0

\* One instruction without an effect that can be seen.
Execute(m, code) ==
    LET i    == code[m.pc]
        next == [m EXCEPT !.pc = @ + 1]
        jump == [m EXCEPT !.pc = i.to]
        skip == [m EXCEPT !.pc = @ + 2]
        Set(n) == [next EXCEPT !.reg[i.r] = n]
        Slot == IF i.slot \in DOMAIN m.slot THEN m.slot[i.slot] ELSE Undefined
    IN  CASE i.op = "mov"     -> Set(i.n)
          [] i.op = "var"     -> Set(x[i.x])
          [] i.op = "movr"    -> Set(m.reg[i.s])
          [] i.op = "load"    -> Set(Slot)
          [] i.op = "store"   -> [next EXCEPT !.slot = (i.slot :> m.reg[i.r]) @@ @]
          [] i.op = "cmp"     -> [next EXCEPT !.flags = Flags(m.reg[i.r], i.n)]
          [] i.op = "fcmp"    -> [next EXCEPT !.flags = Flags(x[i.x], i.n)]
          [] i.op = "set"     -> Set(C!Truth(Holds(i.cc, m.flags)))
          [] i.op = "jmp"     -> jump
          [] i.op = "jcc"     -> IF Holds(i.cc, m.flags) THEN jump ELSE next
          [] i.op = "jp"      -> IF m.flags.unordered THEN jump ELSE next
          [] i.op = "jp_over" -> IF m.flags.unordered THEN skip ELSE next
          [] i.op = "save_sp"    -> [next EXCEPT !.slot = (i.slot :> m.sp) @@ @]
          [] i.op = "restore_sp" -> [next EXCEPT !.sp = Slot]
          [] i.op = "alloc"      ->
               [next EXCEPT !.sp = @ + m.reg[i.r],
                            !.array = (i.id :> m.sp + m.reg[i.r]) @@ @]

\* What the processor does next that can be seen.
Effect(m, code) ==
    IF m.pc \notin DOMAIN code THEN [e |-> "lost"]
    ELSE LET i == code[m.pc]
         IN  CASE i.op = "ret"  -> [e |-> "return", n |-> m.reg[0]]
               [] i.op = "call" -> [e |-> "call", id |-> i.id]
               [] i.op = "use"  -> [e |-> "use", id |-> i.id, a |-> m.reg[i.r],
                                    b |-> m.reg[i.s]]
               [] OTHER         -> [e |-> "none"]

RECURSIVE Advance(_, _, _)
Advance(m, code, f) ==
    IF f = 0 \/ Effect(m, code).e # "none" THEN m
    ELSE Advance(Execute(m, code), code, f - 1)

\* A call overwrites every register.
Resume(m, code, n) ==
    LET next == [m EXCEPT !.pc = @ + 1]
    IN  IF code[m.pc].op = "call"
        THEN [next EXCEPT !.reg = [r \in Regs |-> IF r = 0 THEN n ELSE Undefined]]
        ELSE next

Source == C!Effect(run.k, run.v)
Target == Effect(cpu, gen.code)

\* The same effect, on the same values.
Agree(s, t) ==
    IF s.e = "return" /\ s.n = C!None THEN t.e = "return" ELSE s = t

Init ==
    /\ prog \in Programs
    /\ gen = Function(prog, Labels)
    /\ x \in Inputs(prog)
    /\ run = C!Advance([k |-> <<prog>>, v |-> <<>>], prog, x, Fuel)
    /\ cpu = Advance(Reset, gen.code, Fuel)

\* Both go on to their next effect.
Continue(n) ==
    /\ Source.e \in {"call", "use"} /\ Agree(Source, Target)
    /\ Source.e = "use" => n = 0
    /\ run' = C!Advance(C!Resume(run, n), prog, x, Fuel)
    /\ cpu' = Advance(Resume(cpu, gen.code, n), gen.code, Fuel)
    /\ UNCHANGED <<prog, x, gen>>

\* The function returned, or a loop has no effect.
Finished == Source.e \in {"return", "none"} /\ UNCHANGED vars

Next == (\E n \in Returned(prog) \cup {0} : Continue(n)) \/ Finished

Spec == Init /\ [][Next]_vars

-----------------------------------------------------------------------------

\* The code does what the program does.
SameEffects == Agree(Source, Target)

\* The declarations of variable length arrays in the program p.
RECURSIVE VlasIn(_)
VlasIn(p) ==
    (IF p.t = "vla" THEN {p} ELSE {})
    \cup UNION {VlasIn(p[f]) : f \in {"e", "a", "b", "c", "s", "i", "else"} \cap DOMAIN p}
    \cup UNION {UNION {VlasIn(p[f][n]) : n \in DOMAIN p[f]} : f \in {"ss", "es"} \cap DOMAIN p}

\* Places in a program.  d is in scope at p: p is in a later statement of the
\* sequence that d is in.
InScope(d, p) ==
    LET n == Len(d)
    IN  Len(p) >= n /\ SubSeq(p, 1, n - 1) = SubSeq(d, 1, n - 1) /\ d[n] < p[n]

\* The arrays of the program p in scope at the place id, by their declarations.
ArraysAt(p, id) == {d \in VlasIn(p) : InScope(d.id, id)}

\* At each call the arrays in scope lie on the stack in the order of their
\* declarations, and nothing else does: none of them was released, and what
\* was left is.
ArraysKept ==
    Source.e \in {"call", "use"} /\ Target.e = Source.e =>
        LET A == ArraysAt(prog, Source.id)
            Depth(B) == MapThenSumSet(LAMBDA d : x[d.n], B)
        IN  /\ cpu.sp = Depth(A)
            /\ \A d \in A : d.id \in DOMAIN cpu.array /\ cpu.array[d.id] = Depth({b \in A : InScope(b.id, d.id)} \cup {d})

\* No jump of the function is left without its target, and each lands on an
\* instruction.
JumpsResolved ==
    \A i \in DOMAIN gen.code :
        gen.code[i].op \in {"jmp", "jcc", "jp"} =>
            ~ gen.code[i].linked /\ gen.code[i].to \in DOMAIN gen.code

\* A statement leaves vstack as it found it.
StackBalanced == gen.vs = <<>>

\* unary: "save all registers" before the code of ({ }).  A value that was
\* saved on the stack is stored there on every way to the code that loads it.
SavedBeforeLoaded ==
    LET t == Target IN t.e = "use" => t.a # Undefined /\ t.b # Undefined

\* gtst of a float comparison: unordered, "For anything except != this means
\* false", so that its negation holds.
UnorderedMeansFalse == (\E n \in DOMAIN x : x[n] = C!NaN) => SameEffects
=============================================================================
