------------------------------ MODULE IntExpr ------------------------------
(***************************************************************************)
(* How the compiler computes integer expressions: the entries of the value *)
(* stack with their types, gen_op, gen_opic with its folding, gen_cast,    *)
(* vstore with its delayed casts, bit-fields, and what the processor then  *)
(* does.  Every entry carries what it really holds (the constant, the      *)
(* register or the memory it names, at run time) and, in ct and cv, the    *)
(* type and the value that C gives to the expression.                      *)
(*                                                                         *)
(* An expression of any depth is a sequence of steps on a stack of at most *)
(* two entries here: an operator reads only these.  What happens to        *)
(* entries below is SaveRegs.  Conditions in the flags or in chains of     *)
(* jumps, which CodeGen models, are both "cmp" here.                       *)
(***************************************************************************)
EXTENDS CIntegers, Sequences

CONSTANTS
    Sessions,     \* what expressions are made of, by name: see SessionAssumption
    None          \* no lvalue, no field, nothing read

ASSUME SessionAssumption == \A n \in DOMAIN Sessions : LET s == Sessions[n] IN
    /\ s.ops \subseteq STRING                \* the operators
    /\ s.literals \subseteq IntTypes       \* the types of literals
    /\ s.variables \subseteq IntTypes      \* of variables
    /\ s.casts \subseteq IntTypes          \* of casts
    /\ s.fields \subseteq IntTypes \X Nat \X (Nat \ {0})  \* the bit-fields
    /\ s.depth \in {1, 2}                  \* of the stack
    /\ s.const_wanted \in BOOLEAN          \* in a constant expression?

VARIABLES
    stack,        \* the value stack, vtop last
    out,          \* what left the expression last: stored, tested or passed
    session       \* its name

vars == <<stack, out, session>>

Made == Sessions[session]

W == Bits["LLONG"]
Wide(x) == Pattern(x, W)
IntPart(x) == Pattern(x, Bits["INT"])
SignExtended(x) == Wide(AsSigned(IntPart(x), Bits["INT"]))

Narrow(t) == t.b \in {"BYTE", "SHORT"}

\* The VT_LVAL_xxx flags: the type with which an lvalue is read, if not its own
lvalue_type(t) == CASE t = BOOL -> Type("BYTE", FALSE) [] Narrow(t) -> t [] OTHER -> None

\* vpushi writes the low word of the value alone; the rest is never read
Const(n) == [t |-> INT, r |-> "const", c |-> IntPart(n), lv |-> None, bf |-> None, must |-> FALSE]

\* What a load of type t brings from a memory m into a register
Fetch(t, m) ==
    CASE t.b = "LLONG" -> m
      [] t.b = "BOOL" \/ Narrow(t) ->
            LET w == IF t.b = "BOOL" THEN Bits["BYTE"] ELSE Bits[t.b]
            IN  IntPart(IF t.u THEN Pattern(m, w) ELSE AsSigned(Pattern(m, w), w))
      [] OTHER -> IntPart(m)

\* gv, for an entry that is not a bit-field
Load(e) ==
    [e EXCEPT !.r = "reg", !.lv = None, !.must = FALSE,
              !.c = CASE e.r = "lval" -> Fetch(IF e.lv = None THEN e.t ELSE e.lv, @)
                      [] e.r = "const" /\ e.t.b # "LLONG" -> IntPart(@)
                      [] OTHER -> @]

\* save_reg stores the whole register; it is read again as its type says
Save(e) == IF e.r = "reg" THEN [e EXCEPT !.r = "lval", !.lv = lvalue_type(e.t), !.must = FALSE]
           ELSE e

\* The number that gen_opic computes with
Folded(e) == CASE e.t.b = "LLONG" -> e.c
               [] e.t.u -> IntPart(e.c)
               [] OTHER -> SignExtended(e.c)

\* gen_cast to INT or LLONG, of an entry without delayed cast or field
Widen(e, t) ==
    CASE e.t = t -> e
      [] e.t # t /\ e.r = "const" -> [e EXCEPT !.t = t, !.c = Folded(e)]
      [] e.t # t /\ e.r # "const" /\ t.b = "LLONG" ->
            IF e.t.b = "LLONG" THEN [e EXCEPT !.t = t]
            ELSE [Load(e) EXCEPT !.t = t, !.c = IF e.t = UINT THEN @ ELSE SignExtended(@)]
      [] OTHER -> [(IF e.t = LLONG THEN Load(e) ELSE e) EXCEPT !.t = t]

-----------------------------------------------------------------------------
(* Operations                                                              *)

Relation == {"<", ">", "<=", ">=", "==", "!=", "U<", "U>", "U<=", "U>="}

UnsignedOp(op) == CASE op \in {"/", "%", "<", ">", "<=", ">="} -> "U" \o op
                    [] op = "SAR" -> "SHR"
                    [] OTHER -> op

\* The operation on w bits, as a folded constant or by the processor
Compute(op, p, q, w) ==
    LET x == Pattern(p, w)  y == Pattern(q, w)
        sx == AsSigned(x, w)  sy == AsSigned(y, w)
    IN  CASE op \in {"U/", "U%", "U<", "U>", "U<=", "U>="} ->
                Exactly(CASE op = "U/" -> "/" [] op = "U%" -> "%" [] op = "U<" -> "<"
                          [] op = "U>" -> ">" [] op = "U<=" -> "<=" [] op = "U>=" -> ">=",
                        x, y, w)
          [] op = "SHR" -> x \div 2^y
          [] op = "SAR" -> Pattern(sx \div 2^y, w)
          [] op = "<<"  -> Pattern(x * 2^y, w)
          [] op = "&&"  -> IF x # 0 /\ y # 0 THEN 1 ELSE 0
          [] op = "||"  -> IF x # 0 \/ y # 0 THEN 1 ELSE 0
          [] OTHER -> Pattern(Exactly(op, sx, sy, w), w)

\* gen_opi: both operands in registers
gen_opi(op, a, b) ==
    [Load(a) EXCEPT !.c = Compute(op, @, Load(b).c, Bits[a.t.b]),
                    !.r = IF op \in Relation THEN "cmp" ELSE "reg"]

\* Constant operands that change nothing, and powers of two
IsNop(op, l) == \/ op \in {"*", "/", "U/"} /\ l = 1
                \/ op \in {"+", "-", "|", "^", "<<", "SHR", "SAR"} /\ l = 0
                \/ op = "&" /\ l = Wide(-1)
Log2(l) == CHOOSE n \in 0 .. W : l = 2^n
IsPower(l) == AsSigned(l, W) > 0 /\ \E n \in 0 .. W : l = 2^n

Commutes == {"+", "&", "^", "|", "*"}

\* x op y where not both are constants
Reduced(op, x, y) ==
    IF y.r = "const" /\ IsNop(op, Folded(y)) THEN x
    ELSE LET power == y.r = "const" /\ op \in {"*", "U/"} /\ IsPower(Folded(y))
         IN  gen_opi(CASE power /\ op = "*" -> "<<" [] power /\ op = "U/" -> "SHR" [] ~power -> op,
                     x, IF power THEN [y EXCEPT !.c = Log2(Folded(y))] ELSE y)

gen_opic(op, a, b) ==
    IF a.r = "const" /\ b.r = "const"
    THEN [a EXCEPT !.c = Compute(op, Folded(a), Folded(b), W)]
    ELSE LET swap == a.r = "const" /\ op \in Commutes
         IN  Reduced(op, IF swap THEN b ELSE a, IF swap THEN a ELSE b)

IsShift(op) == op \in {"<<", "SAR"}

gen_op_type_AnyUnsigned(op, t1, t2) ==
    Type(IF "LLONG" \in {t1.b, t2.b} THEN "LLONG" ELSE "INT", t1.u \/ t2.u)

\* The type t in which gen_op computes
gen_op_type(op, t1, t2) ==
    IF IsShift(op)
    THEN Type(IF t1.b = "LLONG" THEN "LLONG" ELSE "INT", t1 \in {UINT, ULLONG})
    ELSE LET b == IF "LLONG" \in {t1.b, t2.b} THEN "LLONG" ELSE "INT"
         IN  Type(b, Type(b, TRUE) \in {t1, t2})

\* std_op: the casts of both operands, and gen_opic
std_op(op, t, a, b) ==
    LET o == IF t.u THEN UnsignedOp(op) ELSE op
        res == gen_opic(o, Widen(a, t), Widen(b, IF IsShift(op) THEN INT ELSE t))
    IN  [res EXCEPT !.t = IF o \in Relation THEN INT ELSE t]

Plainly(op, a, b) == std_op(op, gen_op_type(op, a.t, b.t), a, b)

-----------------------------------------------------------------------------
(* Casts                                                                   *)

force_charshort_cast(e, t) ==
    IF t.u THEN Plainly("&", e, Const(2^Bits[t.b] - 1))
    ELSE LET bits == Const(Bits["INT"] - Bits[t.b])
             left == Plainly("<<", e, bits)
         IN  Plainly("SAR", [left EXCEPT !.t.u = FALSE], bits)

\* gv of a bit-field: two shifts
ReadField(e) ==
    LET t == Type(IF e.t.b = "LLONG" THEN "LLONG" ELSE "INT", e.t.u)
        w == Bits[t.b]  pos == e.bf[1]  size == e.bf[2]
    IN  Plainly("SAR", Plainly("<<", Widen([e EXCEPT !.bf = None], t), Const(w - (pos + size))),
                Const(w - size))

\* The first steps of gen_cast: the delayed cast, and bit-fields
Settled(e) == CASE e.must -> force_charshort_cast([e EXCEPT !.must = FALSE], e.t)
                [] e.bf # None -> Load(ReadField(e))
                [] OTHER -> e

gv(e) == IF e.bf # None THEN Load(ReadField(e)) ELSE Load(e)

gen_op(op, a, b) == std_op(op, gen_op_type(op, a.t, b.t), Settled(a), Settled(b))

\* Writes the low word of a constant
WithInt(c, n) == c - IntPart(c) + IntPart(n)

CastConst(e, t) ==
    [e EXCEPT !.t = t,
              !.c = LET l == Folded(e)
                    IN  CASE t.b = "LLONG" -> l
                          [] t = BOOL -> WithInt(l, IF l = 0 THEN 0 ELSE 1)
                          [] OTHER -> WithInt(l, Fetch(t, l))]

CastSettled(s, t) ==
    CASE s.t = t -> s
      [] s.t # t /\ s.r = "const" -> CastConst(s, t)
      [] s.t # t /\ s.r # "const" /\ t = BOOL -> [Plainly("!=", s, Const(0)) EXCEPT !.t = t]
      [] s.t # t /\ s.r # "const" /\ Narrow(t) -> [force_charshort_cast(s, t) EXCEPT !.t = t]
      [] OTHER -> Widen(s, t)

gen_cast(e, t) == CastSettled(Settled(e), t)

\* vstore keeps the source as it is when only its upper bits are too many
Delayed(e, t) == /\ e.bf = None
                 /\ \/ e.t.b \in {"INT", "SHORT"} /\ t.b = "BYTE"
                    \/ e.t.b = "INT" /\ t.b = "SHORT"

\* vstore: the entry that it leaves
vstore(e, t) == IF Delayed(e, t) THEN [Load([e EXCEPT !.t = t]) EXCEPT !.must = TRUE]
                ELSE Load(gen_cast(e, t))

StoredField_NoMask(e, t, pos, size, m) ==
    LET unit == [Const(0) EXCEPT !.t = t, !.r = "lval", !.c = m, !.lv = lvalue_type(t)]
    IN  Load(gen_cast(gen_op("|", unit, gen_op("<<", gv(e), Const(pos))), t)).c

\* vstore of a bit-field in a unit of type t whose old contents are m: the new ones
StoredField(e, t, pos, size, m) ==
    LET word == IF t.b = "LLONG" THEN LLONG ELSE INT
        ones == 2^size - 1
        K(n) == [Const(0) EXCEPT !.t = word, !.c = Wide(n)]
        unit == [Const(0) EXCEPT !.t = t, !.r = "lval", !.c = m, !.lv = lvalue_type(t)]
        source == gen_op("<<", gen_op("&", gv(e), K(ones)), Const(pos))
    IN  Load(gen_cast(gen_op("|", gen_op("&", unit, K(-1 - ones * 2^pos)), source), t)).c

\* gtst: is the condition true?
gtst(e) == CASE e.r = "cmp" -> e.c = 1
             [] e.r # "cmp" /\ e.t.b = "LLONG" -> gv(gen_op("!=", e, Const(0))).c # 0
             [] OTHER -> IntPart(gv(e).c) # 0

\* gfunc_call: an argument without prototype, in the register of the callee
Argument(e) == LET s == Save(IF e.bf # None THEN gv(e) ELSE e)
               IN  Load([s EXCEPT !.t = IF s.t.b = "LLONG" THEN s.t ELSE Type("INT", s.t.u)]).c

-----------------------------------------------------------------------------
(* Expressions                                                             *)

vtop == stack[Len(stack)]
Below == SubSeq(stack, 1, Len(stack) - 1)

\* An entry with its meaning in C; lost marks what the known faults, which
\* section 4 of the README lists, have spoiled: such a value is not used further
Meant(e, t, v, lost) == [e |-> e, ct |-> t, cv |-> v, lost |-> lost]
Usable == \A i \in DOMAIN stack : ~stack[i].lost
Operands(n) == Len(stack) = n /\ Usable
Operand == stack # <<>> /\ Usable
Room == Len(stack) < Made.depth /\ Usable

\* vsetc: a condition does not stay in the flags under another entry
Push(x) ==
    /\ stack' = Append([i \in DOMAIN stack |->
                          IF stack[i].e.r = "cmp" THEN [stack[i] EXCEPT !.e = Load(@)] ELSE stack[i]], x)
    /\ out' = None
Replace(x) == stack' = Append(Below, x) /\ out' = None

Init == stack = <<>> /\ out = None /\ session \in DOMAIN Sessions

\* A literal; the high word of an int is whatever the stack held before
Literal ==
    /\ Room
    /\ \E t \in Made.literals : \E v \in Values(t) \cap Nat :
         \E junk \in IF t = INT THEN {0, 2^W - 2^Bits["INT"]} ELSE {0} :
            Push(Meant([Const(0) EXCEPT !.t = t, !.c = v + junk], t, v, FALSE))
    /\ UNCHANGED session

\* A variable of type t that holds v, with other memory after it
Variable ==
    /\ Room /\ ~Made.const_wanted
    /\ \E t \in Made.variables : \E v \in Values(t) :
          LET w == IF t = BOOL THEN Bits["BYTE"] ELSE Bits[t.b]
          IN  Push(Meant([Const(0) EXCEPT !.t = t, !.r = "lval", !.lv = lvalue_type(t),
                                          !.c = Pattern(v, w) + 2^W - 2^w], t, v, FALSE))
    /\ UNCHANGED session

\* C promotes a bit-field to int if int holds its values
FieldType(t, size) == IF t.b # "LLONG" /\ size < Bits["INT"] THEN INT ELSE t
FieldValues(t, size) == IF t.u THEN 0 .. 2^size - 1 ELSE -(2^(size - 1)) .. 2^(size - 1) - 1

\* A bit-field that holds v among ones
Around(pos, size) == 2^W - 1 - (2^size - 1) * 2^pos
Field ==
    /\ Room /\ ~Made.const_wanted
    /\ \E f \in Made.fields : \E v \in FieldValues(f[1], f[3]) :
          LET t == f[1]  pos == f[2]  size == f[3]
          IN  Push(Meant([Const(0) EXCEPT !.t = t, !.r = "lval", !.lv = lvalue_type(t),
                            !.bf = <<pos, size>>,
                            !.c = Around(pos, size) + Pattern(v, size) * 2^pos],
                         FieldType(t, size), v, FALSE))
    /\ UNCHANGED session

\* Fault 1: a long long becomes unsigned int in its register, and 64 bits again
UpperKept(e, t) == /\ e.r = "reg" /\ e.t = UINT /\ t.b = "LLONG"
                   /\ e.c # IntPart(e.c)
\* Fault 2: a long long becomes char or short by shifts of 64 bits
ShiftedLong(e, t) == e.r # "const" /\ e.t.b = "LLONG" /\ Narrow(t) /\ ~t.u
\* Fault 3: a bit-field of unsigned int is not promoted to int
FieldUnsigned(x) == x.e.bf # None /\ x.e.t = UINT /\ x.ct = INT

CastSpoils(x, t) == UpperKept(x.e, t) \/ ShiftedLong(x.e, t)

Cast ==
    /\ Operand
    /\ \E t \in Made.casts :
          Replace(Meant(gen_cast(vtop.e, t), t, Convert(vtop.cv, t), CastSpoils(vtop, t)))
    /\ UNCHANGED session

CodeOp(op) == IF op = ">>" THEN "SAR" ELSE op

Binary ==
    /\ Operands(2)
    /\ \E op \in Made.ops :
          LET a == stack[1]  b == stack[2]
              t == OperandType(op, a.ct, b.ct)
              x == Convert(a.cv, t)
              y == IF op \in Shifts THEN b.cv ELSE Convert(b.cv, t)
          IN  /\ Defined(op, x, y, t)
              /\ stack' = <<Meant(gen_op(CodeOp(op), a.e, b.e), ResultType(op, a.ct, b.ct),
                                  Convert(Exactly(op, x, y, Bits[t.b]), ResultType(op, a.ct, b.ct)),
                                  \/ CastSpoils(a, t) \/ CastSpoils(b, t)
                                  \/ FieldUnsigned(a) \/ FieldUnsigned(b))>>
              /\ out' = None
    /\ UNCHANGED session

\* && and || of a constant expression.  Fault 4: their type is not int
ConstantLogic ==
    /\ Operands(2) /\ Made.const_wanted
    /\ \E op \in {"&&", "||"} :
          LET a == stack[1]  b == stack[2]
              v == IF op = "&&" THEN a.cv # 0 /\ b.cv # 0 ELSE a.cv # 0 \/ b.cv # 0
          IN  stack' = <<Meant(gen_op(op, a.e, b.e), INT, IF v THEN 1 ELSE 0,
                               Usual(a.ct, b.ct) # INT)>>
    /\ out' = None
    /\ UNCHANGED session

\* c ? a : b, of which the first or the second is taken.  Fault 5: in a
\* constant expression the operand keeps its own type
Conditional ==
    /\ Operands(2)
    /\ \E i \in {1, 2} :
          LET x == stack[i]
              t == Usual(stack[1].ct, stack[2].ct)
              e == IF Made.const_wanted THEN x.e
                   ELSE Load(gen_cast(x.e, gen_op_type("?", stack[1].e.t, stack[2].e.t)))
          IN  stack' = <<Meant(e, t, Convert(x.cv, t),
                               \/ CastSpoils(x, t) \/ \E j \in {1, 2} : FieldUnsigned(stack[j])
                               \/ Made.const_wanted /\ Promote(x.ct) # t)>>
    /\ out' = None
    /\ UNCHANGED session

\* Fault 6: what a delayed cast leaves in a register is tested as it is
Untrimmed(e) == e.must

\* !x.  Fault 8: a comparison that was cast to unsigned int stays unsigned
Not ==
    /\ Operand
    /\ LET e == vtop.e
           n == IF gtst(e) THEN 0 ELSE 1
       IN  Replace(Meant(CASE e.r = "const" -> [CastConst(e, BOOL) EXCEPT !.c = WithInt(@, 1 - IntPart(@))]
                           [] e.r = "cmp" -> [e EXCEPT !.c = n]
                           [] OTHER -> [Const(n) EXCEPT !.r = "cmp"],
                         INT, IF vtop.cv = 0 THEN 1 ELSE 0,
                         Untrimmed(e) \/ (e.r = "cmp" /\ e.t = UINT)))
    /\ UNCHANGED session

\* An entry below the top is saved for a call or for want of registers
SaveRegs ==
    /\ Operands(2) /\ stack[1].e.r = "reg"
    /\ stack' = [stack EXCEPT ![1].e = Save(@)]
    /\ out' = None
    /\ UNCHANGED session

-----------------------------------------------------------------------------
(* What leaves an expression                                               *)

Leaves(use, got, want, lost) == [use |-> use, got |-> got, want |-> want, lost |-> lost]

\* v = e, whose value may be used again
Stored(x, e, t, w) ==
    /\ stack' = <<Meant(e, t, Convert(x.cv, t), CastSpoils(x, t))>>
    /\ out' = Leaves("store", Pattern(e.c, w), Pattern(Convert(x.cv, t), w), UpperKept(x.e, t))

Assign ==
    /\ Operands(1) /\ ~Made.const_wanted
    /\ \E t \in Made.variables :
          Stored(vtop, vstore(vtop.e, t), t, IF t = BOOL THEN Bits["BYTE"] ELSE Bits[t.b])
    /\ UNCHANGED session

\* s.f = e.  Fault 7: the value is that of e, with its type
AssignField ==
    /\ Operands(1) /\ ~Made.const_wanted
    /\ \E f \in Made.fields :
          LET x == stack[1]
              t == f[1]  pos == f[2]  size == f[3]
              w == Bits[t.b]
              cut == Pattern(x.cv, size)
              value == IF t.u THEN cut ELSE AsSigned(cut, size)
          IN  \E m \in {0, Around(pos, size)} :
                /\ stack' = <<Meant(gv(x.e), FieldType(t, size), value,
                                  \/ Untrimmed(x.e) \/ x.cv # value
                                  \/ Promote(x.e.t) # Promote(FieldType(t, size)))>>
                /\ out' = Leaves("field", Pattern(StoredField(x.e, t, pos, size, Pattern(m, w)), w),
                                 Pattern((IF m = 0 THEN 0 ELSE m) + cut * 2^pos, w),
                                 Untrimmed(x.e) \/ UpperKept(x.e, t))
    /\ UNCHANGED session

\* if, while and the like
Test ==
    /\ Operands(1) /\ ~Made.const_wanted
    /\ stack' = <<>>
    /\ out' = Leaves("test", gtst(vtop.e), vtop.cv # 0, Untrimmed(vtop.e))
    /\ UNCHANGED session

\* switch compares an int
Switch ==
    /\ Operands(1) /\ ~Made.const_wanted /\ Promote(vtop.ct).b = "INT"
    /\ stack' = <<>>
    /\ out' = Leaves("switch", IntPart(gv(vtop.e).c), IntPart(vtop.cv), Untrimmed(vtop.e))
    /\ UNCHANGED session

\* An argument of a function without prototype
Pass ==
    /\ Operands(1) /\ ~Made.const_wanted
    /\ LET w == Bits[Promote(vtop.ct).b]
       IN  out' = Leaves("pass", Pattern(Argument(vtop.e), w), Pattern(vtop.cv, w), FALSE)
    /\ stack' = <<>>
    /\ UNCHANGED session

\* expr_const: the value of a constant expression, which is an int
ConstantValue ==
    /\ Operands(1) /\ Made.const_wanted
    /\ out' = Leaves("const", IF vtop.e.r = "const" THEN IntPart(vtop.e.c) ELSE None,
                     IntPart(vtop.cv), FALSE)
    /\ stack' = <<>>
    /\ UNCHANGED session

\* vpop at the end of an expression
Drop ==
    /\ stack # <<>> \/ out # None
    /\ stack' = <<>> /\ out' = None
    /\ UNCHANGED session

Next == \/ Literal \/ Variable \/ Field \/ Cast \/ Binary \/ ConstantLogic
        \/ Conditional \/ Not \/ SaveRegs \/ Assign \/ AssignField
        \/ Test \/ Switch \/ Pass \/ ConstantValue \/ Drop

Spec == Init /\ [][Next]_vars

-----------------------------------------------------------------------------
(* Properties                                                              *)

\* The number that a value in a register or a constant of its type stands for
NumberOf(g) == IF g.t.u /\ ~Narrow(g.t) THEN Pattern(g.c, Bits[g.t.b])
               ELSE AsSigned(Pattern(g.c, IF g.t.b = "LLONG" THEN W ELSE Bits["INT"]),
                             IF g.t.b = "LLONG" THEN W ELSE Bits["INT"])
Meaning(e) == NumberOf(gv(Settled(e)))

\* What the compiler holds for an expression, folded or at run time, is the
\* value of C, with the promoted type of C: gen_op, gen_cast, vstore and gv.
ValuesExact ==
    \A i \in DOMAIN stack : ~stack[i].lost =>
        /\ Meaning(stack[i].e) = stack[i].cv
        /\ stack[i].e.bf = None => Promote(stack[i].e.t) = Promote(stack[i].ct)

\* What is stored, tested, passed or taken as a constant is the value of C.
UsesExact == out # None /\ ~out.lost => out.got = out.want
=============================================================================
