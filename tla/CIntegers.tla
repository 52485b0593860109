----------------------------- MODULE CIntegers -----------------------------
(***************************************************************************)
(* The integers of C: types of given widths, conversions, promotions and   *)
(* the value of an operation, as far as C defines one.  The module knows   *)
(* nothing of the compiler; IntExpr is compared with it.                   *)
(***************************************************************************)
EXTENDS Integers

CONSTANT Bits   \* the width of each basic type

ASSUME BitsAssumption ==
    /\ DOMAIN Bits = {"BYTE", "SHORT", "INT", "LLONG"}
    /\ \A b \in DOMAIN Bits : Bits[b] \in Nat \ {0}
    /\ Bits["BYTE"] < Bits["SHORT"] /\ Bits["SHORT"] < Bits["INT"]
    /\ Bits["INT"] < Bits["LLONG"]

LOCAL INSTANCE Bitwise

Type(b, unsigned) == [b |-> b, u |-> unsigned]

BOOL   == Type("BOOL", FALSE)
INT    == Type("INT", FALSE)
UINT   == Type("INT", TRUE)
LLONG  == Type("LLONG", FALSE)
ULLONG == Type("LLONG", TRUE)

IntTypes == {BOOL} \cup {Type(b, u) : b \in DOMAIN Bits, u \in BOOLEAN}

\* The bit pattern of v in w bits, and the number a pattern stands for
Pattern(v, w) == v % 2^w
AsSigned(p, w) == IF p >= 2^(w - 1) THEN p - 2^w ELSE p

Values(t) == IF t = BOOL THEN {0, 1}
             ELSE IF t.u THEN 0 .. 2^Bits[t.b] - 1
             ELSE -(2^(Bits[t.b] - 1)) .. 2^(Bits[t.b] - 1) - 1

\* A value that its new type cannot represent is taken modulo 2^width
Convert(v, t) == IF t = BOOL THEN (IF v = 0 THEN 0 ELSE 1)
                 ELSE IF t.u THEN Pattern(v, Bits[t.b])
                 ELSE AsSigned(Pattern(v, Bits[t.b]), Bits[t.b])

Promote(t) == IF t.b \in {"BOOL", "BYTE", "SHORT"} THEN INT ELSE t

\* The type to which the operands of an operation are converted
Usual(t1, t2) ==
    LET ps == {Promote(t1), Promote(t2)}
        b  == IF \E p \in ps : p.b = "LLONG" THEN "LLONG" ELSE "INT"
    IN  Type(b, Type(b, TRUE) \in ps)

Shifts == {"<<", ">>"}
Relations == {"<", ">", "<=", ">=", "==", "!="}
Divisions == {"/", "%"}

OperandType(op, t1, t2) == IF op \in Shifts THEN Promote(t1) ELSE Usual(t1, t2)
ResultType(op, t1, t2) == IF op \in Relations THEN INT ELSE OperandType(op, t1, t2)

\* Division rounds to zero; BitOp is & | or ^ of numbers below 2^w
AbsVal(x) == IF x < 0 THEN -x ELSE x
Quotient(x, y) == (IF (x < 0) = (y < 0) THEN 1 ELSE -1) * (AbsVal(x) \div AbsVal(y))
BitOp(op, p, q) == CASE op = "&" -> p & q [] op = "|" -> p | q [] op = "^" -> p ^^ q

\* The value of x op y, before it is converted to the type of the result
Exactly(op, x, y, w) ==
    CASE op = "+" -> x + y
      [] op = "-" -> x - y
      [] op = "*" -> x * y
      [] op = "/" -> Quotient(x, y)
      [] op = "%" -> x - y * Quotient(x, y)
      [] op = "<<" -> x * 2^y
      [] op = ">>" -> x \div 2^y
      [] op = "<"  -> IF x < y THEN 1 ELSE 0
      [] op = ">"  -> IF x > y THEN 1 ELSE 0
      [] op = "<=" -> IF x <= y THEN 1 ELSE 0
      [] op = ">=" -> IF x >= y THEN 1 ELSE 0
      [] op = "==" -> IF x = y THEN 1 ELSE 0
      [] op = "!=" -> IF x = y THEN 0 ELSE 1
      [] OTHER -> BitOp(op, Pattern(x, w), Pattern(y, w))

\* C gives no value to a division by zero, to a shift by a negative number or
\* by the width, and to a signed operation whose result does not fit
Defined(op, x, y, t) ==
    /\ op \in Divisions => y # 0
    /\ op \in Shifts => y \in 0 .. Bits[t.b] - 1
    /\ op \in {"+", "-", "*", "/", "%", "<<"} /\ ~t.u =>
        /\ Exactly(IF op = "%" THEN "/" ELSE op, x, y, Bits[t.b]) \in Values(t)
        /\ op = "<<" => x >= 0

Apply(op, x, y, t) == Convert(Exactly(op, x, y, Bits[t.b]), t)
=============================================================================
