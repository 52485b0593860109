------------------------------ MODULE CodeGen ------------------------------
(***************************************************************************)
(* The code generator of tccgen.c and x86_64-gen.c for statements and      *)
(* conditions: one pass, with the value stack vstack, forward jumps linked *)
(* in chains through their own operands, and conditions that stay in the   *)
(* processor flags or in a chain until a register is needed.               *)
(*                                                                         *)
(* Statements and expressions are records with a field t, defined with     *)
(* their meaning in CSource.  An operator Op(..., G) stands for the C      *)
(* function that changes the globals G; what the function returns is       *)
(* Op(...).t.  An instruction takes one address, the first is 1, and its   *)
(* operand "to" is an address.  The values are integers and conditions of  *)
(* type int; a float is only tested or compared.                           *)
(***************************************************************************)
EXTENDS Integers, Sequences, SequencesExt

CONSTANT NB_REGS    \* registers of the class RC_INT; 0 is RC_IRET

ASSUME CodeGenAssumption == NB_REGS \in Nat \ {0, 1}

Regs == 0 .. NB_REGS - 1

\* The ints that blocks pass by pointer are the elements of cell, and the
\* first two are globals.  Pointer 0 is NULL, or points to a local variable of
\* a call of block() that has returned.
vla_sp_root_loc == 1
vla_sp_loc_tmp  == 2

\* code: cur_text_section->data;  vs: vstack, vtop last;  loc: stack slots;
\* lab: the labels;  t: the result of the last call.
NoCode(Labels) ==
    [code |-> <<>>, vs |-> <<>>, loc |-> 0, cell |-> <<0, 0>>, rsym |-> 0,
     lab |-> [l \in Labels |-> [r |-> "none", jnext |-> 0]], t |-> 0,
     vla_sp_loc |-> vla_sp_root_loc, vla_flags |-> {"need_new_frame"}]

ind(G) == Len(G.code) + 1

\* F(x), where x is computed first.
First(x, F(_)) == CHOOSE y \in {F(z) : z \in {x}} : TRUE

o(i, G) == [G EXCEPT !.code = Append(@, i)]

-----------------------------------------------------------------------------
(***************************************************************************)
(* Jumps.  The operand of a jump that is not resolved is the address of    *)
(* the next one of its chain; "linked" says so.                            *)
(***************************************************************************)

\* Emits a jump whose operand continues the chain t; returns its address.
psym(i, t, G) ==
    [o([to |-> t, linked |-> TRUE] @@ i, G) EXCEPT !.t = ind(G)]

gjmp(t, G) == psym([op |-> "jmp"], t, G)

gjmp_addr(a, G) == o([op |-> "jmp", to |-> a, linked |-> FALSE], G)

RECURSIVE Chain(_, _)
Chain(t, G) ==
    IF t = 0 \/ ~ G.code[t].linked THEN {} ELSE {t} \cup Chain(G.code[t].to, G)

gsym_addr(t, a, G) ==
    LET C == Chain(t, G)
    IN  [G EXCEPT !.code = [i \in DOMAIN @ |->
            IF i \in C THEN [@[i] EXCEPT !.to = a, !.linked = FALSE] ELSE @[i]]]

gsym(t, G) == gsym_addr(t, ind(G), G)

\* The chain c with t linked after its last jump.
Joined(c, t, G) ==
    IF c = 0 THEN G
    ELSE LET last == CHOOSE i \in Chain(c, G) : G.code[i].to = 0
         IN  [G EXCEPT !.code[last].to = t]

-----------------------------------------------------------------------------
(***************************************************************************)
(* The value stack.  v.r says where a value is: "const", "lval" (a         *)
(* variable), "local" (saved in slot c), "reg", "cmp" (in the flags, c the *)
(* condition code), "jmp" and "jmpi" (1, or 0, when a jump of chain c is   *)
(* taken).                                                                 *)
(***************************************************************************)

Value(r, c) == [r |-> r, c |-> c, fl |-> FALSE]

vtop(G) == Last(G.vs)

Push(v, G) == [G EXCEPT !.vs = Append(@, v)]
Drop(G)    == [G EXCEPT !.vs = Front(@)]        \* vtop--
SetTop(v, G) == [G EXCEPT !.vs = Append(Front(@), v)]

\* A value that the next instruction may destroy.
Unsafe(v) == v.r \in {"cmp", "jmp", "jmpi"}

save_reg(r, G) ==
    LET saved == {i \in DOMAIN G.vs : G.vs[i].r = "reg" /\ G.vs[i].c = r}
        l     == G.loc + 1
    IN  IF saved = {} THEN G
        ELSE [o([op |-> "store", r |-> r, slot |-> l], G) EXCEPT
                 !.loc = l,
                 !.vs  = [i \in DOMAIN @ |->
                             IF i \in saved THEN Value("local", l) ELSE @[i]]]

RECURSIVE SaveEntries(_, _)
SaveEntries(n, G) ==
    IF n <= 0 THEN G
    ELSE LET g == SaveEntries(n - 1, G)
             v == g.vs[n]
         IN  IF v.r = "reg" THEN save_reg(v.c, g) ELSE g

save_regs(n, G) == SaveEntries(Len(G.vs) - n, G)

\* The register of rc that a new value gets; it is saved when none is free.
get_reg(rc, G) ==
    LET used == {G.vs[i].c : i \in {j \in DOMAIN G.vs : G.vs[j].r = "reg"}}
        free == rc \ used
    IN  IF free # {} THEN [G EXCEPT !.t = CHOOSE r \in free : \A s \in free : r <= s]
        ELSE LET first == CHOOSE i \in DOMAIN G.vs :
                            /\ G.vs[i].r = "reg" /\ G.vs[i].c \in rc
                            /\ \A j \in 1 .. i - 1 :
                                  ~ (G.vs[j].r = "reg" /\ G.vs[j].c \in rc)
                 r     == G.vs[first].c
             IN  [save_reg(r, G) EXCEPT !.t = r]

mov(r, n, G) == o([op |-> "mov", r |-> r, n |-> n], G)

\* A flags value: the jump or set on the parity flag corrects the result
\* of a float comparison whose operands are unordered.
LoadCmp(r, v, G) ==
    LET g == mov(r, IF v.c = "ne" THEN 1 ELSE 0, G)
    IN  o([op |-> "set", cc |-> v.c, r |-> r],
          IF v.fl THEN o([op |-> "jp_over"], g) ELSE g)

\* A chain: 1 or 0 when the code is reached, the other after a jump.
LoadJmp(r, v, G) ==
    LET n     == IF v.r = "jmpi" THEN 1 ELSE 0
        first == mov(r, n, G)
        after == o([op |-> "jmp", to |-> ind(first) + 2, linked |-> FALSE], first)
    IN  mov(r, 1 - n, gsym(v.c, after))

load(r, v, G) ==
    CASE v.r = "const"          -> mov(r, v.c, G)
      [] v.r = "lval"           -> o([op |-> "var", r |-> r, x |-> v.c], G)
      [] v.r = "local"          -> o([op |-> "load", r |-> r, slot |-> v.c], G)
      [] v.r = "reg"            -> o([op |-> "movr", r |-> r, s |-> v.c], G)
      [] v.r = "cmp"            -> LoadCmp(r, v, G)
      [] v.r \in {"jmp", "jmpi"} -> LoadJmp(r, v, G)

\* vtop in the register r.
Loaded(r, G) ==
    [SetTop(Value("reg", r), load(r, vtop(G), G)) EXCEPT !.t = r]

LoadedAnew(G) == Loaded(G.t, G)

\* vtop in a register of rc.  A float stays where it is.
gv(rc, G) ==
    LET v == vtop(G)
    IN  IF v.fl /\ v.r # "cmp" THEN G
        ELSE IF v.r = "reg" /\ v.c \in rc THEN [G EXCEPT !.t = v.c]
        ELSE LoadedAnew(get_reg(rc, G))

Safe(G) == IF G.vs # <<>> /\ Unsafe(vtop(G)) THEN gv(Regs, G) ELSE G

vsetc(v, G) == Push(v, Safe(G))

vpushi(n, G) == vsetc(Value("const", n), G)

Swapped(vs) == [vs EXCEPT ![Len(vs)] = vs[Len(vs) - 1], ![Len(vs) - 1] = Last(vs)]

vswap(G) == [Safe(G) EXCEPT !.vs = Swapped(@)]

\* Mutant: the chain of the value is lost.
vpop_KeepsChain(G) == Drop(G)

vpop(G) == Drop(IF vtop(G).r \in {"jmp", "jmpi"} THEN gsym(vtop(G).c, G) ELSE G)

\* vtop in a register, and vtop[-1].
Top(G)   == gv(Regs, G)
Below(G) == vswap(gv(Regs, vswap(G)))

\* Both in registers: the second load may have saved the first.
gv2(G) ==
    LET KeepBelow(g) == IF g.vs[Len(g.vs) - 1].r = "reg" THEN g ELSE Below(g)
        KeepTop(g)   == IF vtop(g).r = "reg" THEN g ELSE Top(g)
    IN  IF Unsafe(vtop(G)) THEN KeepTop(Below(Top(G)))
        ELSE KeepBelow(Top(Below(G)))

move_reg(r, s, G) ==
    IF r = s THEN G ELSE load(r, Value("reg", s), save_reg(r, G))

-----------------------------------------------------------------------------
(***************************************************************************)
(* Conditions.                                                             *)
(***************************************************************************)

Negated(cc) ==
    CASE cc = "eq" -> "ne" [] cc = "ne" -> "eq" [] cc = "lt" -> "ge"
      [] cc = "ge" -> "lt" [] cc = "le" -> "gt" [] cc = "gt" -> "le"

\* vtop, in the register G.t, compared with n.
CompareReg(n, G) == o([op |-> "cmp", r |-> G.t, n |-> n], G)

Compare(cc, n, G) ==
    IF vtop(G).fl
    THEN SetTop([Value("cmp", cc) EXCEPT !.fl = TRUE],
                o([op |-> "fcmp", x |-> vtop(G).c, n |-> n], G))
    ELSE SetTop(Value("cmp", cc), CompareReg(n, gv(Regs, G)))

\* The jumps of v are those of the test.
SameSense(v, inv) == (v.r = "jmpi") = (inv = 1)

\* A float that is tested is compared with 0.
Tested(G) == IF vtop(G).fl /\ vtop(G).r # "cmp" THEN Compare("ne", 0, G) ELSE G

jcc(cc, inv, t, G) ==
    psym([op |-> "jcc", cc |-> IF inv = 1 THEN Negated(cc) ELSE cc], t, G)

\* The jump of a float comparison, with the one on the parity flag.
FloatJump(cc, inv, t, G) ==
    IF (inv = 0) = (cc # "ne") THEN jcc(cc, inv, t, o([op |-> "jp_over"], G))
    ELSE LET p == psym([op |-> "jp"], t, G) IN jcc(cc, inv, p.t, p)

\* The jumps of gtst, when a float is tested.
Branch(inv, t, G) ==
    LET v == vtop(G)
        j == gjmp(t, G)
    IN  CASE v.r = "cmp" /\ ~ v.fl -> Drop(jcc(v.c, inv, t, G))
          [] v.r = "cmp" /\ v.fl   -> Drop(FloatJump(v.c, inv, t, G))
          [] v.r \in {"jmp", "jmpi"} /\ SameSense(v, inv) ->
               [Drop(Joined(v.c, t, G)) EXCEPT !.t = IF v.c = 0 THEN t ELSE v.c]
          [] v.r \in {"jmp", "jmpi"} /\ ~ SameSense(v, inv) ->
               [Drop(gsym(v.c, j)) EXCEPT !.t = j.t]
          [] v.r = "const" /\ (v.c # 0) # (inv = 1) -> Drop(j)
          [] v.r = "const" /\ (v.c # 0) = (inv = 1) -> [Drop(G) EXCEPT !.t = t]
          [] v.r \in {"lval", "local", "reg"} ->
               Drop(jcc("ne", inv, t, CompareReg(0, gv(Regs, G))))

\* Jumps when vtop is true (inv = 0) or false (inv = 1), along the chain t.
gtst(inv, t, G) == Branch(inv, t, Tested(G))

-----------------------------------------------------------------------------
(***************************************************************************)
(* Variable length arrays.  vla_sp_loc points to the int with the slot in  *)
(* which the stack pointer is saved, and vla_flags tells what was done.    *)
(***************************************************************************)

\* A pointer to a new int is the length of cell.
Alloc(n, G) == [G EXCEPT !.cell = Append(@, n)]

VLA_SCOPE_FLAGS == {"sp_saved", "need_new_frame", "in_scope"}

VlaInScope(G) == "in_scope" \in G.vla_flags

\* The int p points to; what is read from a variable that is gone is 0, a
\* slot that is never stored.
Cell(p, G)       == IF p = 0 THEN 0 ELSE G.cell[p]
SetCell(p, n, G) == IF p = 0 THEN G ELSE [G EXCEPT !.cell[p] = n]

gen_vla_sp_restore(slot, G) == o([op |-> "restore_sp", slot |-> slot], G)

vla_sp_save(G) ==
    LET set  == "sp_loc_set" \in G.vla_flags
        l    == IF set THEN Cell(G.vla_sp_loc, G) ELSE G.loc + 1
        g    == IF set THEN G ELSE [SetCell(G.vla_sp_loc, l, G) EXCEPT !.loc = l]
        save == IF "sp_saved" \in G.vla_flags THEN g
                ELSE o([op |-> "save_sp", slot |-> l], g)
    IN  [save EXCEPT !.vla_flags = @ \cup {"sp_loc_set", "sp_saved"}]

\* The space for an array whose size is the variable s.n, and its address.
gen_vla_alloc(s, G) ==
    LET g == gv(Regs, vsetc(Value("lval", s.n), G))
    IN  Drop(o([op |-> "alloc", r |-> g.t, id |-> s.id], g))

\* The declaration of a variable length array.
Declare(s, G) ==
    gen_vla_alloc(s,
        IF "need_new_frame" \notin G.vla_flags THEN G
        ELSE [vla_sp_save(G) EXCEPT !.vla_flags = {"in_scope"},
                                    !.vla_sp_loc = vla_sp_loc_tmp])

\* The state of a block that begins, with an int of its own, and what its
\* end does, where G is the state before the block and g that at its end.
EnterVla(G) ==
    LET g == Alloc(Cell(G.vla_sp_loc, G), G)
    IN  [g EXCEPT !.vla_sp_loc = IF @ = vla_sp_root_loc THEN @ ELSE Len(g.cell),
                  !.vla_flags  = @ \cup {"need_new_frame"}]

\* Mutant: the flags of the inner block stay.
LeaveVla_FlagsStay(G, g) ==
    LET own == EnterVla(G).vla_sp_loc
    IN  IF g.vla_sp_loc = own THEN g
        ELSE gen_vla_sp_restore(g.cell[own],
                 [SetCell(G.vla_sp_loc, g.cell[own], g) EXCEPT !.vla_sp_loc = G.vla_sp_loc])

LeaveVla(G, g) ==
    LET own   == EnterVla(G).vla_sp_loc
        back  == SetCell(G.vla_sp_loc, g.cell[own], g)
        left  == IF g.vla_sp_loc = own
                 THEN [back EXCEPT !.vla_sp_loc = IF own = vla_sp_root_loc THEN @ ELSE 0]
                 ELSE gen_vla_sp_restore(g.cell[own],
                          [back EXCEPT !.vla_sp_loc = G.vla_sp_loc])
    IN  [left EXCEPT !.vla_flags =
            (@ \ VLA_SCOPE_FLAGS) \cup (G.vla_flags \cap VLA_SCOPE_FLAGS)]

-----------------------------------------------------------------------------
(***************************************************************************)
(* Expressions and statements.                                             *)
(***************************************************************************)

\* The pointers a block is given: break, continue, the last case test, the
\* default label; and the register of the switch.
Null == [bsym |-> 0, csym |-> 0, case_sym |-> 0, def_sym |-> 0, case_reg |-> 0]

RECURSIVE Expr(_, _), Operands(_, _, _), Block(_, _, _, _), Blocks(_, _, _, _),
          Braces(_, _, _, _)

\* A function call without arguments: the pushed symbol is dropped again.
Call(e, G) ==
    LET called == o([op |-> "call", id |-> e.id], save_regs(0, Safe(G)))
    IN  vsetc(Value("reg", 0), called)

\* The operands of && (inv = 1) and || after the jump of the one before them,
\* which continues the chain G.t.
Operands(rest, inv, G) ==
    IF rest = <<>> THEN vsetc(Value(IF inv = 1 THEN "jmpi" ELSE "jmp", G.t), G)
    ELSE Operands(Tail(rest), inv, gtst(inv, G.t, Expr(Head(rest), G)))

expr_logic(es, inv, G) ==
    Operands(Tail(es), inv, gtst(inv, 0, save_regs(1, Expr(Head(es), G))))

Not(G) ==
    LET v == vtop(G)
        g == gtst(1, 0, save_regs(1, G))
    IN  CASE v.r = "const" -> SetTop(Value("const", IF v.c = 0 THEN 1 ELSE 0), G)
          [] v.r = "cmp"   -> SetTop([v EXCEPT !.c = Negated(@)], G)
          [] OTHER         -> vsetc(Value("jmp", g.t), g)

\* The value of a goes to r, where that of b is; tt is the jump over it.
CondMove(r, tt, G) ==
    gsym(tt, SetTop(Value("reg", r), move_reg(r, G.t, G)))

CondJoin(sv, u, G) ==
    LET tt == gjmp(0, G)
    IN  CondMove(G.t, tt.t, gv(Regs, SetTop(sv, gsym(u, tt))))

\* Mutant: the registers below the condition are not saved.
CondTest_Unsaved(G) == gtst(1, 0, G)

CondTest(G) ==
    gtst(1, 0, IF Len(G.vs) # 1 THEN save_regs(1, gv(Regs, G)) ELSE G)

CondRight(e, t, G) ==
    LET u == gjmp(0, Drop(G))
    IN  CondJoin(vtop(G), u.t, gv(Regs, Expr(e.b, gsym(t, u))))

\* c ? a : b, where G.t jumps to b: the value of a is loaded after b, in the
\* register of b.
CondLeft(e, G) == CondRight(e, G.t, Expr(e.a, G))

expr_cond(e, G) == CondLeft(e, CondTest(Expr(e.c, G)))

Expr(e, G) ==
    CASE e.t = "const" -> vpushi(e.n, G)
      [] e.t = "var"   -> vsetc(Value("lval", e.x), G)
      [] e.t = "fvar"  -> vsetc([Value("lval", e.x) EXCEPT !.fl = TRUE], G)
      [] e.t = "call"  -> Call(e, G)
      [] e.t = "cmp"   -> Compare(e.cc, 0, Safe(Expr(e.e, G)))
      [] e.t = "not"   -> Not(Expr(e.e, G))
      [] e.t = "and"   -> expr_logic(e.es, 1, G)
      [] e.t = "or"    -> expr_logic(e.es, 0, G)
      [] e.t = "cond"  -> expr_cond(e, G)
      [] e.t = "block" -> Block([t |-> "seq", ss |-> e.ss], save_regs(0, G), Null, TRUE)

\* An operation on two values, with an effect of its own.
Operation(id, G) ==
    o([op |-> "use", id |-> id, r |-> G.vs[Len(G.vs) - 1].c, s |-> vtop(G).c], G)

Use(s, G) == Drop(Drop(Operation(s.id, gv2(Expr(s.b, Expr(s.a, G))))))

\* The declarations and statements of { }: in ({ }) the value of the last
\* one stays.
Blocks(ss, G, P, is_expr) ==
    IF ss = <<>> THEN G
    ELSE First(IF Head(ss).t = "vla" THEN Declare(Head(ss), G)
               ELSE Block(Head(ss), IF is_expr THEN vpop(G) ELSE G, P, is_expr),
               LAMBDA g : Blocks(Tail(ss), g, P, is_expr))

Braces(s, G, P, is_expr) ==
    First(Blocks(s.ss, EnterVla(G), P, is_expr), LAMBDA g : LeaveVla(G, g))

\* The jump G.t is taken when the condition is false.
Branches(s, G, P) ==
    LET then == Block(s.s, G, P, FALSE)
        d    == gjmp(0, then)
    IN  IF s.t = "if" THEN gsym(G.t, then)
        ELSE gsym(d.t, Block(s.else, gsym(G.t, d), P, FALSE))

If(s, G, P) == Branches(s, gtst(1, 0, Expr(s.e, G)), P)

\* The body of a loop, with pointers to its a (break), which starts as the
\* chain G.t, and b (continue).
Body(s, G, P) ==
    LET g == Alloc(0, Alloc(G.t, G))
        n == Len(g.cell)
    IN  [Block(s, g, [P EXCEPT !.bsym = n - 1, !.csym = n], FALSE) EXCEPT !.t = n]

\* The end of while and for: back to d.
LoopEnd(d, G) ==
    LET n == G.t
    IN  gsym_addr(G.cell[n], d, gsym(G.cell[n - 1], gjmp_addr(d, G)))

While(s, G, P) == LoopEnd(ind(G), Body(s.s, gtst(1, 0, Expr(s.e, G)), P))

DoEnd(s, d, G) ==
    LET n == G.t
        c == gtst(0, 0, Expr(s.e, gsym(G.cell[n], G)))
    IN  gsym(G.cell[n - 1], gsym_addr(c.t, d, c))

Do(s, G, P) == DoEnd(s, ind(G), Body(s.s, [G EXCEPT !.t = 0], P))

\* for (; e; i) s: the code of i is before that of s; i goes on at d.
ForBody(s, d, G, P) ==
    LET e    == gjmp(0, G)
        incr == gsym(e.t, gjmp_addr(d, vpop(Expr(s.i, e))))
    IN  LoopEnd(ind(e), Body(s.s, [incr EXCEPT !.t = G.t], P))

For(s, G, P) == ForBody(s, ind(G), gtst(1, 0, Expr(s.e, G)), P)

\* The value is in the register r.
SwitchBody(s, r, G, P) ==
    LET b    == gjmp(0, G)
        g    == Alloc(0, Alloc(b.t, Alloc(0, b)))
        n    == Len(g.cell)
        body == Block(s.s, g, [P EXCEPT !.bsym = n - 2, !.case_sym = n - 1,
                                        !.def_sym = n, !.case_reg = r], FALSE)
        c    == IF body.cell[n] = 0 THEN ind(body) ELSE body.cell[n]
    IN  gsym(body.cell[n - 2], gsym_addr(body.cell[n - 1], c, body))

Switch(s, G, P) ==
    First(gv(Regs, Expr(s.e, G)), LAMBDA g : SwitchBody(s, g.t, vpop(g), P))

\* Jumps to the next case when the value is not in v1 .. v2.
CaseTest(s, r, G) ==
    LET cmp(cc, v, g) == Compare(cc, v, vsetc(Value("reg", r), g))
        low == gtst(1, 0, cmp("ge", s.v1, G))
    IN  IF s.v1 = s.v2 THEN gtst(1, 0, cmp("eq", s.v1, G))
        ELSE gtst(1, low.t, cmp("le", s.v2, low))

Case(s, G, P) ==
    LET b    == gjmp(0, G)
        test == CaseTest(s, P.case_reg, gsym(b.cell[P.case_sym], b))
    IN  Block(s.s, gsym(b.t, [test EXCEPT !.cell[P.case_sym] = test.t]), P, FALSE)

Default(s, G, P) ==
    Block(s.s, [G EXCEPT !.cell[P.def_sym] = ind(G)], P, FALSE)

\* The jump of break or continue joins the chain p points to.
JumpTo(p, G) ==
    LET g == gjmp(G.cell[p], G) IN [g EXCEPT !.cell[p] = g.t]

JumpToLabel(l, G) ==
    LET g == gjmp(G.lab[l].jnext, G)
    IN  IF G.lab[l].r = "defined" THEN gjmp_addr(G.lab[l].jnext, G)
        ELSE [g EXCEPT !.lab[l] = [r |-> "forward", jnext |-> g.t]]

\* The stack pointer of the start of the function is restored first.
Goto(s, G) ==
    JumpToLabel(s.l, IF VlaInScope(G)
                     THEN gen_vla_sp_restore(G.cell[vla_sp_root_loc], vla_sp_save(G))
                     ELSE G)

DefineLabel(l, G) ==
    LET g == IF G.lab[l].r = "none" THEN G ELSE gsym(G.lab[l].jnext, G)
    IN  [g EXCEPT !.lab[l] = [r |-> "defined", jnext |-> ind(g)]]

\* A goto comes here from any block, so that the stack pointer is restored.
LabelRestored(G) ==
    IF VlaInScope(G)
    THEN [gen_vla_sp_restore(Cell(G.vla_sp_loc, G), G) EXCEPT
             !.vla_flags = @ \cup {"need_new_frame"}]
    ELSE G

Label(s, G, P, is_expr) ==
    LET here == LabelRestored(DefineLabel(s.l, IF VlaInScope(G) THEN vla_sp_save(G) ELSE G))
    IN  Block(s.s, IF is_expr THEN vpop(here) ELSE here, P, is_expr)

\* A jump in the chain to the epilog.
ToEpilog(G) == LET j == gjmp(G.rsym, G) IN [j EXCEPT !.rsym = j.t]

\* Mutant: the value stays on vstack.
Return_NoDrop(s, G) ==
    ToEpilog(IF s.t = "return" THEN gv({0}, Expr(s.e, G)) ELSE G)

\* The value is in RC_IRET.
Return(s, G) ==
    ToEpilog(IF s.t = "return" THEN Drop(gv({0}, Expr(s.e, G))) ELSE G)

Statement(s, G, P, is_expr) ==
    CASE s.t \in {"if", "ifelse"}       -> If(s, G, P)
      [] s.t = "while"                  -> While(s, G, P)
      [] s.t = "do"                     -> Do(s, G, P)
      [] s.t = "for"                    -> For(s, G, P)
      [] s.t = "switch"                 -> Switch(s, G, P)
      [] s.t = "case"                   -> Case(s, G, P)
      [] s.t = "default"                -> Default(s, G, P)
      [] s.t = "seq"                    -> Braces(s, G, P, is_expr)
      [] s.t = "break"                  -> JumpTo(P.bsym, G)
      [] s.t = "continue"               -> JumpTo(P.csym, G)
      [] s.t \in {"return", "leave"}    -> Return(s, G)
      [] s.t = "goto"                   -> Goto(s, G)
      [] s.t = "label"                  -> Label(s, G, P, is_expr)
      [] s.t = "use"                    -> Use(s, G)
      [] s.t = "exp" /\ ~ is_expr       -> vpop(Expr(s.e, G))
      [] s.t = "exp" /\ is_expr         -> Expr(s.e, vpop(G))

\* In ({ }) a statement has the value (void) 0 unless it is an expression.
Block(s, G, P, is_expr) ==
    First(IF is_expr THEN vpushi(0, G) ELSE G,
          LAMBDA g : Statement(s, g, P, is_expr))

\* gen_function: the code of s, and the state that it leaves.
Function(s, Labels) ==
    LET body == Block(s, NoCode(Labels), Null, FALSE)
    IN  o([op |-> "ret"], gsym(body.rsym, body))
=============================================================================
