------------------------------ MODULE Lowering ------------------------------
(* Instruction selection: compile_function walks the blocks of an IR       *)
(* function in layout order and lowers its instructions; an instruction    *)
(* without side effects whose users are all in its block is lowered where  *)
(* it is first used.  A function is [params, insts, blocks]: instructions  *)
(* by id, blocks as sequences of ids.  A value is <<"inst", id>>,          *)
(* <<"arg", n>>, <<"int", k>>, <<"agg", words>>, <<"null">> or <<"heap">>. *)
EXTENDS OlaMachine

CONSTANTS Functions,   \* the IR functions to lower
          Inputs,      \* words the parameters take
          Fuel         \* bound on the instructions of a run

VARIABLES fn,     \* the function
          ctx,    \* the lowering context of the current block
          code,   \* machine blocks finished so far
          at      \* [b, phase, k]: block, pass over it, next instruction

vars == <<fn, ctx, code, at>>

(* The context: code of the block, registers and slots of instructions,    *)
(* next fresh register, registers of the parameters, the block lowered,    *)
(* and whether the lowering has returned an error or panicked.             *)
NewContext == [code |-> <<>>, vreg |-> <<>>, slot |-> <<>>, next |-> 1,
               slots |-> <<>>, args |-> <<>>, cur |-> 1, err |-> FALSE]

Emit(c, i) == [c EXCEPT !.code = Append(@, i)]
EmitAll(c, is) == [c EXCEPT !.code = @ \o is]
Fail(c) == [c EXCEPT !.err = TRUE]
Inst(id) == fn.insts[id]
Outputs(c, id) == IF id \in DOMAIN c.vreg THEN c.vreg[id] ELSE <<>>
SetOutput(c, id, vs) == [c EXCEPT !.vreg = (id :> vs) @@ @]

(* n fresh registers: [c, o] is a context and operands.                    *)
Fresh(c, n) == [c |-> [c EXCEPT !.next = @ + n], o |-> [j \in 1 .. n |-> V(c.next + j - 1)]]

(* What follows gets the context and the operand, or the operands, of r.   *)
Then(r, K(_, _)) == K(r.c, r.o)

(* An operand moved to a fresh register.                                   *)
InFresh(c, o) == LET f == Fresh(c, 1) IN [c |-> Emit(f.c, Ins("mov", f.o[1], <<o>>)), o |-> f.o[1]]

BlockOf(id) == CHOOSE b \in DOMAIN fn.blocks : \E k \in DOMAIN fn.blocks[b] : fn.blocks[b][k] = id

(* The values an instruction uses.                                         *)
Uses(i) ==
  CASE i.op \in {"load", "itp", "zext", "trunc", "condbr"} -> {i.arg}
    [] i.op \in {"bin", "icmp"} -> {i.l, i.r}
    [] i.op = "store" -> {i.src, i.dst}
    [] i.op = "gep" -> {i.base} \cup Range(i.idx)
    [] i.op \in {"phi", "call"} -> Range(i.args)
    [] i.op = "switch" -> {i.arg}
    [] i.op = "insertv" -> {i.agg, i.arg}
    [] i.op = "extractv" -> {i.agg}
    [] i.op = "ret" -> {i.arg}
    [] OTHER -> {}

UsersOf(id) == {u \in DOMAIN fn.insts : <<"inst", id>> \in Uses(Inst(u))}

(* Mutant: a load is taken for a pure computation.                         *)
HasSideEffectsNoLoad(id) ==
  Inst(id).op \in {"store", "alloca", "phi", "call", "br", "condbr", "switch", "ret"}

HasSideEffects(id) ==
  Inst(id).op \in {"load", "store", "alloca", "phi", "call", "br", "condbr", "switch", "ret"}

(* new_empty_inst_output, new_empty_str_inst_output: the register of an    *)
(* instruction, the registers of an aggregate.                             *)
EmptyOutput(c, id) ==
  IF Outputs(c, id) # <<>> THEN [c |-> c, o |-> Outputs(c, id)]
  ELSE LET f == Fresh(c, 1) IN [c |-> SetOutput(f.c, id, f.o), o |-> f.o]

EmptyOutputs(c, id, w) ==
  IF Len(Outputs(c, id)) = w THEN [c |-> c, o |-> Outputs(c, id)]
  ELSE LET f  == Fresh(c, w)
           vs == Outputs(c, id) \o f.o
       IN  [c |-> SetOutput(f.c, id, vs), o |-> vs]

RECURSIVE Lower(_, _)

(* get_inst_output: what is not lowered yet is lowered now, unless it is   *)
(* in another block, which will write the register handed out here.        *)
InstOutput(c, id) ==
  CASE Outputs(c, id) # <<>> -> [c |-> c, o |-> Outputs(c, id)]
    [] Outputs(c, id) = <<>> /\ BlockOf(id) # c.cur /\ Inst(id).op # "alloca" -> EmptyOutput(c, id)
    [] OTHER -> EmptyOutput(Lower(c, id), id)

StrInstOutput(c, id, w) ==
  CASE Outputs(c, id) # <<>> /\ Len(Outputs(c, id)) = w -> [c |-> c, o |-> Outputs(c, id)]
    [] BlockOf(id) # c.cur -> EmptyOutputs(c, id, w)
    [] OTHER -> EmptyOutputs(Lower(c, id), id, w)

(* get_operand_for_val: one operand.                                       *)
OperandFor(c, v) ==
  CASE v[1] = "inst" -> Then(InstOutput(c, v[2]), LAMBDA c1, o : [c |-> c1, o |-> o[1]])
    [] v[1] = "arg"  -> [c |-> c, o |-> c.args[v[2]][1]]
    [] v[1] = "int"  -> [c |-> c, o |-> I(v[2])]
    [] v[1] = "null" -> InFresh(c, I(0))
    [] OTHER         -> [c |-> Fail(c), o |-> None]

(* get_operands_for_val: the words of an aggregate.                        *)
OperandsFor(c, v, w) ==
  CASE v[1] = "inst" -> Then(StrInstOutput(c, v[2], w), LAMBDA c1, o : [c |-> c1, o |-> SubSeq(o, 1, w)])
    [] v[1] = "arg"  -> [c |-> c, o |-> c.args[v[2]]]
    [] v[1] = "agg"  -> [c |-> c, o |-> [j \in DOMAIN v[2] |-> I(v[2][j])]]
    [] OTHER         -> [c |-> Fail(c), o |-> [j \in 1 .. w |-> None]]

(* get_vreg_for_val: an immediate is moved to a register.                  *)
VRegFor(c, v) ==
  Then(OperandFor(c, v), LAMBDA c1, o : IF o[1] = "i" THEN InFresh(c1, o) ELSE [c |-> c1, o |-> o])

(* Operands in order; those at the positions `regs' must be registers.     *)
OperandList(c, args, regs) ==
  FoldLeft(LAMBDA a, j : Then(IF j \in regs THEN VRegFor(a.c, args[j]) ELSE OperandFor(a.c, args[j]),
                              LAMBDA c1, o : [c |-> c1, o |-> Append(a.o, o)]),
           [c |-> c, o |-> <<>>], [j \in DOMAIN args |-> j])

LowerBin(c, id) ==
  LET i == Inst(id)
  IN  Then(VRegFor(c, i.l), LAMBDA c1, l :
      Then(OperandFor(c1, i.r), LAMBDA c2, r :
      Then(EmptyOutput(c2, id), LAMBDA c3, d :
        EmitAll(c3, IF i.bop = "sub"
                    THEN <<Ins("not", R(7), <<r>>), Ins("add", R(7), <<R(7), I(1)>>), Ins("add", d[1], <<l, R(7)>>)>>
                    ELSE <<Ins(i.bop, d[1], <<l, r>>)>>))))

(* inttoptr and ptrtoint.                                                  *)
LowerItp(c, id) ==
  Then(OperandFor(c, Inst(id).arg), LAMBDA c1, v :
  Then(EmptyOutput(c1, id), LAMBDA c2, d : Emit(c2, Ins("mov", d[1], <<v>>))))

(* < and > are >= and /= together, and leave the register of /= as the     *)
(* register of the icmp.                                                   *)
Strict(c, id, o, l, r) ==
  LET f == Fresh(c, 1)
  IN  EmitAll(SetOutput(f.c, id, f.o), <<Ins("neq", f.o[1], <<l, r>>), Ins("and", o, <<o, f.o[1]>>)>>)

(* The comparison under a condbr or a zext, with a constant ...            *)
CompareImm(c, id, o, l) ==
  LET cond == Inst(id).cond
      k    == I(Inst(id).r[2])
  IN  CASE cond = "eq" -> Emit(c, Ins("eq", o, <<l, k>>))
        [] cond = "ne" -> Emit(c, Ins("neq", o, <<l, k>>))
        [] cond = "ge" -> Emit(c, Ins("gte", o, <<l, k>>))
        [] cond = "le" -> EmitAll(c, <<Ins("mov", R(7), <<k>>), Ins("gte", o, <<R(7), l>>)>>)
        [] cond = "lt" -> Strict(EmitAll(c, <<Ins("mov", o, <<k>>), Ins("gte", o, <<o, l>>)>>), id, o, l, k)
        [] cond = "gt" -> Strict(Emit(c, Ins("gte", o, <<l, k>>)), id, o, l, k)

(* ... and with a register.  Signed and unsigned conditions are the same.  *)
CompareReg(c, id, o, l, r) ==
  LET cond == Inst(id).cond
  IN  CASE cond = "eq" -> Emit(c, Ins("eq", o, <<l, r>>))
        [] cond = "ne" -> Emit(c, Ins("neq", o, <<l, r>>))
        [] cond = "ge" -> Emit(c, Ins("gte", o, <<l, r>>))
        [] cond = "le" -> Emit(c, Ins("gte", o, <<r, l>>))
        [] cond = "gt" -> Strict(Emit(c, Ins("gte", o, <<l, r>>)), id, o, l, r)
        [] cond = "lt" -> Strict(Emit(c, Ins("gte", o, <<r, l>>)), id, o, l, r)

Compare(c, id) ==
  LET v == Inst(id).r
  IN  Then(VRegFor(c, Inst(id).l), LAMBDA c1, l :
      Then(EmptyOutput(c1, id), LAMBDA c2, d :
        [c |-> IF v[1] = "int" THEN CompareImm(c2, id, d[1], l)
               ELSE Then(OperandFor(c2, v), LAMBDA c3, r : CompareReg(c3, id, d[1], l, r)),
         o |-> d[1]]))

IsInst(v, op) == v[1] = "inst" /\ Inst(v[2]).op = op

LowerZext(c, id) ==
  LET v == Inst(id).arg
  IN  IF IsInst(v, "icmp")
      THEN Then(Compare(c, v[2]), LAMBDA c1, r :
           Then(EmptyOutput(c1, id), LAMBDA c2, d : Emit(c2, Ins("mov", d[1], <<r>>))))
      ELSE Fail(c)

LowerBr(c, id) == Emit(c, Jump("jmp", <<>>, Inst(id).to))

(* A condition is a comparison or a cast of a word.                        *)
Condition(c, v) ==
  IF IsInst(v, "icmp") THEN Compare(c, v[2])
  ELSE Then(VRegFor(c, Inst(v[2]).arg), LAMBDA c1, x :
       Then(EmptyOutput(c1, v[2]), LAMBDA c2, d : [c |-> Emit(c2, Ins("mov", d[1], <<x>>)), o |-> d[1]]))

LowerCondBr(c, id) ==
  LET i == Inst(id)
  IN  IF \E op \in {"icmp", "trunc", "zext", "itp"} : IsInst(i.arg, op)
      THEN Then(Condition(c, i.arg), LAMBDA c1, r :
             EmitAll(c1, <<Jump("cjmp", <<r>>, i.to[1]), Jump("jmp", <<>>, i.to[2])>>))
      ELSE Fail(c)

LowerSwitch(c, id) ==
  LET i == Inst(id)
  IN  Then(OperandFor(c, i.arg), LAMBDA c1, s :
        Emit(EmitAll(c1, FlattenSeq([j \in DOMAIN i.cases |->
               <<Ins("eq", R(8), <<s, I(i.cases[j])>>), Jump("cjmp", <<R(8)>>, i.to[j])>>])),
             Jump("jmp", <<>>, i.default)))

(* The first use of an alloca reserves its slot; as an operand it is the   *)
(* address, computed once for the function.                                *)
LowerAlloca(c, id) ==
  LET f == Fresh(c, 1)
  IN  IF id \in DOMAIN c.slot
      THEN SetOutput(Emit(f.c, [op |-> "slotaddr", d |-> f.o[1], s |-> <<>>, slot |-> c.slot[id]]), id, f.o)
      ELSE [c EXCEPT !.slots = Append(@, [size |-> 4 * Inst(id).w, align |-> 4]),
                     !.slot  = (id :> Len(c.slots) + 1) @@ @]

LowerPhi(c, id) ==
  LET i == Inst(id)
  IN  Then(EmptyOutput(c, id), LAMBDA c1, d :
      Then(OperandList(c1, i.args, {}), LAMBDA c2, vs :
        Emit(c2, [op |-> "phi", d |-> d[1], s |-> vs, from |-> i.from])))

HasSlot(c, v) == v[1] = "inst" /\ v[2] \in DOMAIN c.slot
SlotOf(c, v) == IF HasSlot(c, v) THEN c.slot[v[2]] ELSE 0

(* The base of a getelementptr: a slot, or a register.                     *)
GepBase(c, v) == IF HasSlot(c, v) THEN [c |-> c, o |-> None] ELSE OperandFor(c, v)

(* The memory operand of a load through a getelementptr.  A single         *)
(* constant index counts in elements of the base type unless the base is   *)
(* an argument; the last of two counts in words; a register is added.      *)
LoadGepMem(c, g) ==
  LET n == Len(g.idx)
      k == g.idx[n][2]
      m(imm, b, x) == Mem(SlotOf(c, g.base), "i32", imm, b, x)
  IN  Then(GepBase(c, g.base), LAMBDA c1, b :
        IF g.idx[n][1] # "int"
        THEN Then(OperandFor(c1, g.idx[n]), LAMBDA c2, x : [c |-> c2, o |-> m(0, b, x)])
        ELSE [c |-> c1, o |-> m(CASE n = 1 /\ g.base[1] = "arg" -> k
                                  [] n = 1 /\ g.base[1] # "arg" -> k * g.words
                                  [] n = 2 -> g.idx[1][2] * g.words + k, b, None)])

(* The same for a store; a variable index behind a constant one is refused *)
(* because the parser makes every i64 an i32, and a constant index from an *)
(* argument is not among the patterns.                                     *)
StoreGepMem(c, g) ==
  LET n == Len(g.idx)
      var == g.idx[n][1] # "int"
      sgn == IF HasSlot(c, g.base) THEN -1 ELSE 1
      imm == IF n = 1 THEN sgn * g.idx[1][2] * g.words
             ELSE (-sgn) * g.idx[1][2] * 4 * g.words + sgn * g.idx[2][2]
      bad == (var /\ n = 2) \/ (~var /\ g.base[1] = "arg")
  IN  Then(IF var /\ n = 1 THEN OperandFor(c, g.idx[1]) ELSE [c |-> c, o |-> None], LAMBDA c1, x :
      Then(GepBase(c1, g.base), LAMBDA c2, b :
        [c |-> IF bad THEN Fail(c2) ELSE c2,
         o |-> Mem(SlotOf(c, g.base), IF var THEN "none" ELSE "i32", IF var THEN 0 ELSE imm, b, x)]))

(* A getelementptr as a value: base plus the one index that is not zero.   *)
LowerGep(c, id) ==
  LET g == Inst(id)
  IN  Then(GepBase(c, g.base), LAMBDA c1, b :
      Then(OperandList(c1, g.idx, {}), LAMBDA c2, xs :
      Then(EmptyOutput(c2, id), LAMBDA c3, d :
        Emit(c3, Ins("add", d[1], <<b, FoldLeft(LAMBDA a, x : IF x = I(0) THEN a ELSE x, I(0), xs)>>)))))

(* A register that points to heap_address.                                 *)
HeapAddress(c) == InFresh(c, I(HeapPtr))

(* The outputs of a load or a call of w words.                             *)
OutputsOf(c, id, w) == IF w > 1 THEN EmptyOutputs(c, id, w) ELSE EmptyOutput(c, id)

LowerLoad(c, id) ==
  LET i == Inst(id)
      slot == SlotOf(c, i.arg)
      word(b, a) == Mem(slot, a.kind, a.imm, b, None)
  IN  IF slot = 0 /\ IsInst(i.arg, "gep")
      THEN Then(LoadGepMem(c, Inst(i.arg[2])), LAMBDA c1, m :
           Then(EmptyOutput(c1, id), LAMBDA c2, d : Emit(c2, MemIns("mload", d[1], <<>>, m))))
      ELSE Then(IF i.arg = <<"heap">> THEN HeapAddress(c) ELSE GepBase(c, i.arg), LAMBDA c1, b :
           Then(OutputsOf(c1, id, i.w), LAMBDA c2, d :
             EmitAll(c2, [j \in 1 .. i.w |-> MemIns("mload", d[j], <<>>, word(b, LoadImm(i.w, j - 1)))])))

(* The words a store writes; the address of an alloca is computed anew.    *)
StoreSource(c, i) ==
  LET f == Fresh(c, i.w)
      movs(ks) == [c |-> EmitAll(f.c, [j \in 1 .. i.w |-> Ins("mov", f.o[j], <<I(ks[j])>>)]), o |-> f.o]
  IN  CASE i.src[1] = "int" -> movs(<<i.src[2]>>)
        [] i.src[1] = "agg" -> movs(i.src[2])
        [] i.src[1] = "arg" -> [c |-> c, o |-> c.args[i.src[2]]]
        [] IsInst(i.src, "alloca") ->
             [c |-> Emit(f.c, [op |-> "slotaddr", d |-> f.o[1], s |-> <<>>, slot |-> c.slot[i.src[2]]]), o |-> f.o]
        [] OTHER -> InstOutput(c, i.src[2])

LowerStore(c, id) ==
  LET i == Inst(id)
      slot == SlotOf(c, i.dst)
      word(v, a) == MemIns("mstore", None, <<v[a.word]>>, Mem(slot, a.kind, a.imm, None, None))
      to(b) == Mem(0, "none", 0, b, None)
  IN  CASE slot # 0 ->
             Then(StoreSource(c, i), LAMBDA c1, v :
               EmitAll(c1, [j \in 1 .. i.w |-> word(v, StoreImm(i.w, j - 1))]))
        [] slot = 0 /\ i.dst = <<"heap">> ->
             Then(StoreSource(c, i), LAMBDA c1, v :
             Then(HeapAddress(c1), LAMBDA c2, h : Emit(c2, MemIns("mstore", None, <<v[1]>>, to(h)))))
        [] OTHER ->
             Then(IF IsInst(i.dst, "gep") THEN StoreGepMem(c, Inst(i.dst[2]))
                  ELSE Then(OperandFor(c, i.dst), LAMBDA c1, b : [c |-> c1, o |-> to(b)]), LAMBDA c2, m :
             Then(StoreSource(c2, i), LAMBDA c3, v : Emit(c3, MemIns("mstore", None, <<v[1]>>, m))))

LowerInsert(c, id) ==
  LET i == Inst(id)
  IN  Then(OperandsFor(c, i.agg, i.w), LAMBDA c1, a :
      Then(OperandFor(c1, i.arg), LAMBDA c2, x :
      Then(EmptyOutputs(c2, id, i.w), LAMBDA c3, d :
        EmitAll(c3, [j \in 1 .. i.w |-> Ins("mov", d[j], <<IF j = i.k + 1 THEN x ELSE a[j]>>)]))))

LowerExtract(c, id) ==
  LET i == Inst(id)
  IN  Then(OperandsFor(c, i.agg, i.w), LAMBDA c1, a :
      Then(EmptyOutput(c1, id), LAMBDA c2, d : Emit(c2, Ins("mov", d[1], <<a[i.k + 1]>>))))

(* Mutant: one register too few.                                           *)
NumArgRegsFive == 5

NumArgRegs == 6

(* pass_args_to_regs: the last argument first, r1 to r6.                   *)
PassArgs(c, args) ==
  FoldLeft(LAMBDA a, j : IF j > NumArgRegs THEN Fail(a)
                         ELSE Then(OperandFor(a, args[j]), LAMBDA c1, x : Emit(c1, Ins("mov", R(j), <<x>>))),
           c, Reverse([j \in DOMAIN args |-> j]))

(* The machine instruction of a builtin; its operands that must be         *)
(* registers.                                                              *)
BuiltinOp ==
  [builtin_assert |-> "assert", builtin_range_check |-> "range", builtin_check_ecdsa |-> "sigcheck",
   contract_call |-> "sccall", get_storage |-> "sload", set_storage |-> "sstore", poseidon_hash |-> "poseidon",
   get_context_data |-> "tload", get_tape_data |-> "tload", set_tape_data |-> "tstore"]
Builtins == DOMAIN BuiltinOp
InRegs(name) ==
  CASE name \in {"builtin_assert", "builtin_range_check", "builtin_check_ecdsa"} -> {}
    [] name = "poseidon_hash" -> {1, 2}
    [] OTHER -> {1}

LowerBuiltin(c, id) ==
  LET i == Inst(id)
      op == BuiltinOp[i.name]
      list(cc) == OperandList(cc, i.args, InRegs(i.name))
  IN  IF op = "tload"
      THEN Then(InFresh(c, I(IF i.name = "get_tape_data" THEN 1 ELSE 0)), LAMBDA c1, f :
           Then(list(c1), LAMBDA c2, o : Emit(c2, Ins(op, None, <<o[1], f, o[2]>>))))
      ELSE Then(list(c), LAMBDA c1, o :
             CASE op = "sigcheck" -> Then(EmptyOutput(c1, id), LAMBDA c2, d : Emit(c2, Ins(op, d[1], o)))
               [] op = "poseidon" -> Emit(c1, Ins(op, None, <<o[2], o[1], o[3]>>))
               [] OTHER           -> Emit(c1, Ins(op, None, o)))

(* A call or a prophet: arguments, call, and copies of r0.. if the result  *)
(* has users.                                                              *)
LowerCall(c, id) ==
  LET i == Inst(id)
      call == [op |-> IF i.prophet THEN "prophet" ELSE "call", d |-> None, s |-> <<>>,
               name |-> i.name, arity |-> Len(i.args), w |-> i.w]
  IN  IF i.name \in Builtins THEN LowerBuiltin(c, id)
      ELSE Then(OutputsOf(PassArgs(c, i.args), id, i.w), LAMBDA c1, d :
             EmitAll(c1, <<call>> \o IF UsersOf(id) = {} THEN <<>>
                                      ELSE [j \in 1 .. i.w |-> Ins("mov", d[j], <<R(j - 1)>>)]))

LowerReturn(c, id) ==
  LET i == Inst(id)
      ret == [op |-> "ret", d |-> None, s |-> <<>>, w |-> i.w]
      put(c1, vs) == EmitAll(c1, [j \in 1 .. i.w |-> Ins("mov", R(j - 1), <<vs[j]>>)] \o <<ret>>)
  IN  CASE i.w = 0 -> Emit(c, ret)
        [] i.w = 1 -> Then(VRegFor(c, i.arg), LAMBDA c1, v : put(c1, <<v>>))
        [] i.w > 1 -> Then(OperandsFor(c, i.arg, i.w), put)

(* lower: a comparison or a truncation has no code of its own.             *)
Lower(c, id) ==
  LET op == Inst(id).op
  IN  CASE op = "alloca"   -> LowerAlloca(c, id)
        [] op = "phi"      -> LowerPhi(c, id)
        [] op = "load"     -> LowerLoad(c, id)
        [] op = "store"    -> LowerStore(c, id)
        [] op = "gep"      -> LowerGep(c, id)
        [] op = "insertv"  -> LowerInsert(c, id)
        [] op = "extractv" -> LowerExtract(c, id)
        [] op = "bin"      -> LowerBin(c, id)
        [] op = "itp"      -> LowerItp(c, id)
        [] op = "zext"     -> LowerZext(c, id)
        [] op = "br"       -> LowerBr(c, id)
        [] op = "condbr"   -> LowerCondBr(c, id)
        [] op = "switch"   -> LowerSwitch(c, id)
        [] op = "call"     -> LowerCall(c, id)
        [] op = "ret"      -> LowerReturn(c, id)
        [] op \in {"icmp", "trunc"} -> Fail(c)

-----------------------------------------------------------------------------
(* compile_function.                                                       *)

(* copy_args_to_vregs: parameters of one word or more, from r1 on.         *)
CopyArgs(c, params) ==
  FoldLeft(LAMBDA a, w :
             LET used == FoldLeft(LAMBDA n, vs : n + Len(vs), 0, a.args)
                 f    == Fresh(a, w)
                 e    == [EmitAll(f.c, [j \in 1 .. w |-> Ins("mov", f.o[j], <<R(used + j)>>)])
                            EXCEPT !.args = Append(@, f.o)]
             IN  IF used + w > NumArgRegs THEN Fail(e) ELSE e,
           c, params)

Init ==
  /\ fn \in Functions
  /\ ctx = NewContext
  /\ code = <<>>
  /\ at = [b |-> 1, phase |-> "enter", k |-> 1]

Block == fn.blocks[at.b]
Done == at.b > Len(fn.blocks) \/ ctx.err

EnterBlock ==
  /\ ~Done /\ at.phase = "enter"
  /\ LET c == [ctx EXCEPT !.code = <<>>, !.cur = at.b]
     IN  ctx' = IF at.b = 1 THEN CopyArgs(c, fn.params) ELSE c
  /\ at' = [at EXCEPT !.phase = "early", !.k = 1]
  /\ UNCHANGED <<fn, code>>

Early(k) == k <= Len(Block) /\ Inst(Block[k]).op \in {"alloca", "phi"}

(* The allocas and phis at the head of the block.                          *)
LowerEarly ==
  /\ ~Done /\ at.phase = "early" /\ Early(at.k)
  /\ ctx' = Lower(ctx, Block[at.k])
  /\ at' = [at EXCEPT !.k = @ + 1]
  /\ UNCHANGED <<fn, code>>

EndEarly ==
  /\ ~Done /\ at.phase = "early" /\ ~Early(at.k)
  /\ at' = [at EXCEPT !.phase = "main", !.k = 1]
  /\ UNCHANGED <<fn, ctx, code>>

(* Lowered later, where it is used.                                        *)
Deferred(id) ==
  \/ Inst(id).op \in {"alloca", "phi"}
  \/ ~HasSideEffects(id) /\ \A u \in UsersOf(id) : BlockOf(u) = at.b

SkipInst ==
  /\ ~Done /\ at.phase = "main" /\ at.k <= Len(Block) /\ Deferred(Block[at.k])
  /\ at' = [at EXCEPT !.k = @ + 1]
  /\ UNCHANGED <<fn, ctx, code>>

LowerInst ==
  /\ ~Done /\ at.phase = "main" /\ at.k <= Len(Block) /\ ~Deferred(Block[at.k])
  /\ ctx' = Lower(ctx, Block[at.k])
  /\ at' = [at EXCEPT !.k = @ + 1]
  /\ UNCHANGED <<fn, code>>

EndBlock ==
  /\ ~Done /\ at.phase = "main" /\ at.k > Len(Block)
  /\ code' = Append(code, ctx.code)
  /\ at' = [b |-> at.b + 1, phase |-> "enter", k |-> 1]
  /\ UNCHANGED <<fn, ctx>>

Next == EnterBlock \/ LowerEarly \/ EndEarly \/ SkipInst \/ LowerInst \/ EndBlock

Spec == Init /\ [][Next]_vars

-----------------------------------------------------------------------------
(* What the function means: the reference the machine code is held to.     *)

Frame == [slots |-> ctx.slots,
          call  |-> \E b \in DOMAIN code : \E k \in DOMAIN code[b] : code[b][k].op = "call"]

IRAddr(id) == SlotAddress(ctx.slot[id], Frame)

(* The words of a value.                                                   *)
Meaning(st, args, v) ==
  CASE v[1] = "int"  -> <<Word(v[2])>>
    [] v[1] = "null" -> <<0>>
    [] v[1] = "agg"  -> [j \in DOMAIN v[2] |-> Word(v[2][j])]
    [] v[1] = "arg"  -> args[v[2]]
    [] v[1] = "heap" -> <<HeapPtr>>
    [] IsInst(v, "alloca") -> <<IRAddr(v[2])>>
    [] v[1] = "inst" /\ ~IsInst(v, "alloca") -> IF v[2] \in DOMAIN st.env THEN st.env[v[2]] ELSE <<Undef>>

Holds(cond, x, y) ==
  CASE cond = "eq" -> x = y [] cond = "ne" -> x # y [] cond = "ge" -> x >= y
    [] cond = "le" -> x <= y [] cond = "gt" -> x > y [] cond = "lt" -> x < y

EventOf(name, a) ==
  CASE name = "builtin_assert"      -> <<"assert", a>>
    [] name = "builtin_range_check" -> <<"range", a>>
    [] name = "builtin_check_ecdsa" -> <<"sigcheck", a>>
    [] name = "contract_call"       -> <<"sccall", a>>
    [] name = "get_storage"         -> <<"sload", a>>
    [] name = "set_storage"         -> <<"sstore", a>>
    [] name = "poseidon_hash"       -> <<"poseidon", <<a[2], a[1], a[3]>>>>
    [] name = "get_context_data"    -> <<"tload", <<a[1], 0, a[2]>>>>
    [] name = "get_tape_data"       -> <<"tload", <<a[1], 1, a[2]>>>>
    [] name = "set_tape_data"       -> <<"tstore", a>>

(* One IR instruction; memory holds values, whole, at their addresses.     *)
Interpret(st, id, args) ==
  LET i == Inst(id)
      m(v) == Meaning(st, args, v)
      w(v) == m(v)[1]
      give(ws) == Advance([st EXCEPT !.env = (id :> ws) @@ @])
      all == [j \in DOMAIN i.args |-> w(i.args[j])]
      res == Result(all, i.w)
  IN
  CASE i.op = "alloca" -> Advance(st)
    [] i.op = "phi" -> LET j == CHOOSE j \in DOMAIN i.from : i.from[j] = st.prev
                       IN  give(Meaning([st EXCEPT !.env = st.entry], args, i.args[j]))
    [] i.op = "bin" -> give(<<IF i.bop = "sub" THEN (w(i.l) - w(i.r)) % P ELSE Apply(i.bop, w(i.l), w(i.r))>>)
    [] i.op \in {"itp", "zext", "trunc"} -> give(m(i.arg))
    [] i.op = "icmp" -> give(<<IF Holds(i.cond, w(i.l), w(i.r)) THEN 1 ELSE 0>>)
    [] i.op = "gep" -> give(<<FoldLeft(LAMBDA a, v : (a + w(v)) % P, w(i.base), i.idx)>>)
    [] i.op = "load" -> give(IF w(i.arg) \in DOMAIN st.mem THEN st.mem[w(i.arg)] ELSE <<Read(<<>>, w(i.arg))>>)
    [] i.op = "store" ->
         LET s == [st EXCEPT !.mem = (w(i.dst) :> m(i.src)) @@ @]
         IN  Advance(IF w(i.dst) < FrameBase THEN Event(s, <<"mstore", w(i.dst), w(i.src)>>) ELSE s)
    [] i.op = "insertv" -> give([m(i.agg) EXCEPT ![i.k + 1] = w(i.arg)])
    [] i.op = "extractv" -> give(<<m(i.agg)[i.k + 1]>>)
    [] i.op = "br" -> Enter(st, i.to)
    [] i.op = "condbr" -> Enter(st, IF w(i.arg) # 0 THEN i.to[1] ELSE i.to[2])
    [] i.op = "switch" ->
         LET hit == {j \in DOMAIN i.cases : i.cases[j] = w(i.arg)}
         IN  Enter(st, IF hit = {} THEN i.default ELSE i.to[CHOOSE j \in hit : TRUE])
    [] i.op = "call" /\ i.name \in Builtins ->
         [Event(st, EventOf(i.name, all)) EXCEPT !.env = (id :> Result(all, 1)) @@ @, !.k = @ + 1]
    [] i.op = "call" /\ i.name \notin Builtins ->
         [Event(st, <<IF i.prophet THEN "prophet" ELSE "call", i.name, all>>)
            EXCEPT !.env = (id :> res) @@ @, !.k = @ + 1]
    [] i.op = "ret" -> [st EXCEPT !.halted = TRUE, !.ret = IF i.w = 0 THEN <<>> ELSE m(i.arg)]

RECURSIVE RunIR(_, _, _)
RunIR(st, args, fuel) ==
  IF st.halted \/ fuel = 0 THEN st
  ELSE RunIR(Interpret(st, fn.blocks[st.b][st.k], args), args, fuel - 1)

(* Parameter words in the registers a caller passes them in.               *)
ArgRegs(words) == [o \in {R(j) : j \in DOMAIN words} |-> words[o[2]]]
ArgValues(words) ==
  LET before(j) == FoldLeft(LAMBDA n, w : n + w, 0, SubSeq(fn.params, 1, j - 1))
  IN  [j \in DOMAIN fn.params |-> SubSeq(words, before(j) + 1, before(j) + fn.params[j])]
NumWords == FoldLeft(LAMBDA n, w : n + w, 0, fn.params)

(* The machine code does what the function says, for all parameters: the   *)
(* same stores, calls and builtins with the same words in the same order,  *)
(* and the same result.  Nothing is lost by lowering an instruction where  *)
(* it is used, or by sharing the register of a value between its uses.     *)
SameMeaning ==
  (Done /\ ~ctx.err) =>
    \A words \in [1 .. NumWords -> Inputs] :
      Observed(RunMachine(code, Start(ArgRegs(words)), Frame, Fuel))
        = Observed(RunIR(Start(<<>>), ArgValues(words), Fuel))

(* Seven words of parameters have no register, and a store to an element   *)
(* of a fixed array with a variable index fails an assertion.              *)
Refused ==
  \/ NumWords > 6
  \/ \E id \in DOMAIN fn.insts :
       /\ Inst(id).op = "store" /\ IsInst(Inst(id).dst, "gep")
       /\ LET idx == Inst(Inst(id).dst[2]).idx IN Len(idx) = 2 /\ idx[2][1] # "int"

(* Every function the front end generates is lowered, but for these two.   *)
Lowers == Done => (ctx.err <=> Refused)
=============================================================================
