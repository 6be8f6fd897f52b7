----------------------------- MODULE OlaMachine -----------------------------
(* The machine the back end writes code for, as far as the passes rely on  *)
(* it: words of a prime field, registers, a memory, and instructions       *)
(* [op, d, s, m, to] with a destination, sources, a memory operand and     *)
(* jump targets.  An operand is <<"v", n>> (virtual register), <<"r", n>>  *)
(* (register) or <<"i", k>> (immediate).  What the outside sees of a run   *)
(* is the sequence of its events: stores outside the frame, calls and      *)
(* builtins with their arguments, and the returned words.                  *)
EXTENDS FrameOps, SequencesExt, Bitwise, TLC

P == 97            \* stands for 2^64 - 2^32 + 1
Undef == P         \* a word no instruction has written
FrameBase == 60    \* addresses from here on belong to the frame
FP == 80           \* r9
HeapPtr == 7       \* the word that holds heap_address

V(n) == <<"v", n>>
R(n) == <<"r", n>>
I(k) == <<"i", k>>
None == <<"none">>

Ins(op, d, s) == [op |-> op, d |-> d, s |-> s]
MemIns(op, d, s, m) == [op |-> op, d |-> d, s |-> s, m |-> m]
Jump(op, s, b) == [op |-> op, d |-> None, s |-> s, to |-> b]

Mem(slot, kind, imm, base, idx) ==
  [slot |-> slot, kind |-> kind, imm |-> imm, base |-> base, idx |-> idx]

Word(k) == k % P

(* Field and bit operations; an unwritten word spoils the result.          *)
Apply(op, x, y) ==
  CASE x = Undef \/ y = Undef -> Undef
    [] op = "add" -> (x + y) % P
    [] op = "mul" -> (x * y) % P
    [] op = "and" -> x & y
    [] op = "or"  -> (x | y) % P
    [] op = "xor" -> (x ^^ y) % P
    [] op = "eq"  -> IF x = y THEN 1 ELSE 0
    [] op = "neq" -> IF x # y THEN 1 ELSE 0
    [] op = "gte" -> IF x >= y THEN 1 ELSE 0

(* What a callee returns, one word or several: some function of its name   *)
(* and arguments.                                                          *)
Result(args, w) ==
  [i \in 1 .. w |-> IF \E j \in DOMAIN args : args[j] = Undef THEN Undef
                    ELSE FoldLeft(LAMBDA a, x : (5 * a + x + i) % P, 3, args)]

Fetch(env, o) ==
  CASE o[1] = "i" -> Word(o[2])
    [] o = R(9)   -> FP
    [] OTHER      -> IF o \in DOMAIN env THEN env[o] ELSE Undef

(* Words of the heap nobody has written hold something.                    *)
Read(mem, a) ==
  CASE a = Undef        -> Undef
    [] a \in DOMAIN mem -> mem[a]
    [] a < FrameBase    -> (3 * a + 1) % P
    [] OTHER            -> Undef

(* A memory operand, after the slots have been replaced (eliminate_slot)   *)
(* in a frame [slots, call].                                               *)
Address(env, m, frame) ==
  IF m.slot # 0
  THEN FP + MemImm(ComputedOffsets(WithCallSlots(frame.slots, frame.call))[m.slot].offset,
                   m.kind, m.imm, frame.call)
  ELSE Apply("add", Fetch(env, m.base),
             IF m.idx # None THEN Fetch(env, m.idx) ELSE Word(m.imm))

SlotAddress(slot, frame) ==
  FP + AddrImm(ComputedOffsets(WithCallSlots(frame.slots, frame.call))[slot].offset, frame.call)

Event(st, e) == [st EXCEPT !.trace = Append(@, e)]
Advance(st) == [st EXCEPT !.k = @ + 1]
Set(st, d, x) == [st EXCEPT !.env = (d :> x) @@ @]
Enter(st, b) == [st EXCEPT !.b = b, !.k = 1, !.prev = st.b, !.entry = st.env]
Write(st, a, x) ==
  LET s == [st EXCEPT !.mem = (a :> x) @@ @]
  IN  IF a < FrameBase THEN Event(s, <<"mstore", a, x>>) ELSE s

Arith == {"add", "mul", "and", "or", "xor", "eq", "neq", "gte"}
Effects == {"assert", "range", "sccall", "sload", "sstore", "poseidon", "tload", "tstore"}

(* One instruction.  A phi reads the registers as the block was entered.   *)
Execute(st, i, frame) ==
  LET src(j) == Fetch(st.env, i.s[j])
  IN
  CASE i.op = "mov" -> Advance(Set(st, i.d, src(1)))
    [] i.op = "slotaddr" -> Advance(Set(st, i.d, SlotAddress(i.slot, frame)))
    [] i.op = "not" -> Advance(Set(st, i.d, IF src(1) = Undef THEN Undef ELSE P - 1 - src(1)))
    [] i.op \in Arith -> Advance(Set(st, i.d, Apply(i.op, src(1), src(2))))
    [] i.op = "mload" -> Advance(Set(st, i.d, Read(st.mem, Address(st.env, i.m, frame))))
    [] i.op = "mstore" -> Advance(Write(st, Address(st.env, i.m, frame), src(1)))
    [] i.op = "jmp" -> Enter(st, i.to)
    [] i.op = "cjmp" -> IF src(1) = 0 THEN Advance(st) ELSE Enter(st, i.to)
    [] i.op = "ret" -> [st EXCEPT !.halted = TRUE, !.ret = [j \in 1 .. i.w |-> Fetch(st.env, R(j - 1))]]
    [] i.op \in Effects -> Advance(Event(st, <<i.op, [j \in DOMAIN i.s |-> src(j)]>>))
    [] i.op = "sigcheck" ->
         Advance(Event(Set(st, i.d, Result(<<src(1)>>, 1)[1]), <<i.op, <<src(1)>>>>))
    [] i.op \in {"call", "prophet"} ->
         LET args == [j \in 1 .. i.arity |-> Fetch(st.env, R(j))]
             res  == Result(args, i.w)
         IN  Advance(Event([st EXCEPT !.env = [o \in {R(j - 1) : j \in 1 .. i.w} |-> res[o[2] + 1]] @@ @],
                           <<i.op, i.name, args>>))
    [] i.op = "phi" ->
         LET j == CHOOSE j \in DOMAIN i.from : i.from[j] = st.prev
         IN  Advance(Set(st, i.d, Fetch(st.entry, i.s[j])))

Start(env) == [env |-> env, mem |-> <<>>, trace |-> <<>>, b |-> 1, k |-> 1, prev |-> 0,
               entry |-> env, halted |-> FALSE, ret |-> <<>>]

(* Runs at most `fuel' instructions of the blocks `code'; the end of a     *)
(* block falls through to the next one.                                    *)
RECURSIVE RunMachine(_, _, _, _)
RunMachine(code, st, frame, fuel) ==
  CASE st.halted \/ fuel = 0 \/ st.b > Len(code) -> st
    [] ~st.halted /\ fuel > 0 /\ st.b <= Len(code) ->
         RunMachine(code,
                    IF st.k > Len(code[st.b]) THEN Enter(st, st.b + 1)
                    ELSE Execute(st, code[st.b][st.k], frame),
                    frame, fuel - 1)

Observed(st) == [trace |-> st.trace, ret |-> st.ret, halted |-> st.halted]
=============================================================================
