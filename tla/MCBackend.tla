----------------------------- MODULE MCBackend -----------------------------
(***************************************************************************)
(* The back end around the register allocator: instruction selection, the  *)
(* passes after allocation, and the frames the generated functions set up  *)
(* when they call each other.  Each takes functions of a form of its own,  *)
(* so a behaviour is a behaviour of one of them, named by part; the        *)
(* variables of the others are idle.  Init, Next, SlotsKept and            *)
(* ReturnsHome are those of the frames.                                    *)
(***************************************************************************)
EXTENDS OlaMachine, Frame

CONSTANTS Parts, Functions, Inputs, Fuel, Allocated, LateInputs

ASSUME BackendAssumption ==
  Fuel \in Nat /\ MaxDepth \in Nat \ {0}

VARIABLES part,
          fn, code,                  \* selection and late passes
          ctx, at,                   \* selection
          copies, stage              \* late passes

Sel == INSTANCE Lowering
Late == INSTANCE LatePasses WITH Inputs <- LateInputs

ASSUME FrameAssumption == CodeOK

backendVars == <<part, fn, code, ctx, at, copies, stage, vars>>

BackendInit ==
  /\ part \in Parts /\ Init
  /\ \/ part = "select" /\ Sel!Init /\ copies = 0 /\ stage = "idle"
     \/ part = "late" /\ Late!Init /\ ctx = 0 /\ at = 0
     \/ part = "frames" /\ fn = 0 /\ code = 0 /\ ctx = 0 /\ at = 0
        /\ copies = 0 /\ stage = "idle"

Select == part = "select" /\ Sel!Next /\ UNCHANGED <<part, copies, stage, vars>>
LatePass == part = "late" /\ Late!Next /\ UNCHANGED <<part, ctx, at, vars>>
RunFrames == part = "frames" /\ Next
             /\ UNCHANGED <<part, fn, code, ctx, at, copies, stage>>

BackendNext == Select \/ LatePass \/ RunFrames
BackendSpec == BackendInit /\ [][BackendNext]_backendVars

-----------------------------------------------------------------------------
(* IR functions of the shapes irgen emits.                                 *)
N(k) == <<"inst", k>>
A(k) == <<"arg", k>>
K(k) == <<"int", k>>

Bin(op, l, r) == [op |-> "bin", bop |-> op, l |-> l, r |-> r]
ICmp(c, l, r) == [op |-> "icmp", cond |-> c, l |-> l, r |-> r]
Cast(op, v)   == [op |-> op, arg |-> v]
Load(v, w)    == [op |-> "load", arg |-> v, w |-> w]
StoreI(v, p, w) == [op |-> "store", src |-> v, dst |-> p, w |-> w]
Gep(b, idx, w) == [op |-> "gep", base |-> b, idx |-> idx, words |-> w]
Alloca(w)     == [op |-> "alloca", w |-> w]
CallI(n, as, w) == [op |-> "call", name |-> n, args |-> as, w |-> w, prophet |-> n = "prophet_u32_div"]
Br(b)         == [op |-> "br", to |-> b]
CondBr(v, b, c) == [op |-> "condbr", arg |-> v, to |-> <<b, c>>]
Ret(v, w)     == [op |-> "ret", arg |-> v, w |-> w]
Ret0          == [op |-> "ret", arg |-> <<"void">>, w |-> 0]
Phi(as, bs)   == [op |-> "phi", args |-> as, from |-> bs]

F(params, insts, blocks) == [params |-> params, insts |-> insts, blocks |-> blocks]
Line(params, insts) == F(params, insts, <<[k \in 1 .. Len(insts) |-> k]>>)

Conds == {"eq", "ne", "ge", "le", "gt", "lt"}
Rhs == {K(1), A(2)}

(* Arithmetic, in its block and across one.                                *)
Arithmetic ==
  {Line(<<1, 1>>, <<Bin(op, A(1), r), Bin("mul", N(1), N(1)), Ret(N(2), 1)>>) :
     op \in {"add", "sub", "mul", "and", "or", "xor"}, r \in Rhs}
  \cup {F(<<1, 1>>, <<Bin("sub", A(1), r), Bin("add", N(1), K(2)), Br(2), Bin("sub", N(2), N(1)), Ret(N(4), 1)>>,
          <<<<1, 2, 3>>, <<4, 5>>>>) : r \in Rhs}

(* A comparison branched on, turned into a word, or both.                  *)
Comparisons ==
  {F(<<1, 1>>, <<ICmp(c, A(1), r), CondBr(N(1), 2, 3), Ret(K(5), 1), Ret(A(1), 1)>>,
     <<<<1, 2>>, <<3>>, <<4>>>>) : c \in Conds, r \in Rhs}
  \cup
  {F(<<1, 1>>, <<ICmp(c, A(1), r), Cast("zext", N(1)), CallI("builtin_assert", <<N(2)>>, 0), CondBr(N(1), 2, 3),
                 Ret(N(2), 1), Bin("add", N(2), K(7)), Ret(N(6), 1)>>,
     <<<<1, 2, 3, 4>>, <<5>>, <<6, 7>>>>) : c \in Conds, r \in Rhs}
  \cup
  {F(<<1, 1>>, <<Cast("trunc", A(1)), CondBr(N(1), 2, 3), Ret(K(5), 1), Ret(A(2), 1)>>, <<<<1, 2>>, <<3>>, <<4>>>>),
   F(<<1, 1>>, <<[op |-> "switch", arg |-> A(1), cases |-> <<2, 0>>, to |-> <<2, 3>>, default |-> 4],
                 Ret(K(11), 1), Ret(K(12), 1), Ret(A(2), 1)>>, <<<<1>>, <<2>>, <<3>>, <<4>>>>)}

(* Variables in slots; a value loaded before a store and used after it.    *)
Variables ==
  {Line(<<1, 1>>, <<Alloca(1), Alloca(1), StoreI(A(1), N(1), 1), StoreI(A(2), N(2), 1), Load(N(1), 1), StoreI(v, N(1), 1),
                    Load(N(1), 1), Bin("sub", N(5), N(7)), Ret(N(8), 1)>>) : v \in {K(4), A(2), N(5)}}
  \cup {Line(<<1, 1>>, <<Alloca(4), Alloca(1), StoreI(<<"agg", <<4, 5, 6, 7>>>>, N(1), 4), StoreI(A(1), N(2), 1),
                         Load(N(1), 4), Load(N(2), 1),
                         [op |-> "insertv", agg |-> N(5), arg |-> N(6), k |-> k, w |-> 4],
                         [op |-> "extractv", agg |-> N(7), k |-> j, w |-> 4],
                         CallI("f", <<N(8)>>, 1), Ret(IF k = 0 THEN N(7) ELSE N(8), IF k = 0 THEN 4 ELSE 1)>>) :
          k \in {0, 2}, j \in {0, 2, 3}}
  \cup {F(<<1, 1>>, <<Alloca(1), StoreI(K(0), N(1), 1), Br(2),
                      Load(N(1), 1), ICmp("lt", N(4), K(3)), CondBr(N(5), 3, 4),
                      Bin("add", N(4), A(1)), CallI("f", <<N(7), N(4)>>, 1), Bin("add", N(4), K(1)), StoreI(N(9), N(1), 1), Br(2),
                      Ret(N(4), 1)>>,
          <<<<1, 2, 3>>, <<4, 5, 6>>, <<7, 8, 9, 10, 11>>, <<12>>>>)}

(* Arrays and structures on the heap: constant and variable indices, a     *)
(* pointer used in the next block, the allocator's global.                 *)
Heap ==
  {Line(<<1, 1>>, <<Gep(b, idx, 1), StoreI(A(2), N(1), 1), Load(N(1), 1), Gep(A(1), <<K(1)>>, 1), Load(N(4), 1),
                    Bin("sub", N(3), N(5)), Cast("itp", N(1)), CallI("get_storage", <<N(7), N(4)>>, 0), Ret(N(6), 1)>>) :
     b \in {A(1)}, idx \in {<<A(2)>>}}
  \cup
  {F(<<1, 1>>, <<CallI("heap_malloc", <<K(4)>>, 1), Cast("itp", N(1)), Gep(N(2), idx, 1), StoreI(v, N(3), 1),
                 Load(N(3), 1), Br(2), Gep(N(3), <<K(1)>>, 1), StoreI(N(5), N(7), 1), Load(N(7), 1), Ret(N(9), 1)>>,
     <<<<1, 2, 3, 4, 5, 6>>, <<7, 8, 9, 10>>>>) :
     idx \in {<<K(0)>>, <<K(2)>>, <<A(2)>>, <<K(0), K(2)>>}, v \in {K(9), A(1), N(1)}}
  \cup
  {Line(<<1, 1>>, <<Load(<<"heap">>, 1), Bin("add", N(1), A(1)), StoreI(N(2), <<"heap">>, 1), Cast("itp", N(1)),
                    StoreI(A(2), N(4), 1), Load(N(4), 1), Gep(N(4), <<K(0), A(2)>>, 1), Load(N(7), 1),
                    Bin("add", N(6), N(8)), Ret(N(9), 1)>>)}

(* Calls: arguments computed where they are passed, results used or not.   *)
Calls ==
  {Line(<<1, 1>>, <<Bin("sub", A(1), A(2)), Bin("sub", A(2), K(1)), CallI(n, <<N(1), A(1), K(3), N(2)>>, 1),
                    CallI("g", <<N(3), N(1)>>, w), Ret(N(3), 1)>>) : n \in {"f", "prophet_u32_div"}, w \in {0, 1, 4}}
  \cup {Line(<<1, 1>>, <<CallI("f", <<A(2), A(1)>>, 4), [op |-> "extractv", agg |-> N(1), k |-> 1, w |-> 4], Ret(N(1), 4)>>),
        Line(<<1>>, <<CallI("g", <<A(1), K(1), K(2), A(1), K(3), K(4)>>, 1), Ret0>>)}
  \cup {Line(<<1, 1>>, <<Bin("sub", A(1), A(2)), CallI(n, SubSeq(<<N(1), A(2), K(3)>>, 1, k), 0), Ret0>>) :
          <<n, k>> \in {<<"builtin_assert", 1>>, <<"builtin_range_check", 1>>, <<"contract_call", 2>>, <<"get_storage", 2>>,
                        <<"set_storage", 2>>, <<"poseidon_hash", 3>>, <<"get_context_data", 2>>, <<"get_tape_data", 2>>,
                        <<"set_tape_data", 2>>}}
  \cup {Line(<<1>>, <<CallI("builtin_check_ecdsa", <<A(1)>>, 1), CallI("builtin_assert", <<N(1)>>, 0), Ret(N(1), 1)>>)}

(* Phis: the conditional operator, and a loop with two of them.            *)
Phis ==
  {F(<<1, 1>>, <<ICmp(c, A(1), A(2)), CondBr(N(1), 2, 3), Bin("add", A(1), K(1)), Br(4), Bin("sub", A(2), K(1)), Br(4),
                 Phi(<<N(3), N(5)>>, <<2, 3>>), Phi(<<K(8), A(1)>>, <<2, 3>>), Bin("mul", N(7), N(8)), Ret(N(9), 1)>>,
     <<<<1, 2>>, <<3, 4>>, <<5, 6>>, <<7, 8, 9, 10>>>>) : c \in {"eq", "gt"}}
  \cup
  {F(<<1, 1>>, <<Br(2), Phi(<<A(1), N(3)>>, <<1, 3>>), Phi(<<A(2), N(2)>>, <<1, 3>>), Phi(<<K(0), N(6)>>, <<1, 3>>), ICmp("lt", N(4), K(3)),
                 Bin("add", N(4), K(1)), CondBr(N(5), 3, 4), Br(2), Ret(N(2), 1)>>,
     <<<<1>>, <<2, 3, 4, 5, 7>>, <<6, 8>>, <<9>>>>)}

(* Stores to an element of a fixed array; six to eight parameters.         *)
Borderline ==
  {Line(<<1, 1>>, <<CallI("heap_malloc", <<K(3)>>, 1), Gep(N(1), <<K(0), i>>, 3), StoreI(A(2), N(2), 1), Ret0>>) :
     i \in {K(1), A(1)}}
  \cup {Line([j \in 1 .. n |-> 1], <<Ret(A(n), 1)>>) : n \in {6, 7, 8}}

MCFunctions == Arithmetic \cup Comparisons \cup Variables \cup Heap \cup Calls \cup Phis \cup Borderline

-----------------------------------------------------------------------------
(* Functions as the register allocator leaves them.                        *)
PhiI(d, vs, bs) == [op |-> "phi", d |-> d, s |-> vs, from |-> bs]
J(b)     == Jump("jmp", <<>>, b)
CJ(r, b) == Jump("cjmp", <<r>>, b)
RetW     == [op |-> "ret", d |-> None, s |-> <<>>, w |-> 1]
Op(op, d, l, r) == Ins(op, d, <<l, r>>)
AssertW(r) == Ins("assert", None, <<r>>)

(* The conditional operator: either branch ends in one jump.  The phi may  *)
(* share the register of a branch's value or not.                          *)
Conditional ==
  {<<<<Op(c, R(5), R(1), R(2)), CJ(R(5), 2), J(3)>>,
     <<Op("add", l, R(1), i), J(4)>>,
     <<Op("mul", r, R(2), R(1)), J(4)>>,
     <<PhiI(d, <<l, r>>, <<2, 3>>), AssertW(R(1)), Ins("mov", R(0), <<d>>), RetW>>>> :
     c \in {"eq", "gte"}, d \in {R(0), R(4)}, l \in {R(0), R(4)}, r \in {R(0), R(6)}, i \in {I(0), I(3)}}

(* A conditional operator inside a branch of another.                      *)
Nested ==
  {<<<<Op("eq", R(5), R(1), R(2)), CJ(R(5), 2), J(3)>>,
     <<Op("add", R(4), R(1), I(0)), J(6)>>,
     <<Op("gte", R(5), R(1), I(2)), CJ(R(5), 4), J(5)>>,
     <<Op("add", R(6), I(7), I(0)), J(7)>>,
     <<Op("add", R(1), R(1), I(0)), J(7)>>,
     <<PhiI(d, <<R(4), e>>, <<2, 7>>), AssertW(d), Ins("mov", R(0), <<d>>), RetW>>,
     <<PhiI(e, <<R(6), I(9)>>, <<4, 5>>), J(6)>>>> :
     d \in {R(0), R(4), R(7)}, e \in {R(0), R(6), R(8)}}

(* memcmp: the result is a phi of constants, and the block of the phi is   *)
(* the else-target of both branches.                                       *)
Compare ==
  {<<<<Ins("mov", R(3), <<I(0)>>), J(2)>>,
     <<Op("gte", R(5), R(3), I(2)), Op("eq", R(5), R(5), I(0)), CJ(R(5), 3), J(4)>>,
     <<Op("add", R(3), R(3), I(1)), Op(c, R(6), R(1), R(2)), CJ(R(6), 2), J(4)>>,
     <<PhiI(R(0), <<I(k), I(1 - k)>>, <<2, 3>>), RetW>>>> : c \in {"eq", "gte"}, k \in {0, 1}}

(* Two phis that keep clear of each other, entered by single jumps.        *)
Pairs ==
  {<<<<Op("eq", R(5), R(1), R(2)), CJ(R(5), 2), J(3)>>,
     <<Op("add", R(4), R(1), I(1)), J(4)>>,
     <<Op("add", R(4), R(2), I(2)), J(4)>>,
     <<PhiI(R(6), <<R(4), v>>, <<2, 3>>), PhiI(R(7), <<I(8), R(4)>>, <<2, 3>>),
       Op("mul", R(0), R(6), R(7)), RetW>>>> : v \in {I(5), R(1), R(2)}}

MCAllocated == Conditional \cup Nested \cup Compare \cup Pairs

(* u32_power (irgen/corelib.rs) with the registers the allocator gives it. *)
Power ==
  {<<<<J(2)>>,
     <<PhiI(R(3), <<I(0), R(5)>>, <<1, 2>>), PhiI(R(0), <<I(1), R(4)>>, <<1, 2>>),
       Op("add", R(5), R(3), I(1)), Op("mul", R(4), R(0), R(1)), Op("gte", R(3), R(2), R(5)), CJ(R(3), 2), J(3)>>,
     <<Ins("range", None, <<R(0)>>), RetW>>>>}

-----------------------------------------------------------------------------
(* Four functions that may call each other in any nesting: one with a      *)
(* scalar and a four-word value, one with two scalars around a four-word   *)
(* value, a leaf with one scalar and one without slots.                    *)
Scalar == [size |-> 4, align |-> 4]
Hash == [size |-> 16, align |-> 4]
MCCode ==
  [main  |-> [slots |-> <<Scalar, Hash>>, call |-> TRUE, csr |-> 2],
   mid   |-> [slots |-> <<Hash, Scalar>>, call |-> TRUE, csr |-> 0],
   leaf  |-> [slots |-> <<Scalar>>, call |-> FALSE, csr |-> 1],
   empty |-> [slots |-> <<>>, call |-> FALSE, csr |-> 0]]
MCVal == {<<1>>, <<2>>, <<3, 4, 5, 6>>}

-----------------------------------------------------------------------------
(* Selection (isa/ola/lower): the machine code makes the stores, calls and *)
(* checks the IR function makes, in its order, and returns its result.     *)
SameMeaning == part = "select" => Sel!SameMeaning

(* Selection (isa/ola/lower): what cannot be lowered is more than six      *)
(* words of parameters and a store to an array at a variable index.        *)
Lowers == part = "select" => Sel!Lowers

(* Late passes (isa/ola/pass): the code without phis, after the peepholes  *)
(* and the coalescing, does what the allocated function does.              *)
SameRuns == part = "late" => Late!SameRuns

(* Late passes (eliminate_phi on u32_power of irgen/corelib.rs): a ** b is *)
(* the b-th power of a.                                                    *)
PowerComputed == part = "late" => Late!PowerComputed
=============================================================================
