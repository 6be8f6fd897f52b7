----------------------------- MODULE MCRegAlloc -----------------------------
(***************************************************************************)
(* Functions in the shapes the lowering produces.  V(k) is the k-th        *)
(* virtual register, the result of the k-th statement.                     *)
(***************************************************************************)
EXTENDS RegAlloc

MCGpr == <<1, 2, 3, 4>>
MCCsr == <<5, 6, 7, 8>>
MCCalleeSaved == 4..8

V(k) == NumPhys - 1 + k

Instr(op, args) == [op |-> op, args |-> args, slot |-> 0]
Op(args) == Instr("op", args)
Use(r) == Arg("use", r)
Def(r) == Arg("def", r)

(* What the lowering emits for a load, a binary operation, a subtraction,  *)
(* a call with one argument and a use (a store or an assertion).           *)
LoadSt(k) == <<Op(<<Def(V(k))>>)>>
BinSt(k, x, y) == <<Op(<<Arg("inout", V(k)), Use(V(x)), Use(V(y))>>)>>
SubSt(k, x, y) ==
  <<Op(<<Def(7), Use(V(y))>>), Op(<<Def(7), Use(7)>>),
    Op(<<Arg("inout", V(k)), Use(V(x)), Use(7)>>)>>
CallSt(k, x) ==
  <<Instr("copy", <<Def(1), Use(V(x))>>), Instr("call", <<Def(0), Arg("raw", 1)>>),
    Instr("copy", <<Def(V(k)), Use(0)>>)>>
UseSt(x) == <<Op(<<Use(V(x))>>)>>
Ret == <<Op(<<>>)>>

Plain(k) ==
  {LoadSt(k)} \cup {BinSt(k, x, y) : <<x, y>> \in {p \in (1..k-1) \X (1..k-1) : p[1] <= p[2]}}
WithCalls(k) == Plain(k) \cup {CallSt(k, x) : x \in 1..k-1}
WithSubs(k) == Plain(k) \cup {SubSt(k, x, y) : x \in 1..k-1, y \in 1..k-1}

(* Number the instructions of a function given as a sequence of blocks.    *)
Number(blocks, preds, nregs, paths) ==
  LET before(b) == Len(FlattenSeq(SubSeq(blocks, 1, b - 1)))
  IN [code  |-> [b \in DOMAIN blocks |-> [k \in DOMAIN blocks[b] |-> before(b) + k]],
      inst  |-> FlattenSeq(blocks), preds |-> preds, nregs |-> nregs, paths |-> paths]

UseAll(used) == FlattenSeq([k \in DOMAIN used |-> UseSt(used[k])])

Straight(sts, used) ==
  Number(<<FlattenSeq(sts) \o UseAll(used) \o Ret>>, <<{}>>, V(Len(sts) + 1), {<<1>>})

(* The statements after the n-th stand in a block that loops.              *)
Loop(sts, n, used) ==
  Number(<<FlattenSeq(SubSeq(sts, 1, n)) \o Ret,
           FlattenSeq(SubSeq(sts, n + 1, Len(sts))) \o UseAll(used) \o Ret>>,
         <<{}, {1, 2}>>, V(Len(sts) + 1), {<<1, 2>>, <<1, 2, 2>>})

Bodies(S(_)) == {<<s1, s2, s3, s4>> : s1 \in S(1), s2 \in S(2), s3 \in S(3), s4 \in S(4)}

(* Calls and subtractions do not come together: see SubUnderPressure.      *)
MCBodies == Bodies(WithCalls) \cup Bodies(WithSubs)

Small ==
  {Straight(body, used) : body \in MCBodies, used \in {<<4>>, <<1, 2, 3, 4>>}}
  \cup {Loop(body, 2, <<1, 4>>) : body \in MCBodies}

(* n values alive at once, and n values alive at once after a call.        *)
Pressure(n) == Straight([k \in 1..n |-> LoadSt(k)], [k \in 1..n |-> k])

PressureCall(n) ==
  Straight(<<LoadSt(1), CallSt(2, 1)>> \o [k \in 1..n |-> LoadSt(2 + k)],
           [k \in 1..n |-> 2 + k])

(* Three parameters, passed on to a callee in any arrangement.             *)
PassOn(arrange) ==
  Number(<<[k \in 1..3 |-> Instr("copy", <<Def(V(k)), Use(k)>>)]
           \o [k \in 1..3 |-> Instr("copy", <<Def(4 - k), Use(V(arrange[4 - k]))>>)]
           \o <<Instr("call", <<Def(0), Arg("raw", 1), Arg("raw", 2), Arg("raw", 3)>>)>> \o Ret>>,
         <<{}>>, V(4), {<<1>>})

(* Four to six values alive after a call in the entry block, in one block  *)
(* or two.  Vregs made by the spiller are spilled again.                   *)
Respilled ==
  LET bodies == {<<LoadSt(1), CallSt(2, 1), LoadSt(3), s4, s5, s6>> :
                   s4 \in {LoadSt(4), BinSt(4, 1, 2)},
                   s5 \in {LoadSt(5), BinSt(5, 1, 4), BinSt(5, 3, 4)},
                   s6 \in {LoadSt(6), BinSt(6, 3, 4), BinSt(6, 4, 5)}}
  IN {Straight(body, <<1, 2, 3, 4, 5, 6>>) : body \in bodies}
     \cup {Loop(body, n, <<6, 5, 4, 3, 2, 1>>) : body \in bodies, n \in {2, 6}}

MCFunctions ==
  Small \cup {Pressure(n) : n \in 7..9} \cup {PressureCall(n) : n \in 3..6}
        \cup {PassOn(arrange) : arrange \in [1..3 -> 1..3]}
        \cup Respilled

-----------------------------------------------------------------------------
(* A subtraction whose left operand is spilled while r5 and r6 are taken.  *)
SubUnderPressure ==
  {Straight(<<LoadSt(1), CallSt(2, 1), LoadSt(3), LoadSt(4), LoadSt(5), SubSt(6, 4, 3)>>,
            <<2, 3, 5, 6>>)}
=============================================================================
