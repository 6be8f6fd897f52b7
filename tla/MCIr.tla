------------------------------- MODULE MCIr -------------------------------
(***************************************************************************)
(* The passes on the intermediate representation, and the dominator tree   *)
(* they rest on.  The tree is built for graphs, the passes run on          *)
(* functions, so a behaviour is a behaviour of one of them, named by part; *)
(* the variables of the other are idle.                                    *)
(***************************************************************************)
EXTENDS DomTreeOps

CONSTANTS Parts,
          N, Graphs,                  \* blocks of a graph, the graphs
          Inputs, MaxEvents, Fuel     \* of the passes

ASSUME IrAssumption == {N, MaxEvents, Fuel} \subseteq Nat

VARIABLES part, pc,
          g, ctx, at, frontier,                         \* the tree
          in, f, todo, phis, work, visited, fold, changed, old, new, events

D == INSTANCE DomTree
I == INSTANCE IrPasses

treeVars == <<g, ctx, at, frontier>>
passVars == <<in, f, todo, phis, work, visited, fold, changed, old, new, events>>
vars == <<part, pc, treeVars, passVars>>

NoTree == g = 0 /\ ctx = 0 /\ at = 0 /\ frontier = 0
NoPass == /\ in = 0 /\ f = 0 /\ todo = 0 /\ phis = 0 /\ work = 0 /\ visited = 0
          /\ fold = 0 /\ changed = 0 /\ old = 0 /\ new = 0 /\ events = 0

Init == /\ part \in Parts
        /\ \/ part = "tree" /\ D!Init /\ NoPass
           \/ part = "pass" /\ I!Init /\ NoTree

TreeStep == part = "tree" /\ D!Next /\ UNCHANGED <<part, passVars>>
PassStep == part = "pass" /\ I!Next /\ UNCHANGED <<part, treeVars>>

Next == TreeStep \/ PassStep
Spec == Init /\ [][Next]_vars

-----------------------------------------------------------------------------
\* A block ends in a return, a jump or a branch, with its successors in either
\* order; the last block has no branch.
Ends == {s \in UNION {[1..k -> 1..N] : k \in 0..2} : IsInjective(s)}
AllGraphs == {gr \in [1..N -> Ends] : Len(gr[N]) <= 1}

(* A function is written as a sequence of blocks, a block as the things it *)
(* does to the variables 1 and 2 and how it ends.  The cell of variable v  *)
(* is instruction v.                                                       *)

Cells == 1..2
V(x) == [is |-> "inst", n |-> x]
K(n) == [is |-> "int", n |-> n]
Cell(v) == V(v)

Ins(op, args) == [op |-> op, args |-> args]

\* The instructions of one thing done, numbered from n.
Expand(o, n) ==
    CASE o[1] = "st"   -> <<Ins("store", <<K(o[3]), Cell(o[2])>>)>>
      [] o[1] = "mov"  -> <<Ins("load", <<Cell(o[3])>>), Ins("store", <<V(n), Cell(o[2])>>)>>
      [] o[1] = "inc"  -> <<Ins("load", <<Cell(o[2])>>), Ins("add", <<V(n), K(1)>>),
                            Ins("store", <<V(n + 1), Cell(o[2])>>)>>
      [] o[1] = "out"  -> <<Ins("load", <<Cell(o[2])>>), Ins("call", <<V(n)>>)>>
      [] o[1] = "dead" -> <<Ins("load", <<Cell(o[2])>>), Ins("add", <<V(n), K(1)>>),
                            Ins("icmp", <<V(n + 1), K(0)>>)>>
      [] o[1] = "ret"  -> <<Ins("load", <<Cell(o[2])>>), Ins("ret", <<V(n)>>)>>
      [] o[1] = "jmp"  -> <<[op |-> "br", args |-> <<>>, to |-> <<o[2]>>]>>
      [] o[1] = "ask"  -> <<Ins("call", <<>>),
                            [op |-> "condbr", args |-> <<V(n)>>, to |-> <<o[2], o[3]>>]>>
      [] o[1] = "is"   -> <<Ins("load", <<Cell(o[2])>>), Ins("icmp", <<V(n), K(o[3])>>),
                            [op |-> "condbr", args |-> <<V(n + 1)>>, to |-> <<o[4], o[5]>>]>>

Targets(o) == CASE o[1] = "jmp" -> <<o[2]>>
                [] o[1] = "ask" -> <<o[2], o[3]>>
                [] o[1] = "is"  -> <<o[4], o[5]>>
                [] OTHER -> <<>>

Alloca(v) == Ins("alloca", <<>>)

AddOp(acc, o) ==
    LET is == Expand(o, acc.n)
    IN  [n |-> acc.n + Len(is), inst |-> acc.inst \o is,
         code |-> [acc.code EXCEPT ![Len(acc.code)] = @ \o [k \in DOMAIN is |-> acc.n + k - 1]]]
AddBlock(acc, b) == FoldLeft(AddOp, [acc EXCEPT !.code = Append(@, IF @ = <<>> THEN <<1, 2>> ELSE <<>>)], b)

Compile(blocks) ==
    LET r == FoldLeft(AddBlock, [n |-> 3, inst |-> [v \in Cells |-> Alloca(v)], code |-> <<>>], blocks)
    IN  [code |-> r.code, inst |-> r.inst, succs |-> [b \in DOMAIN blocks |-> Targets(Last(blocks[b]))]]

\* The other order of the two successors of block b.
Turned(p, b) == [p EXCEPT !.succs[b] = Reverse(@)]

Job(pass, p) == [pass |-> pass, func |-> p]

Set == <<<<"st", 1, 0>>, <<"st", 2, 5>>>>

Things == {<<>>, <<<<"st", 1, 1>>>>, <<<<"inc", 1>>>>, <<<<"out", 1>>>>, <<<<"mov", 1, 2>>>>,
           <<<<"mov", 2, 1>>>>, <<<<"st", 2, 2>>, <<"out", 2>>>>, <<<<"inc", 1>>, <<"dead", 1>>>>}
Few == {<<>>, <<<<"inc", 1>>>>, <<<<"st", 2, 2>>, <<"out", 2>>>>, <<<<"mov", 2, 1>>, <<"out", 2>>>>}

\* if (e) { b } else { c }, and a loop with a test before its body.
Diamonds(as, e) ==
    {Compile(<<Set \o Append(a, e), Append(b, <<"jmp", 4>>), Append(c, <<"jmp", 4>>),
               Append(d, <<"ret", 1>>)>>) :
        a \in as, b \in Things, c \in Things, d \in Few}
Loops(e) ==
    {Compile(<<Set \o Append(a, <<"jmp", 2>>), Append(b, e), Append(c, <<"jmp", 2>>),
               Append(d, <<"ret", 1>>)>>) :
        a \in {<<>>, <<<<"inc", 1>>>>}, b \in Few, c \in Things, d \in Few}

Turns(ps, b) == ps \union {Turned(p, b) : p \in ps}

\* Each value stored to a cell used in one block is loaded before the next, and
\* nothing is loaded before the first.
Accesses(p, b, a) == SelectSeq(p.code[b], LAMBDA x : V(a) \in ToSet(p.inst[x].args))
InTurn(ops) ==
    \A k \in DOMAIN ops : /\ k = 1 => ops[k] = "store"
                          /\ ops[k] = "store" => k < Len(ops) /\ ops[k + 1] = "load"
Kept(p) ==
    \A a \in Cells, b \in DOMAIN p.code :
        LET xs  == Accesses(p, b, a)
            ops == [k \in DOMAIN xs |-> p.inst[xs[k]].op]
        IN  \/ \E c \in DOMAIN p.code \ {b} : Accesses(p, c, a) # <<>>
            \/ Cardinality({k \in DOMAIN ops : ops[k] = "store"}) = 1
            \/ InTurn(ops)

\* A test of a constant comes out true.
MCFuncs == {p \in Turns(Diamonds(Few, <<"ask", 2, 3>>) \union Diamonds({<<>>}, <<"is", 1, 0, 2, 3>>), 1)
                  \union Turns(Loops(<<"ask", 3, 4>>), 2) : Kept(p)}

\* Loads the only store does not cover, before it and behind a branch.
MCUncovered == {Compile(<<<<<<"st", 1, 0>>, <<"dead", 2>>, <<"st", 2, 5>>, <<"out", 2>>, <<"ret", 1>>>>>>),
                Compile(<<<<<<"st", 1, 0>>, <<"ask", 2, 3>>>>, <<<<"st", 2, 5>>, <<"out", 2>>, <<"jmp", 3>>>>,
                          <<<<"dead", 2>>, <<"ret", 1>>>>>>)}
MCInputs == {Job(pass, p) : pass \in {"mem2reg", "sccp", "dce"}, p \in MCFuncs \union MCUncovered}

-----------------------------------------------------------------------------
\* Tree (Context::compute): the immediate dominators found are those of the
\* definition.
IdomExact == part = "tree" => D!IdomExact

\* Tree (compute_dom_frontier): the frontiers are those of the definition.
FrontierExact == part = "tree" => D!FrontierExact

\* Passes (mem2reg.rs, sccp.rs, dce.rs): the function that is left makes the
\* calls of the one given and returns its value.
SameTrace == part = "pass" => I!SameTrace

\* Passes (remove_inst, rename_sub, sccp): no instruction has an argument that
\* was removed, and a phi has one argument for each predecessor.
WellFormed == part = "pass" => I!WellFormed
=============================================================================
