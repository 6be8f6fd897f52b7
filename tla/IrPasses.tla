------------------------------ MODULE IrPasses ------------------------------
(***************************************************************************)
(* The transform passes of core/pass/transform on the intermediate         *)
(* representation: mem2reg, which turns the stack cells of variables into  *)
(* values with phis and ends with constant propagation (sccp), and dead    *)
(* code elimination (dce).  The function a pass leaves behind is run next  *)
(* to the one it was given.                                                *)
(*                                                                         *)
(* A function is a record: code, the instructions of every block in order; *)
(* inst, what an instruction is; succs, the successors of every block in   *)
(* the order their hash set yields them.  The users of an instruction are  *)
(* the instructions in the layout with it as an argument, which is what    *)
(* the users map holds.                                                    *)
(***************************************************************************)
EXTENDS DomTreeOps

CONSTANTS
    Inputs,      \* records [pass, func]
    MaxEvents,   \* bound on the calls compared
    Fuel         \* bound on the instructions between two calls

VARIABLES
    in,        \* what was given
    pc,        \* the step of the pass, "run", "done" or "panic"
    f,         \* the function being changed
    todo,      \* allocas to promote: [store, block, multi]
    phis,      \* added phis: [of: phi -> alloca, at: block -> sequence]
    work,      \* worklist of rename or of dce
    visited,   \* blocks rename has been through
    fold,      \* instructions sccp has found foldable
    changed,   \* whether this round of sccp has changed the function
    old, new,  \* the two runs
    events     \* calls compared so far

vars == <<in, pc, f, todo, phis, work, visited, fold, changed, old, new, events>>
passVars == <<todo, phis, work, visited, fold, changed>>
runVars == <<old, new, events>>

V(x) == [is |-> "inst", n |-> x]
K(n) == [is |-> "int", n |-> n]

-----------------------------------------------------------------------------
(* Function, Data and Layout.                                              *)

Block(p, x)  == CHOOSE b \in DOMAIN p.code : x \in ToSet(p.code[b])
Placed(p)    == UNION {ToSet(p.code[b]) : b \in DOMAIN p.code}
Pos(p, x)    == CHOOSE k \in DOMAIN p.code[Block(p, x)] : p.code[Block(p, x)][k] = x
Op(p, x)     == p.inst[x].op

users_of(p, x) == {u \in Placed(p) : V(x) \in ToSet(p.inst[u].args)}
UsersOf(p, x, op) == {u \in users_of(p, x) : Op(p, u) = op}

remove_inst(p, x) ==
    [p EXCEPT !.code = [b \in DOMAIN p.code |-> SelectSeq(p.code[b], LAMBDA y : y # x)]]
RemoveAll(p, xs) ==
    [p EXCEPT !.code = [b \in DOMAIN p.code |-> SelectSeq(p.code[b], LAMBDA y : y \notin xs)]]

replace_inst_arg(p, u, x, v) ==
    [p EXCEPT !.inst[u].args = [k \in DOMAIN @ |-> IF @[k] = V(x) THEN v ELSE @[k]]]
replace_all_uses(p, x, v) ==
    FoldSet(LAMBDA u, q : replace_inst_arg(q, u, x, v), p, users_of(p, x))

create_inst(p, rec) ==
    LET x == Max(DOMAIN p.inst) + 1 IN [p |-> [p EXCEPT !.inst = Put(@, x, rec)], x |-> x]

\* The instructions of a function in the order of the layout.
InOrder(p) == FlattenSeq(p.code)

-----------------------------------------------------------------------------
(* mem2reg.                                                                *)

Idom == compute(in.func.succs).idom

is_promotable(p, a) ==
    \A u \in users_of(p, a) : \/ Op(p, u) = "load"
                              \/ Op(p, u) = "store" /\ p.inst[u].args[2] = V(a)
is_stored_only_once(p, a) == Cardinality(UsersOf(p, a, "store")) = 1
is_only_used_in_single_block(p, a) ==
    \A u, w \in users_of(p, a) : Block(p, u) = Block(p, w)

NoTodo == [store |-> <<>>, block |-> <<>>, multi |-> <<>>]

Init ==
    /\ in \in Inputs
    /\ f = in.func
    /\ pc = in.pass
    /\ todo = NoTodo /\ phis = [of |-> <<>>, at |-> <<>>]
    /\ work = <<>> /\ visited = {} /\ fold = <<>> /\ changed = FALSE
    /\ old = <<>> /\ new = <<>> /\ events = 0

Classify ==
    /\ pc = "mem2reg" /\ pc' = "promote"
    /\ LET all   == SelectSeq(InOrder(f), LAMBDA x : Op(f, x) = "alloca" /\ is_promotable(f, x))
           once(x) == is_stored_only_once(f, x)
           local(x) == is_only_used_in_single_block(f, x)
       IN  todo' = [store |-> SelectSeq(all, once),
                    block |-> SelectSeq(all, LAMBDA x : ~once(x) /\ local(x)),
                    multi |-> SelectSeq(all, LAMBDA x : ~once(x) /\ ~local(x))]
    /\ UNCHANGED <<in, f, phis, work, visited, fold, changed, runVars>>

\* A load is replaced if the only store comes before it on every path.
Covers(p, store, load) ==
    IF Block(p, store) = Block(p, load) THEN Pos(p, store) < Pos(p, load)
    ELSE dominates(Idom, Block(p, store), Block(p, load))

Replace(p, load, v) == replace_all_uses(remove_inst(p, load), load, v)

promote_single_store_alloca ==
    /\ pc = "promote" /\ todo.store # <<>>
    /\ LET a     == Head(todo.store)
           store == CHOOSE u \in UsersOf(f, a, "store") : TRUE
           src   == f.inst[store].args[1]
           loads == UsersOf(f, a, "load")
           good  == {l \in loads : Covers(f, store, l)}
           f1    == IF good = loads THEN RemoveAll(f, {store, a}) ELSE f
       IN  f' = FoldSet(LAMBDA l, q : Replace(q, l, src), f1, good)
    /\ todo' = [todo EXCEPT !.store = Tail(@)]
    /\ UNCHANGED <<in, pc, phis, work, visited, fold, changed, runVars>>

\* The last store before a load in the block, if there is one.
find_nearest_store(p, a, load) ==
    LET before == {u \in UsersOf(p, a, "store") : Pos(p, u) < Pos(p, load)}
    IN  {u \in before : \A w \in before : Pos(p, w) <= Pos(p, u)}

\* The stores that were found are removed in any case, the others in none.
promote_single_block_alloca ==
    /\ pc = "promote" /\ todo.store = <<>> /\ todo.block # <<>>
    /\ LET a     == Head(todo.block)
           loads == UsersOf(f, a, "load")
           near(l) == find_nearest_store(f, a, l)
           found == {l \in loads : near(l) # {}}
           One(l, q) == Replace(q, l, q.inst[CHOOSE u \in near(l) : TRUE].args[1])
           f1 == FoldSet(One, f, found)
           f2 == IF found = loads THEN remove_inst(f1, a) ELSE f1
       IN  f' = RemoveAll(f2, UNION {near(l) : l \in found})
    /\ todo' = [todo EXCEPT !.block = Tail(@)]
    /\ UNCHANGED <<in, pc, phis, work, visited, fold, changed, runVars>>

\* Where a value stored in a block may be wanted: back from the loads up to
\* the blocks that store.
RECURSIVE LiveBack(_, _, _)
LiveBack(p, defs, live) ==
    LET more == UNION {preds(p.succs, b) \ defs : b \in live} \ live
    IN  IF more = {} THEN live ELSE LiveBack(p, defs, live \union more)
livein_blocks(p, defs, uses) == LiveBack(p, defs, uses)

\* A phi goes where the subtree of a defining block is left to a block that
\* is not deeper; the blocks that get one define in turn.
RECURSIVE Subtree(_, _, _, _, _, _)
Subtree(p, lv, live, defs, root, st) ==
    IF st.list = <<>> THEN st
    ELSE LET b    == Last(st.list)
             out  == {s \in succs(p.succs, b) : lv[s] <= lv[root]} \ st.vq
             kids == children_of(Idom, b) \ st.vw
         IN  Subtree(p, lv, live, defs, root,
                 [st EXCEPT !.list  = Front(@) \o SetToSeq(kids),
                            !.vw    = @ \union kids,
                            !.vq    = @ \union out,
                            !.phis  = @ \union (out \intersect live),
                            !.queue = @ \union ((out \intersect live) \ defs)])

RECURSIVE PhiBlocks(_, _, _, _, _)
PhiBlocks(p, lv, live, defs, st) ==
    IF st.queue = {} THEN st.phis
    ELSE LET root == CHOOSE b \in st.queue : \A c \in st.queue : lv[c] <= lv[b]
         IN  PhiBlocks(p, lv, live, defs,
                 Subtree(p, lv, live, defs, root,
                     [st EXCEPT !.queue = @ \ {root}, !.list = <<root>>, !.vw = @ \union {root}]))

phi_blocks(p, lv, live, defs) ==
    PhiBlocks(p, lv, live, defs, [queue |-> defs, list |-> <<>>, vw |-> {}, vq |-> {}, phis |-> {}])

AddPhi(acc, b, a) ==
    LET c == create_inst(acc.p, [op |-> "phi", args |-> <<>>, from |-> <<>>])
        at == IF b \in DOMAIN acc.phis.at THEN acc.phis.at[b] ELSE <<>>
    IN  [p    |-> [c.p EXCEPT !.code[b] = <<c.x>> \o @],
         phis |-> [of |-> Put(acc.phis.of, c.x, a), at |-> Put(acc.phis.at, b, Append(at, c.x))]]

promote_multi_block_alloca ==
    /\ pc = "promote" /\ todo.store = <<>> /\ todo.block = <<>>
    /\ Len(todo.multi) > Cardinality(visited)
    /\ LET a    == todo.multi[Cardinality(visited) + 1]
           defs == {Block(f, u) : u \in UsersOf(f, a, "store")}
           uses == {Block(f, u) : u \in UsersOf(f, a, "load")}
           lv   == level_of(Idom)
           r    == FoldSet(LAMBDA b, acc : AddPhi(acc, b, a), [p |-> f, phis |-> phis],
                           phi_blocks(f, lv, livein_blocks(f, defs, uses), defs))
       IN  IF defs \subseteq DOMAIN lv
           THEN f' = r.p /\ phis' = r.phis /\ pc' = pc
           ELSE pc' = "panic" /\ UNCHANGED <<f, phis>>
    /\ visited' = visited \union {Cardinality(visited) + 1}
    /\ UNCHANGED <<in, todo, work, fold, changed, runVars>>

StartRename ==
    /\ pc = "promote" /\ todo.store = <<>> /\ todo.block = <<>>
    /\ Len(todo.multi) = Cardinality(visited)
    /\ pc' = "rename" /\ visited' = {}
    /\ work' = <<[cur |-> Entry, pred |-> 0, incoming |-> <<>>]>>
    /\ UNCHANGED <<in, f, todo, phis, fold, changed, runVars>>

\* The added phis of a block take what comes in on this edge.
TakeIncoming(p, d) ==
    LET ids == IF d.cur \in DOMAIN phis.at THEN phis.at[d.cur] ELSE <<>>
        One(acc, x) ==
            LET a == phis.of[x]
            IN  IF a \notin DOMAIN acc.incoming THEN [acc EXCEPT !.panic = TRUE]
                ELSE [acc EXCEPT !.p.inst[x].args = Append(@, acc.incoming[a]),
                                 !.p.inst[x].from = Append(@, d.pred),
                                 !.incoming = Put(@, a, V(x))]
    IN  FoldLeft(One, [p |-> p, incoming |-> d.incoming, panic |-> FALSE], ids)

\* Only the edge by which the block is first reached.
FirstEdgeOnly(p, d) ==
    IF d.cur \in visited THEN [p |-> p, incoming |-> d.incoming, panic |-> FALSE] ELSE TakeIncoming(p, d)
PhiArgs(p, d) == TakeIncoming(p, d)

\* The loads and stores of the promoted cells in one block.
Accesses(acc0, b) ==
    LET Cell(p, x) == IF Op(p, x) = "store" THEN p.inst[x].args[2] ELSE p.inst[x].args[1]
        Mine(x) == /\ Op(acc0.p, x) \in {"load", "store"}
                   /\ \E k \in DOMAIN todo.multi : Cell(acc0.p, x) = V(todo.multi[k])
        One(acc, x) ==
            LET a == Cell(acc.p, x).n
            IN  IF Op(acc.p, x) = "store"
                THEN [acc EXCEPT !.incoming = Put(@, a, acc.p.inst[x].args[1])]
                ELSE IF a \in DOMAIN acc.incoming
                THEN [acc EXCEPT !.p = replace_all_uses(@, x, acc.incoming[a])]
                ELSE acc
        mine == SelectSeq(acc0.p.code[b], Mine)
        r    == FoldLeft(One, acc0, mine)
    IN  [r EXCEPT !.p = RemoveAll(@, ToSet(mine))]

\* The first successor is followed, the others wait.
rename_sub ==
    /\ pc = "rename" /\ work # <<>>
    /\ LET d    == Last(work)
           r    == PhiArgs(f, d)
           q    == Accesses(r, d.cur)
           next(s) == [cur |-> s, pred |-> d.cur, incoming |-> q.incoming]
           out  == f.succs[d.cur]
       IN  CASE r.panic -> pc' = "panic" /\ UNCHANGED <<f, work, visited>>
             [] ~r.panic /\ d.cur \in visited ->
                    f' = r.p /\ work' = Front(work) /\ UNCHANGED <<pc, visited>>
             [] OTHER ->
                    /\ f' = q.p
                    /\ visited' = visited \union {d.cur}
                    /\ work' = Front(work) \o
                               (IF out = <<>> THEN <<>>
                                ELSE [k \in 1..Len(Tail(out)) |-> next(Tail(out)[k])] \o <<next(Head(out))>>)
                    /\ UNCHANGED pc
    /\ UNCHANGED <<in, todo, phis, fold, changed, runVars>>

rename_end ==
    /\ pc = "rename" /\ work = <<>>
    /\ pc' = "sccp"
    /\ f' = RemoveAll(f, ToSet(todo.multi))
    /\ UNCHANGED <<in, passVars, runVars>>

-----------------------------------------------------------------------------
(* sccp.                                                                   *)

Constant(p, x) == \A k \in DOMAIN p.inst[x].args : p.inst[x].args[k].is = "int"
is_foldable(p, x) == Op(p, x) \in {"add", "icmp"} /\ Constant(p, x)
is_foldable_condbr(p, x) == Op(p, x) = "condbr" /\ Constant(p, x)

\* The first target, whatever the constant is.
FoldBranch(p, x) ==
    LET b == Block(p, x)
        c == create_inst(p, [op |-> "br", args |-> <<>>, to |-> <<p.inst[x].to[1]>>])
    IN  [remove_inst([c.p EXCEPT !.code[b] = Append(@, c.x)], x)
            EXCEPT !.succs[b] = SelectSeq(@, LAMBDA s : s # p.inst[x].to[2])]

sccp_branches ==
    /\ pc = "sccp" /\ pc' = "sccp_phis"
    /\ fold' = SelectSeq(InOrder(f), LAMBDA x : is_foldable(f, x))
    /\ LET brs == SelectSeq(InOrder(f), LAMBDA x : is_foldable_condbr(f, x))
       IN  f' = FoldLeft(FoldBranch, f, brs) /\ changed' = (brs # <<>>)
    /\ UNCHANGED <<in, todo, phis, work, visited, runVars>>

\* After a branch has been folded: a phi with one argument from a block that
\* has predecessors is that argument.
FoldOnePhi(acc, x) ==
    LET i     == acc.p.inst[x]
        valid == {k \in DOMAIN i.args : preds(acc.p.succs, i.from[k]) # {}}
    IN  IF Cardinality(valid) # 1 THEN acc
        ELSE [p |-> replace_all_uses(acc.p, x, i.args[CHOOSE k \in valid : TRUE]),
              gone |-> acc.gone \union {x}]

fold_phi ==
    /\ pc = "sccp_phis" /\ pc' = "sccp_consts"
    /\ LET r == FoldLeft(FoldOnePhi, [p |-> f, gone |-> {}],
                         SelectSeq(InOrder(f), LAMBDA x : Op(f, x) = "phi"))
       IN  f' = IF changed THEN RemoveAll(r.p, r.gone) ELSE f
    /\ UNCHANGED <<in, passVars, runVars>>

Arith(op, x, y) == IF op = "add" THEN x + y ELSE IF x = y THEN 1 ELSE 0
fold_consts(p, x) ==
    LET i == p.inst[x] IN K(Arith(i.op, i.args[1].n, i.args[2].n))

sccp_consts ==
    /\ pc = "sccp_consts"
    /\ IF fold # <<>>
       THEN /\ f' = remove_inst(replace_all_uses(f, Head(fold), fold_consts(f, Head(fold))), Head(fold))
            /\ changed' = TRUE /\ fold' = Tail(fold)
            /\ UNCHANGED pc
       ELSE /\ pc' = IF changed THEN "sccp" ELSE "start"
            /\ UNCHANGED <<f, changed, fold>>
    /\ UNCHANGED <<in, todo, phis, work, visited, runVars>>

-----------------------------------------------------------------------------
(* dce.                                                                    *)

Dead(p, x) ==
    Op(p, x) \notin {"alloca", "store", "call", "ret", "br", "condbr"} /\ users_of(p, x) = {}
DeadAny(p, x) ==
    Op(p, x) \notin {"alloca", "call", "ret", "br", "condbr"} /\ users_of(p, x) = {}
check_if_elimination_possible(p, x) == Dead(p, x)

InstArgs(p, x) == LET as == SelectSeq(p.inst[x].args, LAMBDA v : v.is = "inst")
                  IN  [k \in DOMAIN as |-> as[k].n]

dce_scan ==
    /\ pc = "dce" /\ pc' = "dce_work"
    /\ LET dead == SelectSeq(InOrder(f), LAMBDA x : check_if_elimination_possible(f, x))
       IN  /\ f' = RemoveAll(f, ToSet(dead))
           /\ work' = FlattenSeq([k \in DOMAIN dead |-> InstArgs(f, dead[k])])
    /\ UNCHANGED <<in, todo, phis, visited, fold, changed, runVars>>

\* An instruction that is no longer in the layout cannot be removed again.
dce_work ==
    /\ pc = "dce_work"
    /\ IF work = <<>> THEN pc' = "start" /\ UNCHANGED <<f, work>>
       ELSE LET x == Last(work)
            IN  IF ~check_if_elimination_possible(f, x)
                THEN work' = Front(work) /\ UNCHANGED <<f, pc>>
                ELSE /\ work' = Front(work) \o InstArgs(f, x)
                     /\ f' = remove_inst(f, x)
                     /\ pc' = IF x \in Placed(f) THEN pc ELSE "panic"
    /\ UNCHANGED <<in, todo, phis, visited, fold, changed, runVars>>

-----------------------------------------------------------------------------
(* Two runs side by side, from call to call.                               *)

Undef == 1000
Arg(m, v) == IF v.is = "int" THEN v.n ELSE IF v.n \in DOMAIN m.vals THEN m.vals[v.n] ELSE Undef

\* Entering a block sets its phis together.
EnterBlock(p, m, b) ==
    LET ids == {x \in ToSet(p.code[b]) : Op(p, x) = "phi"}
        In(x) == LET ks == {k \in DOMAIN p.inst[x].from : p.inst[x].from[k] = m.b}
                 IN  IF ks = {} THEN Undef ELSE Arg(m, p.inst[x].args[Min(ks)])
    IN  [m EXCEPT !.b = b, !.k = 1, !.vals = [x \in ids |-> In(x)] @@ @]

Event(kind, args) == [kind |-> kind, args |-> args]
At(m, ev) == [m |-> m, ev |-> ev]

RECURSIVE ToEvent(_, _, _)
ToEvent(p, m, fuel) ==
    IF fuel = 0 THEN At(m, Event("silent", <<>>))
    ELSE IF m.k > Len(p.code[m.b]) THEN At(m, Event("stuck", <<>>))
    ELSE LET x == p.code[m.b][m.k]
             i == p.inst[x]
             vs == [k \in DOMAIN i.args |-> Arg(m, i.args[k])]
             on(vals, cells) == [m EXCEPT !.vals = vals, !.cells = cells, !.k = @ + 1]
             go(m1) == ToEvent(p, m1, fuel - 1)
         IN  CASE i.op = "alloca" -> go(on(m.vals, Put(m.cells, x, Undef)))
               [] i.op = "load" ->
                     go(on(Put(m.vals, x, IF i.args[1].n \in DOMAIN m.cells THEN m.cells[i.args[1].n]
                                          ELSE Undef), m.cells))
               [] i.op = "store" -> go(on(m.vals, Put(m.cells, i.args[2].n, vs[1])))
               [] i.op \in {"add", "icmp"} ->
                     go(on(Put(m.vals, x, IF Undef \in ToSet(vs) THEN Undef
                                          ELSE Arith(i.op, vs[1], vs[2])), m.cells))
               [] i.op = "phi" -> go(on(m.vals, m.cells))
               [] i.op = "br" -> go(EnterBlock(p, m, i.to[1]))
               [] i.op = "condbr" ->
                     IF vs[1] = Undef THEN At(m, Event("branch", vs))
                     ELSE go(EnterBlock(p, m, IF vs[1] = 0 THEN i.to[2] ELSE i.to[1]))
               [] i.op \in {"call", "ret"} -> At(m, Event(i.op, vs))

Fresh == [b |-> Entry, k |-> 1, vals |-> <<>>, cells |-> <<>>]

Start ==
    /\ pc = "start" /\ pc' = "run"
    /\ old' = ToEvent(in.func, Fresh, Fuel)
    /\ new' = ToEvent(f, Fresh, Fuel)
    /\ UNCHANGED <<in, f, passVars, events>>

\* Both are at a call, which gives the same result to both.
Resume(p, run, r) ==
    LET m == run.m
        x == p.code[m.b][m.k]
    IN  ToEvent(p, [m EXCEPT !.vals = Put(@, x, r), !.k = @ + 1], Fuel)

Call ==
    /\ pc = "run" /\ events < MaxEvents
    /\ old.ev.kind = "call" /\ new.ev = old.ev
    /\ \E r \in {0, 1} :
          /\ old' = Resume(in.func, old, r)
          /\ new' = Resume(f, new, r)
    /\ events' = events + 1
    /\ UNCHANGED <<in, pc, f, passVars>>

Next ==
    \/ Classify \/ promote_single_store_alloca \/ promote_single_block_alloca
    \/ promote_multi_block_alloca \/ StartRename \/ rename_sub \/ rename_end
    \/ sccp_branches \/ fold_phi \/ sccp_consts
    \/ dce_scan \/ dce_work
    \/ Start \/ Call

Spec == Init /\ [][Next]_vars

-----------------------------------------------------------------------------
\* The pass ends, and whatever the calls return, the function it leaves makes
\* the same calls and returns the same value as the one it was given, unless
\* that one has used a value it never set (Mem2Reg::run, SCCP::run,
\* dce::run_on_function).
SameTrace ==
    /\ pc # "panic"
    /\ pc = "run" => (Undef \in ToSet(old.ev.args) \/ new.ev = old.ev)

\* What a pass leaves is well formed: no instruction in the layout has an
\* argument that is not (remove_inst after replace_all_uses), and a phi has
\* exactly one argument for each predecessor of its block (rename_sub fills it
\* edge by edge, sccp removes edges).
WellFormed ==
    pc \in {"start", "run"} =>
        \A x \in Placed(f) :
            /\ \A k \in 1..3 :
                  (k \in DOMAIN f.inst[x].args /\ f.inst[x].args[k].is = "inst")
                      => f.inst[x].args[k].n \in Placed(f)
            /\ Op(f, x) = "phi" =>
                  LET from == f.inst[x].from
                  IN  IsInjective(from) /\ ToSet(from) = preds(f.succs, Block(f, x))
=============================================================================
