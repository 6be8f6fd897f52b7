------------------------------- MODULE DomTree -------------------------------
(***************************************************************************)
(* DominatorTree::new on any small graph, a node at a time, compared with  *)
(* dominance as it is defined: x dominates y if y cannot be reached        *)
(* without x.                                                              *)
(***************************************************************************)
EXTENDS DomTreeOps

CONSTANT Graphs     \* the graphs analysed

VARIABLES
    g,      \* the graph
    ctx,    \* Context of compute
    at,     \* the number of the node compute is at, 0 when all are done
    pc,     \* "number", "compute", "same", "done"
    frontier

vars == <<g, ctx, at, pc, frontier>>

Init ==
    /\ g \in Graphs
    /\ ctx = Context /\ at = 0 /\ pc = "number" /\ frontier = <<>>

Number ==
    /\ pc = "number" /\ pc' = "compute"
    /\ ctx' = number_by_dfs(ctx, g, Entry)
    /\ at' = Len(ctx'.vertex) - 1
    /\ UNCHANGED <<g, frontier>>

Compute ==
    /\ pc = "compute" /\ at > 0
    /\ ctx' = ComputeNode(ctx, g, at)
    /\ at' = at - 1
    /\ UNCHANGED <<g, pc, frontier>>

Same ==
    /\ pc = "compute" /\ at = 0 /\ pc' = "same"
    /\ ctx' = SameDominator(ctx)
    /\ UNCHANGED <<g, at, frontier>>

Build ==
    /\ pc = "same" /\ pc' = "done"
    /\ frontier' = [x \in DOMAIN ctx.dfnum |-> compute_dom_frontier_of(g, ctx.idom, x)]
    /\ UNCHANGED <<g, ctx, at>>

Next == Number \/ Compute \/ Same \/ Build
Spec == Init /\ [][Next]_vars

-----------------------------------------------------------------------------
(* Dominance by definition.                                                *)

\* What can be reached from the entry without passing through a block of cut.
RECURSIVE Closure(_, _, _)
Closure(gr, seen, cut) ==
    LET more == UNION {succs(gr, b) : b \in seen} \ (seen \union cut)
    IN  IF more = {} THEN seen ELSE Closure(gr, seen \union more, cut)
Reach(gr, cut) == IF Entry \in cut THEN {} ELSE Closure(gr, {Entry}, cut)

\* The pairs of a block and a block it dominates.
Dominance(gr) ==
    {<<x, x>> : x \in Reach(gr, {})}
    \union UNION {{x} \X (Reach(gr, {}) \ Reach(gr, {x})) : x \in Reach(gr, {})}
IsImmediate(dom, x, y) ==
    /\ x # y /\ <<x, y>> \in dom
    /\ \A d \in dom : (d[2] = y /\ d[1] # y) => <<d[1], x>> \in dom

\* Lengauer and Tarjan's semidominator by its definition: where a path to y starts
\* that otherwise stays above y's number.
RECURSIVE Above(_, _, _, _)
Above(gr, num, y, seen) ==
    LET more == UNION {{p \in preds(gr, b) \intersect DOMAIN num : num[p] > num[y]} : b \in seen} \ seen
    IN  IF more = {} THEN seen ELSE Above(gr, num, y, seen \union more)
SemiDom(gr, num, y) ==
    LET starts == UNION {preds(gr, b) \intersect DOMAIN num : b \in Above(gr, num, y, {y})}
    IN  CHOOSE x \in starts : \A z \in starts : num[x] <= num[z]

\* No block is reached past its semidominator.  Where one is, compute takes the
\* block on the path for the dominator of that block.
NoSkip(gr, dom) ==
    LET num == number_by_dfs(Context, gr, Entry).dfnum
    IN  \A y \in DOMAIN num \ {Entry} : IsImmediate(dom, SemiDom(gr, num, y), y)

\* The immediate dominators found are the immediate dominators, for every
\* block that can be reached and for no other (Context::compute), where no
\* block is reached past its semidominator.
IdomExact ==
    pc = "same" =>
        LET dom == Dominance(g)
        IN  NoSkip(g, dom) =>
              /\ DOMAIN ctx.idom = Reach(g, {}) \ {Entry}
              /\ \A y \in DOMAIN ctx.idom : IsImmediate(dom, ctx.idom[y], y)

\* The frontier of a block is where its dominance ends: the blocks with a
\* predecessor it dominates that it does not strictly dominate itself
\* (compute_dom_frontier), where no block is reached past its semidominator.
FrontierExact ==
    pc = "done" =>
        LET dom == Dominance(g)
        IN  NoSkip(g, dom) =>
              \A x \in Reach(g, {}) :
                frontier[x] = {y \in Reach(g, {}) :
                                  /\ \E p \in preds(g, y) : <<x, p>> \in dom
                                  /\ x = y \/ <<x, y>> \notin dom}
=============================================================================
