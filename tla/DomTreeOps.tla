----------------------------- MODULE DomTreeOps -----------------------------
(***************************************************************************)
(* The dominator tree of core/pass/analysis/dom_tree.rs: Lengauer and      *)
(* Tarjan's algorithm with path compression, and what is derived from the  *)
(* immediate dominators.  A graph g gives every block, 1 the entry, the    *)
(* sequence of its successors in the order their hash set yields them.     *)
(***************************************************************************)
EXTENDS Naturals, Sequences, FiniteSets, SequencesExt, FiniteSetsExt, TLC

Entry == 1
succs(g, b) == ToSet(g[b])
preds(g, b) == {p \in DOMAIN g : b \in succs(g, p)}

Put(f, x, v) == (x :> v) @@ f

Context == [dfnum |-> <<>>, vertex |-> <<>>, parent |-> <<>>, semi |-> <<>>,
            ancestor |-> <<>>, best |-> <<>>, idom |-> <<>>, samedom |-> <<>>,
            bucket |-> <<>>]

RECURSIVE number_by_dfs(_, _, _)
number_by_dfs(c, g, node) ==
    LET c1 == [c EXCEPT !.dfnum  = Put(@, node, Len(c.vertex)),
                        !.vertex = Append(@, node)]
        Visit(acc, s) ==
            IF s \in DOMAIN acc.dfnum THEN acc
            ELSE number_by_dfs([acc EXCEPT !.parent = Put(@, s, node)], g, s)
    IN  FoldLeft(Visit, c1, g[node])

\* The node with the lowest semidominator on the path of ancestors, which is
\* shortened on the way.
RECURSIVE LowestOnPath(_, _)
LowestOnPath(c, node) ==
    LET a == c.ancestor[node]
    IN  IF a \notin DOMAIN c.ancestor THEN [c |-> c, v |-> c.best[node]]
        ELSE LET r  == LowestOnPath(c, a)
                 c1 == [r.c EXCEPT !.ancestor[node] = r.c.ancestor[a],
                                   !.best[node] = IF r.c.dfnum[r.c.semi[r.v]]
                                                     < r.c.dfnum[r.c.semi[@]]
                                                  THEN r.v ELSE @]
             IN  [c |-> c1, v |-> c1.best[node]]

ancestor_with_lowest_semi(c, node) == LowestOnPath(c, node)

\* A predecessor that is numbered later counts itself.
PredItself(c, node, v) == [c |-> c, v |-> v]
\* The semidominator of a node from one predecessor; what is not numbered is
\* unreachable.
FromPred(c, node, v) ==
    IF c.dfnum[v] <= c.dfnum[node] THEN [c |-> c, v |-> v]
    ELSE LET r == ancestor_with_lowest_semi(c, v) IN [c |-> r.c, v |-> r.c.semi[r.v]]

link(c, pred, node) ==
    [c EXCEPT !.ancestor = Put(@, node, pred), !.best = Put(@, node, node)]

\* The nodes whose semidominator is pred: the immediate dominator is pred, or
\* is left to that of a node on the path.
EmptyBucket(c, pred) ==
    LET One(acc, v) ==
            LET r == ancestor_with_lowest_semi(acc, v)
            IN  IF r.c.semi[r.v] = r.c.semi[v]
                THEN [r.c EXCEPT !.idom = Put(@, v, pred)]
                ELSE [r.c EXCEPT !.samedom = Put(@, v, r.v)]
    IN  IF pred \notin DOMAIN c.bucket THEN c
        ELSE [FoldLeft(One, c, SetToSeq(c.bucket[pred])) EXCEPT !.bucket[pred] = {}]

\* One round of compute, for the node numbered i.
ComputeNode(c, g, i) ==
    LET node == c.vertex[i + 1]
        pred == c.parent[node]
        Least(acc, v) ==
            LET r == FromPred(acc.c, node, v)
            IN  [c |-> r.c, s |-> IF r.c.dfnum[r.v] < r.c.dfnum[acc.s] THEN r.v ELSE acc.s]
        m == FoldLeft(Least, [c |-> c, s |-> pred],
                      SetToSeq(preds(g, node) \intersect DOMAIN c.dfnum))
        old == IF m.s \in DOMAIN m.c.bucket THEN m.c.bucket[m.s] ELSE {}
        c1 == [m.c EXCEPT !.semi = Put(@, node, m.s), !.bucket = Put(@, m.s, old \union {node})]
    IN  EmptyBucket(link(c1, pred, node), pred)

\* What was left open: the node on the path itself is entered.
SameDominator(c) == [c EXCEPT !.idom = c.samedom @@ @]

RECURSIVE ComputeFrom(_, _, _)
ComputeFrom(c, g, i) == IF i = 0 THEN SameDominator(c) ELSE ComputeFrom(ComputeNode(c, g, i), g, i - 1)
compute(g) ==
    LET c == number_by_dfs(Context, g, Entry) IN ComputeFrom(c, g, Len(c.vertex) - 1)

-----------------------------------------------------------------------------
(* The tree: idom takes a block to its immediate dominator.                *)

children_of(idom, x) == {y \in DOMAIN idom : idom[y] = x}

RECURSIVE dominates(_, _, _)
dominates(idom, x, y) ==
    x = y \/ \E child \in children_of(idom, x) : dominates(idom, child, y)

RECURSIVE leveling(_, _, _)
leveling(idom, cur, lv) ==
    LET below == {leveling(idom, child, lv + 1) : child \in children_of(idom, cur)}
    IN  FoldSet(LAMBDA f, acc : f @@ acc, cur :> lv, below)
level_of(idom) == leveling(idom, Entry, 0)

\* The successors only, not what the children leave open.
OwnFrontier(g, idom, x) == {s \in succs(g, x) : ~(s \in DOMAIN idom /\ idom[s] = x)}

\* A block without successors asks no child.
RECURSIVE FrontierBelow(_, _, _)
FrontierBelow(g, idom, x) ==
    OwnFrontier(g, idom, x) \union
    IF g[x] = <<>> THEN {}
    ELSE {y \in UNION {FrontierBelow(g, idom, child) : child \in children_of(idom, x)} :
              ~(y \in DOMAIN idom /\ idom[y] = x)}
compute_dom_frontier_of(g, idom, x) == FrontierBelow(g, idom, x)
=============================================================================
