---------------------------- MODULE ProgramPoints ----------------------------
(***************************************************************************)
(* Program points, live segments and live ranges of the register           *)
(* allocator, and what live-in and live-out mean.  A point is a pair of a  *)
(* block number and a position in the block; a live range is the set of    *)
(* its segments (the code keeps them sorted by start).                     *)
(***************************************************************************)
EXTENDS Integers, Sequences, FiniteSets

STEP == 16

Point == Nat \X Nat

(* Ord for ProgramPoint.                                                   *)
Before(p, q) == p[1] < q[1] \/ (p[1] = q[1] /\ p[2] < q[2])

Segment == [start : Point, end : Point]

NewPoint(pp) == [start |-> pp, end |-> pp]

(* Mutant: there is room only where a whole step is left.                  *)
HasBetweenStep(p, q) == p[1] = q[1] /\ q[2] - p[2] > STEP

(* ProgramPoint::between: there is a point strictly between p and q, and   *)
(* it is the one in the middle.                                            *)
HasBetween(p, q) == p[1] = q[1] /\ q[2] - p[2] > 1

Between(p, q) == <<p[1], (q[2] + p[2]) \div 2>>

(* LiveSegment::interfere and LiveRange::interfere.                        *)
SegInterfere(x, y) == Before(x.start, y.end) /\ Before(y.start, x.end)

Interfere(lr1, lr2) == \E x \in lr1, y \in lr2 : SegInterfere(x, y)

(* recompute_program_points_after, on one point: the points of the block   *)
(* at or after from are spread out by a factor of STEP.                    *)
Rescale(from, oneMore, pp) ==
  IF pp[1] = from[1] /\ pp[2] >= from[2]
  THEN <<pp[1], from[2] + (IF oneMore THEN STEP ELSE 0) + (pp[2] - from[2]) * STEP>>
  ELSE pp

RescaleSeg(from, oneMore, s) ==
  [start |-> Rescale(from, oneMore, s.start), end |-> Rescale(from, oneMore, s.end)]

RescaleRange(from, oneMore, lr) == {RescaleSeg(from, oneMore, s) : s \in lr}

----------------------------------------------------------------------------
(* What live-in and live-out mean: the least solution of the dataflow      *)
(* equations of a function without phis, for each register by itself.  fn  *)
(* has the fields preds, def and visits of module Liveness; its blocks are *)
(* the domain of preds.                                                    *)

LiveOutOf(fn, in, p) ==
  UNION {in[b] : b \in {c \in DOMAIN fn.preds : p \in fn.preds[c]}}

UsedIn(fn, b) ==
  {fn.visits[k].reg : k \in {j \in DOMAIN fn.visits : fn.visits[j].block = b}}

(* The blocks X solve the inequations for r: a block that does not define  *)
(* r and uses it, or is a predecessor of one of them, is one of them.      *)
LiveClosed(fn, r, X) ==
  \A b \in DOMAIN fn.preds :
    /\ r \notin fn.def[b]
    /\ r \in UsedIn(fn, b) \/ \E c \in X : b \in fn.preds[c]
    => b \in X

LeastLiveIn(fn) ==
  [b \in DOMAIN fn.preds |->
     {r \in UNION {UsedIn(fn, c) : c \in DOMAIN fn.preds} :
        \A X \in SUBSET DOMAIN fn.preds : LiveClosed(fn, r, X) => b \in X}]
=============================================================================
