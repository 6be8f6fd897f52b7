--------------------------- MODULE RegAllocProofs ---------------------------
(***************************************************************************)
(* For every register file and every set of functions: two virtual         *)
(* registers that the allocator puts in one register do not interfere.     *)
(*                                                                         *)
(* NoConflict is not inductive.  A vreg that is assigned is compared with  *)
(* the merged range of a register, so Merged relates that range to those   *)
(* of the vregs assigned before; a recomputation must change no            *)
(* comparison, so every range is made of program points; and a vreg is     *)
(* popped from the worklist once, and is new when the spiller makes it, so *)
(* WorkFresh and JobFresh keep the assigned vregs, the worklist, the vreg  *)
(* being spilled and the new vregs apart.                                  *)
(*                                                                         *)
(* First, what the allocator relies on when it inserts spill code:         *)
(* renumbering the points of a block changes no interference, and it makes *)
(* room behind an instruction where there was none.                        *)
(***************************************************************************)
EXTENDS RegAlloc, TLAPS, WellFoundedInduction

(* The new point lies strictly between its neighbours.                     *)
THEOREM BetweenIsBetween ==
  ASSUME NEW p \in Point, NEW q \in Point, HasBetween(p, q)
  PROVE  /\ Between(p, q) \in Point
         /\ Before(p, Between(p, q))
         /\ Before(Between(p, q), q)
<1>1. p[1] \in Nat /\ p[2] \in Nat /\ q[1] \in Nat /\ q[2] \in Nat
  BY DEF Point
<1>2. (q[2] + p[2]) \div 2 \in Nat /\ p[2] < (q[2] + p[2]) \div 2 /\ (q[2] + p[2]) \div 2 < q[2]
  BY <1>1 DEF HasBetween
<1> QED
  BY <1>1, <1>2 DEF Point, Before, Between, HasBetween

(* Renumbering keeps points points.                                        *)
LEMMA RescaleType ==
  ASSUME NEW from \in Point, NEW m \in BOOLEAN, NEW p \in Point
  PROVE  Rescale(from, m, p) \in Point
<1>1. p[1] \in Nat /\ p[2] \in Nat /\ from[1] \in Nat /\ from[2] \in Nat
  BY DEF Point
<1> QED
  BY <1>1 DEF Rescale, Point, STEP

(* Renumbering keeps the order of the points, in both directions.          *)
THEOREM RescaleKeepsOrder ==
  ASSUME NEW from \in Point, NEW m \in BOOLEAN, NEW p \in Point, NEW q \in Point
  PROVE  Before(Rescale(from, m, p), Rescale(from, m, q)) <=> Before(p, q)
<1>1. /\ p[1] \in Nat /\ p[2] \in Nat /\ q[1] \in Nat /\ q[2] \in Nat
      /\ from[1] \in Nat /\ from[2] \in Nat
  BY DEF Point
<1> DEFINE base == from[2] + (IF m THEN STEP ELSE 0)
           pos(x) == IF x[1] = from[1] /\ x[2] >= from[2]
                     THEN base + (x[2] - from[2]) * STEP ELSE x[2]
<1>2. \A x \in Point : Rescale(from, m, x)[1] = x[1] /\ Rescale(from, m, x)[2] = pos(x)
  BY DEF Rescale, Point
<1>3. base \in Nat /\ base >= from[2]
  BY <1>1 DEF STEP
<1> HIDE DEF base
<1>4. p[1] = q[1] => (pos(p) < pos(q) <=> p[2] < q[2])
  BY <1>1, <1>3 DEF STEP
<1> HIDE DEF pos
<1>5. /\ Rescale(from, m, p)[1] = p[1] /\ Rescale(from, m, p)[2] = pos(p)
      /\ Rescale(from, m, q)[1] = q[1] /\ Rescale(from, m, q)[2] = pos(q)
  BY <1>2
<1> QED
  BY <1>4, <1>5 DEF Before

(* After renumbering from p on, a point fits between p and any later point *)
(* of its block: the retry of insert_inst_after finds room.                *)
THEOREM RescaleMakesRoom ==
  ASSUME NEW p \in Point, NEW q \in Point, p[1] = q[1], Before(p, q)
  PROVE  HasBetween(Rescale(p, FALSE, p), Rescale(p, FALSE, q))
<1>1. p[1] \in Nat /\ p[2] \in Nat /\ q[1] \in Nat /\ q[2] \in Nat
  BY DEF Point
<1> QED
  BY <1>1 DEF Rescale, Before, STEP, HasBetween

(* Renumbering from q on leaves q where it is: the retry of                *)
(* insert_inst_before, which renumbers from the point it inserts before,   *)
(* finds as little room as the first attempt.                              *)
THEOREM RescaleBeforeMakesNoRoom ==
  ASSUME NEW p \in Point, NEW q \in Point, Before(p, q), ~HasBetween(p, q)
  PROVE  ~HasBetween(Rescale(q, FALSE, p), Rescale(q, FALSE, q))
<1>1. p[1] \in Nat /\ p[2] \in Nat /\ q[1] \in Nat /\ q[2] \in Nat
  BY DEF Point
<1>2. Rescale(q, FALSE, p) = p
  BY <1>1 DEF Rescale, Before
<1>3. Rescale(q, FALSE, q)[1] = q[1] /\ Rescale(q, FALSE, q)[2] = q[2]
  BY <1>1 DEF Rescale, STEP
<1> QED
  BY <1>2, <1>3 DEF HasBetween

(* Renumbering keeps segments segments and changes no interference.        *)
THEOREM RescaleKeepsInterference ==
  ASSUME NEW from \in Point, NEW m \in BOOLEAN,
         NEW lr1 \in SUBSET Segment, NEW lr2 \in SUBSET Segment
  PROVE  /\ RescaleRange(from, m, lr1) \in SUBSET Segment
         /\ Interfere(RescaleRange(from, m, lr1), RescaleRange(from, m, lr2))
              <=> Interfere(lr1, lr2)
<1>1. \A s \in Segment : s.start \in Point /\ s.end \in Point
  BY DEF Segment
<1>2. \A s \in Segment : RescaleSeg(from, m, s) \in Segment
  <2> TAKE s \in Segment
  <2>1. Rescale(from, m, s.start) \in Point /\ Rescale(from, m, s.end) \in Point
    BY <1>1, RescaleType
  <2> QED
    BY <2>1 DEF RescaleSeg, Segment
<1>3. \A x, y \in Segment :
        SegInterfere(RescaleSeg(from, m, x), RescaleSeg(from, m, y)) <=> SegInterfere(x, y)
  <2> TAKE x, y \in Segment
  <2>1. /\ Before(Rescale(from, m, x.start), Rescale(from, m, y.end)) <=> Before(x.start, y.end)
        /\ Before(Rescale(from, m, y.start), Rescale(from, m, x.end)) <=> Before(y.start, x.end)
    BY <1>1, RescaleKeepsOrder
  <2> QED
    BY <2>1 DEF SegInterfere, RescaleSeg
<1> QED
  BY <1>2, <1>3 DEF Interfere, RescaleRange

-----------------------------------------------------------------------------
Spilling == pc \in {"defs", "after", "insert_after", "uses", "before", "insert_before"}

BeforeLoop == pc = "around" \/ (Spilling /\ job.back = "around")

PointsTyped ==
  /\ \A i \in DOMAIN pp : pp[i] \in Point
  /\ ins.lo \in Point /\ ins.hi \in Point

RangesTyped ==
  /\ nextReg \in Nat
  /\ \A v \in DOMAIN vlr : v \in Nat /\ v < nextReg /\ vlr[v] \in SUBSET Segment
  /\ rlr \in [Phys -> SUBSET Segment]

Merged ==
  \A v \in DOMAIN assigned :
    v \in DOMAIN vlr /\ assigned[v] \in Phys /\ vlr[v] \subseteq rlr[assigned[v]]

Waiting == DOMAIN vlr \ DOMAIN assigned

WorkFresh ==
  /\ DOMAIN pool \subseteq Waiting
  /\ fifo \in Seq(Waiting \ DOMAIN pool)
  /\ \A i, j \in DOMAIN fifo : fifo[i] = fifo[j] => i = j
  /\ BeforeLoop => /\ DOMAIN assigned = {} /\ DOMAIN pool = {} /\ fifo = <<>>
                   /\ all \subseteq DOMAIN vlr
  /\ \A p \in around : p[2] \in Nat /\ p[2] < nextReg

FreshOK(fresh) ==
  /\ fresh \in Seq(Nat)
  /\ \A k \in DOMAIN fresh : fresh[k] < nextReg /\ fresh[k] \notin DOMAIN vlr /\ fresh[k] # job.vreg
  /\ \A i, j \in DOMAIN fresh : fresh[i] = fresh[j] => i = j

JobFresh ==
  /\ DOMAIN job = {"vreg", "slot", "defs", "uses", "fresh", "back"}
  /\ Spilling =>
       /\ job.back \in {"around", "alloc"}
       /\ job.vreg \in Nat /\ job.vreg < nextReg
       /\ job.vreg \notin DOMAIN assigned \cup DOMAIN pool
       /\ \A k \in DOMAIN fifo : fifo[k] # job.vreg
       /\ FreshOK(job.fresh)

(* The invariant of the pass that contains NoConflict.                     *)
IInv == PointsTyped /\ RangesTyped /\ Merged /\ NoConflict /\ WorkFresh /\ JobFresh

-----------------------------------------------------------------------------
(* Min and Max of the positions in a block exist.                          *)
Less == {ss \in Nat \X Nat : ss[1] < ss[2]}

(* The order of the positions in a block is well-founded.                  *)
LEMMA LessWellFounded == IsWellFoundedOn(Less, Nat)
  BY NatLessThanWellFounded DEF OpToRel, Less

(* Less is the usual order.                                                *)
LEMMA LessIs == \A a, b \in Nat : a < b => <<a, b>> \in Less
<1> SUFFICES ASSUME NEW a \in Nat, NEW b \in Nat, a < b PROVE <<a, b>> \in Less
  OBVIOUS
<1>1. <<a, b>> \in Nat \X Nat
  OBVIOUS
<1>2. <<a, b>>[1] < <<a, b>>[2]
  OBVIOUS
<1> QED
  BY <1>1, <1>2 DEF Less

(* The first touch of a register in a block, which VRegSegment takes with  *)
(* Min, is a touch, and no other comes before it.                          *)
LEMMA MinInSet ==
  ASSUME NEW S \in SUBSET Nat, S # {}
  PROVE  Min(S) \in S /\ \A y \in S : Min(S) =< y
<1>1. PICK x \in S : \A y \in S : ~ (<<y, x>> \in Less)
  BY LessWellFounded, WFMin
<1>2. \A y \in S : x =< y
  <2> TAKE y \in S
  <2>1. <<y, x>> \notin Less
    BY <1>1
  <2>2. ~(y < x)
    BY <2>1, LessIs
  <2> QED
    BY <2>2
<1> QED
  BY <1>2 DEF Min

(* So is the last one, which it takes with Max.                            *)
LEMMA MaxInSet ==
  ASSUME NEW n \in Nat, NEW S \in SUBSET (0..n), S # {}
  PROVE  Max(S) \in S /\ \A y \in S : Max(S) >= y
<1> DEFINE T == {m \in Nat : n - m \in S}
<1>1. T # {} /\ T \subseteq Nat
  <2>1. PICK s \in S : TRUE
    OBVIOUS
  <2>2. n - s \in Nat /\ n - (n - s) = s
    BY s \in 0..n
  <2> QED
    BY <2>2
<1>2. PICK x \in T : \A y \in T : ~ (<<y, x>> \in Less)
  <2> HIDE DEF T
  <2> QED
    BY <1>1, LessWellFounded, WFMin
<1>3. \A y \in S : n - x >= y
  <2> TAKE y \in S
  <2>1. y \in Int /\ 0 =< y /\ y =< n
    OBVIOUS
  <2>2. n - y \in T
    BY <2>1
  <2>3. <<n - y, x>> \notin Less
    BY <2>2, <1>2
  <2>4. ~(n - y < x)
    BY <2>2, <2>3, LessIs
  <2> QED
    BY <2>1, <2>4
<1> QED
  BY <1>3 DEF Max

-----------------------------------------------------------------------------
(* A block of a function is a sequence of its instructions.                *)
LEMMA BlockTyped ==
  ASSUME NEW g \in Functions, NEW b \in DOMAIN g.code
  PROVE  b \in Nat /\ g.code[b] \in Seq(DOMAIN g.inst)
<1>1. g.code \in Seq(Seq(DOMAIN g.inst))
  BY FunctionsAssumption
<1> DEFINE S == Seq(DOMAIN g.inst)
<1> HIDE DEF S
<1>2. b \in Nat /\ g.code[b] \in S
  BY <1>1 DEF S
<1> QED
  BY <1>2 DEF S

(* What the analysis computes is made of program points.                   *)
LEMMA InitialPointsTyped ==
  ASSUME NEW g \in Functions
  PROVE  \A i \in DOMAIN InitialPoints(g) : InitialPoints(g)[i] \in Point
<1> SUFFICES ASSUME NEW i \in DOMAIN g.inst
             PROVE  InitialPoints(g)[i] \in Point
  BY DEF InitialPoints
<1> DEFINE b == CHOOSE c \in DOMAIN g.code : i \in Range(g.code[c])
           k == CHOOSE j \in DOMAIN g.code[b] : g.code[b][j] = i
<1>1. b \in DOMAIN g.code /\ i \in Range(g.code[b])
  BY FunctionsAssumption
<1>2. b \in Nat /\ g.code[b] \in Seq(DOMAIN g.inst)
  BY <1>1, BlockTyped
<1> HIDE DEF b
<1>3. k \in DOMAIN g.code[b]
  BY <1>1 DEF Range
<1>4. k \in Nat
  BY <1>2, <1>3
<1> HIDE DEF k
<1>5. InitialPoints(g)[i] = <<b, k * STEP>>
  BY DEF InitialPoints, b, k
<1> QED
  BY <1>2, <1>4, <1>5 DEF Point, STEP

(* The segment of a vreg in a block that touches it or has it live-in.     *)
LEMMA VRegSegmentTyped ==
  ASSUME NEW g \in Functions, NEW liveIn, NEW liveOut, NEW v, NEW b \in DOMAIN g.code,
         Touching(g, b, v) # {} \/ v \in liveIn[b]
  PROVE  VRegSegment(g, liveIn, liveOut, v, b) \in Segment
<1> DEFINE touch == Touching(g, b, v)
           n == Len(g.code[b])
<1>1. b \in Nat /\ g.code[b] \in Seq(DOMAIN g.inst)
  BY BlockTyped
<1>2. n \in Nat /\ DOMAIN g.code[b] = 1..n
  BY <1>1
<1>3. touch \in SUBSET (1..n)
  BY <1>2 DEF Touching
<1> HIDE DEF touch, n
<1>4. touch # {} => Min(touch) \in Nat
  <2>1. touch \in SUBSET Nat
    BY <1>2, <1>3
  <2> QED
    BY <2>1, MinInSet
<1>5. Max(touch \cup {0}) \in Nat
  <2>1. touch \cup {0} \in SUBSET (0..n) /\ touch \cup {0} # {}
    BY <1>2, <1>3
  <2>2. Max(touch \cup {0}) \in touch \cup {0}
    BY <1>2, <2>1, MaxInSet
  <2> QED
    BY <1>2, <2>1, <2>2
<1> DEFINE fromStart == \/ v \in liveIn[b]
                        \/ v \in Inputs(g.inst[g.code[b][Min(touch)]])
           first == IF fromStart THEN 0 ELSE STEP * Min(touch)
           last == STEP * Max(touch \cup {0})
           out == STEP * (n + 1)
<1>6. first \in Nat /\ last \in Nat /\ out \in Nat
  BY <1>2, <1>4, <1>5 DEF STEP, touch
<1>7. VRegSegment(g, liveIn, liveOut, v, b) =
        [start |-> <<b, first>>, end |-> IF v \in liveOut[b] THEN <<b, out>> ELSE <<b, last>>]
  BY DEF VRegSegment, BlockEnd, touch, n
<1> HIDE DEF first, last, out
<1> QED
  BY <1>1, <1>6, <1>7 DEF Segment, Point

(* The segments of a physical register in a block.                         *)
LEMMA RegSegmentsTyped ==
  ASSUME NEW g \in Functions, NEW liveIn, NEW liveOut, NEW r, NEW b \in DOMAIN g.code
  PROVE  RegSegments(g, liveIn, liveOut, r, b) \in SUBSET Segment
<1>1. b \in Nat /\ g.code[b] \in Seq(DOMAIN g.inst)
  BY BlockTyped
<1> DEFINE points == {STEP * k : k \in Touching(g, b, r)} \cup (IF r \in liveIn[b] THEN {0} ELSE {})
<1>2. points \in SUBSET Nat
  BY <1>1 DEF Touching, STEP
<1>3. BlockEnd(g, b) \in Point
  BY <1>1 DEF BlockEnd, STEP, Point
<1>4. RegSegments(g, liveIn, liveOut, r, b) =
        {[start |-> <<b, p>>,
          end |-> IF r \in liveOut[b] /\ p = Max(points) THEN BlockEnd(g, b) ELSE <<b, p>>] :
         p \in points}
  BY DEF RegSegments
<1> HIDE DEF points
<1>5. \A p \in points : <<b, p>> \in Point
  BY <1>1, <1>2 DEF Point
<1> QED
  BY <1>3, <1>4, <1>5 DEF Segment

(* The vregs of a function are below VRegs.cur.                            *)
LEMMA AllVRegsTyped ==
  ASSUME NEW g \in Functions, NEW i \in DOMAIN g.inst, NEW r \in AllVRegs(g.inst[i])
  PROVE  r \in Nat /\ r < g.nregs
<1> DEFINE A == [tag : {"use", "def", "inout", "rmw", "raw"}, reg : 0..g.nregs-1]
           I == [op : {"op", "copy", "call"}, args : Seq(A), slot : Nat]
<1>1. g.inst \in Seq(I) /\ g.nregs \in Nat
  BY FunctionsAssumption
<1> HIDE DEF I
<1>2. g.inst[i] \in I
  BY <1>1
<1> HIDE DEF A
<1>3. g.inst[i].args \in Seq(A)
  BY <1>2 DEF I
<1>4. \A a \in Range(g.inst[i].args) : a \in A
  BY <1>3 DEF Range
<1>5. \A a \in A : a.reg \in 0..g.nregs-1
  BY DEF A
<1>6. PICK a \in Range(g.inst[i].args) : r = a.reg
  BY DEF AllVRegs
<1> QED
  BY <1>1, <1>4, <1>5, <1>6

(* The result of the analysis satisfies the invariant.                     *)
LEMMA InitIInv ==
  ASSUME Init
  PROVE  IInv
<1>1. PICK g \in Functions : Analyzed(g)
  BY DEF Init
<1> DEFINE liveIn == LeastLiveIn(Summary(g))
           liveOut == [b \in DOMAIN g.code |-> LiveOutOf(Summary(g), liveIn, b)]
           names == UNION {AllVRegs(g.inst[i]) : i \in DOMAIN g.inst}
<1>2. /\ pp = InitialPoints(g)
      /\ vlr = [v \in names |-> VRegRange(g, liveIn, liveOut, v)]
      /\ rlr = [r \in Phys |-> RegRange(g, liveIn, liveOut, r)]
      /\ around = AliveAround(g, pp, vlr)
      /\ all = DOMAIN vlr
      /\ nextReg = g.nregs
  BY <1>1 DEF Analyzed
<1>3. \A v \in names : v \in Nat /\ v < g.nregs
  BY AllVRegsTyped
<1> HIDE DEF liveIn, liveOut, names
<1>4. \A v \in names : VRegRange(g, liveIn, liveOut, v) \in SUBSET Segment
  BY VRegSegmentTyped DEF VRegRange
<1>5. \A r \in Phys : RegRange(g, liveIn, liveOut, r) \in SUBSET Segment
  BY RegSegmentsTyped DEF RegRange
<1>6. DOMAIN vlr = names /\ g.nregs \in Nat
  BY <1>2, FunctionsAssumption
<1>7. PointsTyped
  BY <1>2, InitialPointsTyped DEF PointsTyped, Init, NoIns, Insertion, Point
<1>8. RangesTyped
  BY <1>2, <1>3, <1>4, <1>5, <1>6 DEF RangesTyped
<1>9. DOMAIN assigned = {} /\ DOMAIN pool = {} /\ fifo = <<>> /\ pc = "around"
  BY DEF Init
<1>10. WorkFresh
  <2>1. \A p \in around : p[2] \in names
    BY <1>2, <1>6 DEF AliveAround
  <2> QED
    BY <1>2, <1>3, <1>6, <1>9, <2>1 DEF WorkFresh
<1>11. JobFresh
  BY <1>9 DEF Init, JobFresh, Spilling, NoJob
<1> QED
  BY <1>7, <1>8, <1>9, <1>10, <1>11 DEF IInv, Merged, NoConflict

-----------------------------------------------------------------------------
(* Recomputing the points moves the ranges but changes no interference and *)
(* no inclusion.                                                           *)
LEMMA RecomputeKeeps ==
  ASSUME IInv, NEW from \in Point, NEW m \in BOOLEAN, RecomputePoints(from, m),
         UNCHANGED <<assigned, nextReg>>
  PROVE  /\ \A i \in DOMAIN pp' : pp'[i] \in Point
         /\ DOMAIN vlr' = DOMAIN vlr
         /\ RangesTyped' /\ Merged' /\ NoConflict'
<1>1. \A i \in DOMAIN pp' : pp'[i] \in Point
  BY RescaleType DEF IInv, PointsTyped, RecomputePoints
<1>2. /\ DOMAIN vlr' = DOMAIN vlr
      /\ \A v \in DOMAIN vlr : vlr'[v] = RescaleRange(from, m, vlr[v])
      /\ rlr' = [r \in Phys |-> RescaleRange(from, m, rlr[r])]
  BY DEF RecomputePoints
<1>3. /\ \A v \in DOMAIN vlr : vlr[v] \in SUBSET Segment
      /\ \A r \in Phys : rlr[r] \in SUBSET Segment
  BY DEF IInv, RangesTyped
<1>4. \A lr \in SUBSET Segment : RescaleRange(from, m, lr) \in SUBSET Segment
  BY RescaleKeepsInterference
<1>5. \A lr1, lr2 \in SUBSET Segment :
        Interfere(RescaleRange(from, m, lr1), RescaleRange(from, m, lr2)) <=> Interfere(lr1, lr2)
  BY RescaleKeepsInterference
<1>6. \A lr1, lr2 : lr1 \subseteq lr2 => RescaleRange(from, m, lr1) \subseteq RescaleRange(from, m, lr2)
  BY DEF RescaleRange
<1>7. RangesTyped'
  BY <1>2, <1>3, <1>4 DEF IInv, RangesTyped
<1>8. Merged'
  <2>1. \A v \in DOMAIN assigned :
          v \in DOMAIN vlr /\ assigned[v] \in Phys /\ vlr[v] \subseteq rlr[assigned[v]]
    BY DEF IInv, Merged
  <2>2. assigned' = assigned
    OBVIOUS
  <2> QED
    BY <1>2, <1>6, <2>1, <2>2 DEF Merged
<1>9. NoConflict'
  <2>1. \A v \in DOMAIN assigned : v \in DOMAIN vlr
    BY DEF IInv, Merged
  <2>2. assigned' = assigned
    OBVIOUS
  <2> QED
    BY <1>2, <1>3, <1>5, <2>1, <2>2 DEF IInv, NoConflict
<1> QED
  BY <1>1, <1>2, <1>7, <1>8, <1>9

(* An action that leaves the ranges and the assignment alone keeps what    *)
(* is said of them.                                                        *)
LEMMA RangesKept ==
  ASSUME IInv, UNCHANGED <<vlr, rlr, assigned>>, nextReg' \in Nat, nextReg' >= nextReg
  PROVE  RangesTyped' /\ Merged' /\ NoConflict'
  BY DEF IInv, RangesTyped, Merged, NoConflict

(* The worklist is kept by an action that does not touch it.               *)
LEMMA WorkKept ==
  ASSUME IInv, UNCHANGED <<assigned, pool, fifo, all, around>>, DOMAIN vlr' = DOMAIN vlr,
         nextReg' \in Nat, nextReg' >= nextReg, BeforeLoop' => BeforeLoop
  PROVE  WorkFresh'
  BY DEF IInv, WorkFresh, Waiting, RangesTyped

(* So is what is known of the spill in progress.                           *)
LEMMA JobKept ==
  ASSUME IInv, UNCHANGED <<assigned, pool, fifo, job>>, DOMAIN vlr' = DOMAIN vlr,
         nextReg' = nextReg, Spilling' => Spilling
  PROVE  JobFresh'
  BY DEF IInv, JobFresh, FreshOK

(* The insertion of one load or store: it recomputes the points, or does   *)
(* not touch the ranges.                                                   *)
LEMMA InsertionKeepsIInv ==
  ASSUME IInv,
         LocateAfter \/ LocateBefore \/ LocateAtStart \/ InsertAfter \/ InsertBefore
  PROVE  IInv'
<1>1. /\ UNCHANGED <<assigned, around, all, pool, fifo, job, nextReg>>
      /\ Spilling
  BY DEF LocateAfter, LocateBefore, LocateAtStart, InsertAfter, InsertBefore, Spilling
<1>2. /\ ins.lo \in Point /\ ins.hi \in Point
      /\ \A i \in DOMAIN pp : pp[i] \in Point
      /\ nextReg \in Nat
  BY DEF IInv, PointsTyped, RangesTyped
<1>3. /\ \A i \in DOMAIN pp' : pp'[i] \in Point
      /\ DOMAIN vlr' = DOMAIN vlr
      /\ RangesTyped' /\ Merged' /\ NoConflict'
  <2>1. CASE UNCHANGED <<pp, vlr, rlr>>
    BY <2>1, <1>1, <1>2, RangesKept
  <2>2. CASE HasBetween(ins.lo, ins.hi) /\ \E k : Place(k)
    <3>1. UNCHANGED <<vlr, rlr>>
      BY <2>2 DEF Place
    <3>2. Between(ins.lo, ins.hi) \in Point
      BY <2>2, <1>2, BetweenIsBetween
    <3>3. \A i \in DOMAIN pp' : pp'[i] \in Point
      BY <2>2, <3>2, <1>2 DEF Place
    <3> QED
      BY <3>1, <3>3, <1>1, <1>2, RangesKept
  <2>3. CASE \E from \in Point, m \in BOOLEAN : RecomputePoints(from, m)
    BY <2>3, <1>1, RecomputeKeeps
  <2>4. LocateAfter \/ LocateBefore => UNCHANGED <<pp, vlr, rlr>>
    BY DEF LocateAfter, LocateBefore
  <2>5. LocateAtStart => \E from \in Point, m \in BOOLEAN : RecomputePoints(from, m)
    <3> SUFFICES ASSUME LocateAtStart
                 PROVE  \E from \in Point, m \in BOOLEAN : RecomputePoints(from, m)
      OBVIOUS
    <3>1. pp[ins.at] \in Point /\ RecomputePoints(pp[ins.at], TRUE)
      BY <1>2 DEF LocateAtStart
    <3> QED
      BY <3>1
  <2>6. InsertAfter \/ InsertBefore =>
          \/ HasBetween(ins.lo, ins.hi) /\ \E k : Place(k)
          \/ RecomputePoints(ins.lo, FALSE)
          \/ RecomputePoints(ins.hi, FALSE)
    BY DEF InsertAfter, InsertBefore, MakeRoom
  <2> QED
    BY <2>1, <2>2, <2>3, <2>4, <2>5, <2>6, <1>2
<1>4. ins'.lo \in Point /\ ins'.hi \in Point
  <2>1. CASE LocateAfter
    BY <2>1, <1>2 DEF LocateAfter, Insertion
  <2>2. CASE LocateBefore
    BY <2>2, <1>2 DEF LocateBefore, Insertion
  <2>3. CASE LocateAtStart
    <3>1. pp[ins.at] \in Point
      BY <2>3, <1>2 DEF LocateAtStart
    <3>2. <<pp[ins.at][1], 0>> \in Point
      BY <3>1 DEF Point
    <3> QED
      BY <2>3, <3>1, <3>2 DEF LocateAtStart, Insertion
  <2>4. CASE InsertAfter \/ InsertBefore
    BY <2>4, <1>2 DEF InsertAfter, InsertBefore
  <2> QED
    BY <2>1, <2>2, <2>3, <2>4
<1>5. BeforeLoop' => BeforeLoop
  BY <1>1 DEF BeforeLoop, Spilling, LocateAfter, LocateBefore, LocateAtStart, InsertAfter,
              InsertBefore, UnlessOverflow
<1>6. WorkFresh'
  BY <1>1, <1>2, <1>3, <1>5, WorkKept
<1>7. JobFresh'
  BY <1>1, <1>3, JobKept
<1> QED
  BY <1>3, <1>4, <1>6, <1>7 DEF IInv, PointsTyped

(* The spiller's steps between two insertions: the vreg it takes is above  *)
(* all others.                                                             *)
LEMMA SpillStepKeepsIInv ==
  ASSUME IInv, SpillDef \/ SpillUse \/ CollectUses
  PROVE  IInv'
<1>1. /\ UNCHANGED <<pp, vlr, rlr, assigned, around, all, pool, fifo>>
      /\ Spilling /\ Spilling'
  BY DEF SpillDef, SpillUse, CollectUses, Spilling
<1>2. DOMAIN job = {"vreg", "slot", "defs", "uses", "fresh", "back"} /\ nextReg \in Nat
  BY DEF IInv, JobFresh, RangesTyped
<1>3. /\ job'.vreg = job.vreg /\ job'.back = job.back
      /\ DOMAIN job' = {"vreg", "slot", "defs", "uses", "fresh", "back"}
      /\ \/ job'.fresh = job.fresh /\ nextReg' = nextReg
         \/ job'.fresh = Append(job.fresh, nextReg) /\ nextReg' = nextReg + 1
  BY <1>2 DEF SpillDef, SpillUse, CollectUses
<1>4. nextReg' \in Nat /\ nextReg' >= nextReg
  BY <1>2, <1>3
<1>5. PointsTyped'
  <2>1. ins' = ins \/ \E i, k : ins' = Insertion(i, k, <<0, 0>>, <<0, 0>>)
    BY DEF SpillDef, SpillUse, CollectUses
  <2>2. <<0, 0>> \in Point
    BY DEF Point
  <2> QED
    BY <1>1, <2>1, <2>2 DEF IInv, PointsTyped, Insertion
<1>6. WorkFresh'
  BY <1>1, <1>3, <1>4, WorkKept DEF BeforeLoop, Spilling
<1>7. /\ job.back \in {"around", "alloc"}
      /\ job.vreg \in Nat /\ job.vreg < nextReg
      /\ job.vreg \notin DOMAIN assigned \cup DOMAIN pool
      /\ \A k \in DOMAIN fifo : fifo[k] # job.vreg
      /\ FreshOK(job.fresh)
  BY <1>1 DEF IInv, JobFresh
<1>8. \A v \in DOMAIN vlr : v \in Nat /\ v < nextReg
  BY DEF IInv, RangesTyped
<1>9. FreshOK(job.fresh)'
  <2>1. CASE job'.fresh = job.fresh /\ nextReg' = nextReg
    BY <2>1, <1>1, <1>3, <1>7 DEF FreshOK
  <2>2. CASE job'.fresh = Append(job.fresh, nextReg) /\ nextReg' = nextReg + 1
    <3>1. /\ job.fresh \in Seq(Nat)
          /\ \A k \in DOMAIN job.fresh :
               job.fresh[k] < nextReg /\ job.fresh[k] \notin DOMAIN vlr /\ job.fresh[k] # job.vreg
          /\ \A i, j \in DOMAIN job.fresh : job.fresh[i] = job.fresh[j] => i = j
      BY <1>7 DEF FreshOK
    <3> DEFINE s == job.fresh
               t == Append(s, nextReg)
    <3>2. /\ t \in Seq(Nat) /\ DOMAIN t = 1..Len(s)+1 /\ Len(s) \in Nat
          /\ DOMAIN s = 1..Len(s)
          /\ \A k \in DOMAIN s : t[k] = s[k] /\ s[k] \in Nat
          /\ t[Len(s)+1] = nextReg
      BY <3>1, <1>2
    <3> HIDE DEF t
    <3>3. \A k \in DOMAIN t : t[k] < nextReg + 1 /\ t[k] \notin DOMAIN vlr /\ t[k] # job.vreg
      BY <3>1, <3>2, <1>2, <1>7, <1>8, SMTT(20)
    <3>4. \A i, j \in DOMAIN t : t[i] = t[j] => i = j
      BY <3>1, <3>2, <1>2, SMTT(20)
    <3> QED
      BY <2>2, <3>2, <3>3, <3>4, <1>1, <1>3 DEF FreshOK, t
  <2> QED
    BY <1>3, <2>1, <2>2
<1>10. JobFresh'
  BY <1>1, <1>2, <1>3, <1>4, <1>7, <1>9 DEF JobFresh
<1> QED
  BY <1>1, <1>4, <1>5, <1>6, <1>10, RangesKept DEF IInv

(* The vreg popped from the worklist is waiting there once.                *)
LEMMA PopFrontKeepsWork ==
  ASSUME IInv, NEW v \in Fronts, PopFront(v)
  PROVE  /\ v \in Waiting
         /\ DOMAIN pool' = DOMAIN pool \ {v}
         /\ fifo' \in Seq(Waiting \ (DOMAIN pool' \cup {v}))
         /\ \A i, j \in DOMAIN fifo' : fifo'[i] = fifo'[j] => i = j
<1>1. /\ DOMAIN pool \subseteq Waiting
      /\ fifo \in Seq(Waiting \ DOMAIN pool)
      /\ \A i, j \in DOMAIN fifo : fifo[i] = fifo[j] => i = j
  BY DEF IInv, WorkFresh
<1>2. DOMAIN pool' = DOMAIN pool \ {v}
  BY DEF PopFront
<1> DEFINE S == Waiting \ (DOMAIN pool' \cup {v})
<1>3. CASE DOMAIN pool # {}
  <2>1. v \in DOMAIN pool /\ fifo' = fifo
    BY <1>3 DEF Fronts, PopFront
  <2>2. S = Waiting \ DOMAIN pool
    BY <2>1, <1>2
  <2> QED
    BY <2>1, <2>2, <1>1, <1>2
<1>4. CASE DOMAIN pool = {}
  <2>1. fifo # <<>> /\ v = fifo[1] /\ fifo' = Tail(fifo)
    BY <1>4 DEF Fronts, PopFront
  <2>2. /\ fifo' \in Seq(Waiting) /\ Len(fifo) \in Nat /\ Len(fifo) > 0
        /\ DOMAIN fifo = 1..Len(fifo)
        /\ v \in Waiting
        /\ DOMAIN fifo' = 1..Len(fifo)-1
        /\ \A k \in DOMAIN fifo' : fifo'[k] = fifo[k+1] /\ k + 1 \in DOMAIN fifo
    BY <2>1, <1>1, <1>4
  <2>3. \A k \in DOMAIN fifo' : fifo'[k] \in Waiting /\ fifo'[k] # v
    BY <2>1, <2>2, <1>1
  <2>4. \A i, j \in DOMAIN fifo' : fifo'[i] = fifo'[j] => i = j
    BY <2>2, <1>1
  <2>5. S = Waiting \ {v}
    BY <1>2, <1>4
  <2>6. fifo' \in Seq(S)
    BY <2>2, <2>3, <2>5
  <2> QED
    BY <2>2, <2>4, <2>6, <1>2
<1> QED
  BY <1>3, <1>4

(* The vreg to spill is not assigned: it comes from the worklist, or       *)
(* nothing is assigned yet.                                                *)
LEMMA StartSpillKeepsIInv ==
  ASSUME IInv, SpillAroundCall \/ SpillVReg
  PROVE  IInv'
<1>1. UNCHANGED <<pp, vlr, rlr, assigned, all, ins, nextReg>> /\ ~Spilling /\ Spilling'
  BY DEF SpillAroundCall, SpillVReg, StartSpill, Spilling
<1>2. nextReg \in Nat /\ \A v \in DOMAIN vlr : v \in Nat /\ v < nextReg
  BY DEF IInv, RangesTyped
<1>3. PointsTyped' /\ RangesTyped' /\ Merged' /\ NoConflict'
  BY <1>1, <1>2, RangesKept DEF IInv, PointsTyped
<1>4. FreshOK(<<>>)'
  BY DEF FreshOK
<1>5. CASE SpillAroundCall
  <2>1. PICK p \in around : around' = around \ {p} /\ StartSpill(p[2])
    BY <1>5 DEF SpillAroundCall
  <2>2. pc = "around" /\ UNCHANGED <<pool, fifo>>
    BY <1>5 DEF SpillAroundCall
  <2>3. /\ DOMAIN assigned = {} /\ DOMAIN pool = {} /\ fifo = <<>> /\ all \subseteq DOMAIN vlr
        /\ \A q \in around : q[2] \in Nat /\ q[2] < nextReg
    BY <2>2 DEF IInv, WorkFresh, BeforeLoop
  <2>4. WorkFresh'
    BY <1>1, <2>1, <2>2, <2>3 DEF WorkFresh
  <2>5. job'.vreg = p[2] /\ job'.fresh = <<>> /\ job'.back = pc
        /\ DOMAIN job' = {"vreg", "slot", "defs", "uses", "fresh", "back"}
    BY <2>1 DEF StartSpill
  <2>6. JobFresh'
    BY <1>1, <1>4, <2>1, <2>2, <2>3, <2>5 DEF JobFresh
  <2> QED
    BY <1>3, <2>4, <2>6 DEF IInv
<1>6. CASE SpillVReg
  <2>1. PICK v \in Fronts : StartSpill(v) /\ PopFront(v)
    BY <1>6 DEF SpillVReg
  <2>2. pc = "alloc" /\ UNCHANGED around
    BY <1>6 DEF SpillVReg
  <2>3. /\ v \in Waiting
        /\ DOMAIN pool' = DOMAIN pool \ {v}
        /\ fifo' \in Seq(Waiting \ (DOMAIN pool' \cup {v}))
        /\ \A i, j \in DOMAIN fifo' : fifo'[i] = fifo'[j] => i = j
    BY <2>1, PopFrontKeepsWork
  <2>4. job'.vreg = v /\ job'.fresh = <<>> /\ job'.back = pc
        /\ DOMAIN job' = {"vreg", "slot", "defs", "uses", "fresh", "back"}
    BY <2>1 DEF StartSpill
  <2>5. Waiting' = Waiting
    BY <1>1 DEF Waiting
  <2>6. /\ \A k \in DOMAIN fifo' : fifo'[k] # v
        /\ fifo' \in Seq(Waiting' \ DOMAIN pool')
    BY <2>3, <2>5
  <2>7. ~BeforeLoop' /\ DOMAIN pool' \subseteq Waiting'
    BY <1>1, <2>2, <2>3, <2>4, <2>5 DEF BeforeLoop, Spilling, IInv, WorkFresh
  <2>8. \A q \in around' : q[2] \in Nat /\ q[2] < nextReg'
    BY <1>1, <2>2 DEF IInv, WorkFresh
  <2>9. WorkFresh'
    BY <2>3, <2>6, <2>7, <2>8 DEF WorkFresh
  <2>10. JobFresh'
    BY <1>1, <1>2, <1>4, <2>2, <2>3, <2>4, <2>6 DEF JobFresh, Waiting
  <2> QED
    BY <1>3, <2>9, <2>10 DEF IInv
<1> QED
  BY <1>5, <1>6

(* Assign compares the vreg with everything already in the register.       *)
LEMMA AssignKeepsIInv ==
  ASSUME IInv, Assign
  PROVE  IInv'
<1>1. PICK v \in Fronts, r \in Phys :
        /\ FirstFree(v, r)
        /\ assigned' = [w \in DOMAIN assigned \cup {v} |-> IF w = v THEN r ELSE assigned[w]]
        /\ rlr' = [rlr EXCEPT ![r] = Merge(r, v)]
        /\ PopFront(v)
  BY DEF Assign
<1>2. pc = "alloc" /\ UNCHANGED <<pc, pp, vlr, around, all, job, ins, nextReg>>
  BY DEF Assign
<1>3. /\ v \in Waiting
      /\ DOMAIN pool' = DOMAIN pool \ {v}
      /\ fifo' \in Seq(Waiting \ (DOMAIN pool' \cup {v}))
      /\ \A i, j \in DOMAIN fifo' : fifo'[i] = fifo'[j] => i = j
  BY <1>1, PopFrontKeepsWork
<1>4. /\ rlr \in [Phys -> SUBSET Segment]
      /\ \A w \in DOMAIN vlr : vlr[w] \in SUBSET Segment
      /\ v \in DOMAIN vlr /\ v \notin DOMAIN assigned
  BY <1>3 DEF IInv, RangesTyped, Waiting
<1>5. /\ rlr'[r] = rlr[r] \cup vlr[v]
      /\ \A q \in Phys : rlr[q] \subseteq rlr'[q]
      /\ rlr' \in [Phys -> SUBSET Segment]
  BY <1>1, <1>4 DEF Merge
<1>6. DOMAIN assigned' = DOMAIN assigned \cup {v} /\ assigned'[v] = r
      /\ \A w \in DOMAIN assigned : assigned'[w] = assigned[w]
  BY <1>1, <1>4
<1>7. ~Interfere(vlr[v], rlr[r])
  BY <1>1 DEF FirstFree, Free
<1>8. \A w \in DOMAIN assigned :
        w \in DOMAIN vlr /\ assigned[w] \in Phys /\ vlr[w] \subseteq rlr[assigned[w]]
  BY DEF IInv, Merged
<1>9. NoConflict'
  <2>1. \A w \in DOMAIN assigned :
          assigned[w] = r => ~Interfere(vlr[v], vlr[w]) /\ ~Interfere(vlr[w], vlr[v])
    BY <1>7, <1>8 DEF Interfere, SegInterfere
  <2>2. \A w, x \in DOMAIN assigned :
          w # x /\ assigned[w] = assigned[x] => ~Interfere(vlr[w], vlr[x])
    BY DEF IInv, NoConflict
  <2> QED
    BY <2>1, <2>2, <1>2, <1>6 DEF NoConflict
<1>10. Merged'
  BY <1>2, <1>4, <1>5, <1>6, <1>8 DEF Merged
<1>11. PointsTyped' /\ RangesTyped'
  BY <1>2, <1>5 DEF IInv, PointsTyped, RangesTyped
<1>12. WorkFresh'
  <2>1. Waiting' = Waiting \ {v}
    BY <1>2, <1>6 DEF Waiting
  <2>2. fifo' \in Seq(Waiting' \ DOMAIN pool')
    <3>1. Waiting' \ DOMAIN pool' = Waiting \ (DOMAIN pool' \cup {v})
      BY <2>1
    <3> QED
      BY <3>1, <1>3
  <2>3. DOMAIN pool' \subseteq Waiting'
    BY <1>3, <2>1 DEF IInv, WorkFresh
  <2>4. ~BeforeLoop' /\ \A q \in around' : q[2] \in Nat /\ q[2] < nextReg'
    BY <1>2 DEF BeforeLoop, Spilling, IInv, WorkFresh
  <2> QED
    BY <1>3, <2>2, <2>3, <2>4 DEF WorkFresh
<1>13. JobFresh'
  BY <1>2 DEF IInv, JobFresh, Spilling
<1> QED
  BY <1>9, <1>10, <1>11, <1>12, <1>13 DEF IInv

(* The range of a new vreg is made of the points of its instructions.      *)
LEMMA FreshRangeTyped ==
  ASSUME PointsTyped, NEW v, HasRange(v)
  PROVE  FreshRange(v) \in SUBSET Segment
<1>1. /\ FirstOf(Writers(v)) \subseteq DOMAIN pp
      /\ LastOf(PureReads(v)) \subseteq DOMAIN pp
  BY DEF HasRange, FirstOf, LastOf, Writers, PureReads
<1> QED
  BY <1>1 DEF FreshRange, PointsTyped, Segment

(* The end of a spill replaces the range of a vreg that nothing is         *)
(* assigned for by ranges of vregs that nothing has been assigned for yet. *)
LEMMA FinishSpillKeepsIInv ==
  ASSUME IInv, FinishSpill
  PROVE  IInv'
<1> DEFINE new == Range(job.fresh)
<1>1. /\ pc = "uses" /\ Spilling /\ pc' = job.back
      /\ UNCHANGED <<pp, rlr, assigned, around, pool, nextReg>>
      /\ job' = NoJob /\ ins' = NoIns
  BY DEF FinishSpill, Spilling
<1>2. /\ \A v \in new : HasRange(v)
      /\ vlr' = [v \in (DOMAIN vlr \cup new) \ {job.vreg} |->
                   IF v \in new THEN FreshRange(v) ELSE vlr[v]]
  BY DEF FinishSpill
<1>3. /\ job.back \in {"around", "alloc"}
      /\ job.vreg \notin DOMAIN assigned \cup DOMAIN pool
      /\ \A k \in DOMAIN fifo : fifo[k] # job.vreg
      /\ job.fresh \in Seq(Nat)
      /\ \A k \in DOMAIN job.fresh :
           job.fresh[k] < nextReg /\ job.fresh[k] \notin DOMAIN vlr /\ job.fresh[k] # job.vreg
      /\ \A i, j \in DOMAIN job.fresh : job.fresh[i] = job.fresh[j] => i = j
  BY <1>1 DEF IInv, JobFresh, FreshOK
<1>4. \A v \in new : v \in Nat /\ v < nextReg /\ v \notin DOMAIN vlr /\ v # job.vreg
  BY <1>3 DEF Range
<1>5. /\ nextReg \in Nat /\ rlr \in [Phys -> SUBSET Segment]
      /\ \A v \in DOMAIN vlr : v \in Nat /\ v < nextReg /\ vlr[v] \in SUBSET Segment
  BY DEF IInv, RangesTyped
<1>6. \A v \in new : FreshRange(v) \in SUBSET Segment
  BY <1>2, FreshRangeTyped DEF IInv
<1>7. \A v \in DOMAIN assigned :
        v \in DOMAIN vlr /\ assigned[v] \in Phys /\ vlr[v] \subseteq rlr[assigned[v]]
  BY DEF IInv, Merged
<1> HIDE DEF new
<1>8. DOMAIN vlr' = (DOMAIN vlr \cup new) \ {job.vreg}
  BY <1>2
<1>9. \A v \in DOMAIN assigned : v \in DOMAIN vlr' /\ vlr'[v] = vlr[v]
  BY <1>2, <1>3, <1>4, <1>7
<1>10. PointsTyped'
  <2>1. <<0, 0>> \in Point
    BY DEF Point
  <2> QED
    BY <1>1, <2>1 DEF IInv, PointsTyped, NoIns, Insertion
<1>11. RangesTyped'
  BY <1>1, <1>2, <1>4, <1>5, <1>6 DEF RangesTyped
<1>12. Merged'
  BY <1>1, <1>7, <1>9 DEF Merged
<1>13. NoConflict'
  <2>1. \A w, x \in DOMAIN assigned :
          w # x /\ assigned[w] = assigned[x] => ~Interfere(vlr[w], vlr[x])
    BY DEF IInv, NoConflict
  <2> QED
    BY <2>1, <1>1, <1>9 DEF NoConflict
<1>14. JobFresh'
  BY <1>1, <1>3 DEF JobFresh, Spilling, NoJob
<1>15. /\ DOMAIN pool \subseteq Waiting
       /\ fifo \in Seq(Waiting \ DOMAIN pool)
       /\ \A i, j \in DOMAIN fifo : fifo[i] = fifo[j] => i = j
       /\ \A p \in around : p[2] \in Nat /\ p[2] < nextReg
  BY DEF IInv, WorkFresh
<1>16. Waiting \ {job.vreg} \subseteq Waiting' /\ new \subseteq Waiting'
  BY <1>1, <1>4, <1>7, <1>8 DEF Waiting
<1>17. DOMAIN pool' \subseteq Waiting'
  BY <1>1, <1>3, <1>15, <1>16
<1>18. CASE job.back = "around"
  <2>1. /\ DOMAIN assigned = {} /\ DOMAIN pool = {} /\ fifo = <<>> /\ all \subseteq DOMAIN vlr
    BY <1>1, <1>18 DEF IInv, WorkFresh, BeforeLoop
  <2>2. all' = (all \ {job.vreg}) \cup new /\ UNCHANGED fifo
    BY <1>18 DEF FinishSpill, new
  <2>3. all' \subseteq DOMAIN vlr'
    BY <2>1, <2>2, <1>4, <1>8
  <2>4. fifo' \in Seq(Waiting' \ DOMAIN pool')
    BY <2>1, <2>2
  <2>5. WorkFresh'
    BY <1>1, <1>15, <1>17, <2>1, <2>2, <2>3, <2>4 DEF WorkFresh
  <2> QED
    BY <1>10, <1>11, <1>12, <1>13, <1>14, <2>5 DEF IInv
<1>19. CASE job.back = "alloc"
  <2>1. fifo' = fifo \o job.fresh
    BY <1>19 DEF FinishSpill
  <2> DEFINE m == Len(fifo)
             n == Len(job.fresh)
  <2>2. /\ m \in Nat /\ n \in Nat /\ DOMAIN fifo = 1..m /\ DOMAIN job.fresh = 1..n
        /\ fifo' \in Seq(Waiting \cup Nat) /\ DOMAIN fifo' = 1..m+n
        /\ \A k \in 1..m : fifo'[k] = fifo[k]
        /\ \A k \in m+1..m+n : fifo'[k] = job.fresh[k - m] /\ k - m \in 1..n
    <3>1. fifo \in Seq(Waiting \cup Nat) /\ job.fresh \in Seq(Waiting \cup Nat)
      <4>1. \A S, T, q : q \in Seq(S) /\ S \subseteq T => q \in Seq(T)
        OBVIOUS
      <4>2. Waiting \ DOMAIN pool \subseteq Waiting \cup Nat /\ Nat \subseteq Waiting \cup Nat
        OBVIOUS
      <4> QED
        BY <4>1, <4>2, <1>3, <1>15
    <3> QED
      BY <2>1, <3>1
  <2> HIDE DEF m, n
  <2>3. \A k \in 1..m : fifo[k] \in Waiting /\ fifo[k] \notin DOMAIN pool
    BY <1>15, <2>2
  <2>4. \A k \in 1..n : job.fresh[k] \in new
    BY <2>2 DEF new, Range
  <2>5. \A v \in new : v \in Waiting' /\ v \notin DOMAIN pool /\ v \notin Waiting
    BY <1>4, <1>15, <1>16 DEF Waiting
  <2>6. \A k \in DOMAIN fifo' : fifo'[k] \in Waiting' \ DOMAIN pool'
    <3>1. \A k \in 1..m : fifo[k] \in Waiting' \ DOMAIN pool'
      BY <1>1, <1>3, <1>16, <2>2, <2>3
    <3>2. \A k \in 1..n : job.fresh[k] \in Waiting' \ DOMAIN pool'
      BY <1>1, <2>4, <2>5
    <3> TAKE k \in DOMAIN fifo'
    <3>3. k \in 1..m \/ k \in m+1..m+n
      BY <2>2
    <3> QED
      BY <3>1, <3>2, <3>3, <2>2
  <2>7. fifo' \in Seq(Waiting' \ DOMAIN pool')
    <3> DEFINE W == Waiting' \ DOMAIN pool'
    <3>1. \A k \in DOMAIN fifo' : fifo'[k] \in W
      BY <2>6
    <3> HIDE DEF W
    <3>2. fifo' \in Seq(W)
      BY <2>2, <3>1
    <3> QED
      BY <3>2 DEF W
  <2>8. \A i, j \in DOMAIN fifo' : fifo'[i] = fifo'[j] => i = j
    <3> SUFFICES ASSUME NEW i \in 1..m+n, NEW j \in 1..m+n, fifo'[i] = fifo'[j]
                 PROVE  i = j
      BY <2>2
    <3>1. CASE i \in 1..m /\ j \in 1..m
      BY <3>1, <1>15, <2>2
    <3>2. CASE i \in m+1..m+n /\ j \in m+1..m+n
      <4>1. i - m \in 1..n /\ j - m \in 1..n /\ job.fresh[i - m] = job.fresh[j - m]
        BY <3>2, <2>2
      <4>2. i - m = j - m
        BY <4>1, <1>3, <2>2
      <4> QED
        BY <4>2, <2>2
    <3>3. CASE i \in 1..m /\ j \in m+1..m+n
      BY <3>3, <2>2, <2>3, <2>4, <2>5
    <3>4. CASE i \in m+1..m+n /\ j \in 1..m
      BY <3>4, <2>2, <2>3, <2>4, <2>5
    <3> QED
      BY <3>1, <3>2, <3>3, <3>4, <2>2
  <2>9. ~BeforeLoop'
    BY <1>1, <1>19 DEF BeforeLoop, Spilling
  <2>10. WorkFresh'
    BY <1>1, <1>15, <1>17, <2>7, <2>8, <2>9 DEF WorkFresh
  <2> QED
    BY <1>10, <1>11, <1>12, <1>13, <1>14, <2>10 DEF IInv
<1> QED
  BY <1>3, <1>18, <1>19

(* Sorting the worklist takes the vregs of all_vregs, each with a range.   *)
LEMMA SortKeepsIInv ==
  ASSUME IInv, SortWorklist
  PROVE  IInv'
<1>1. /\ pc = "around" /\ pc' = "alloc" /\ DOMAIN pool' = all
      /\ UNCHANGED <<pp, vlr, rlr, assigned, around, all, fifo, job, ins, nextReg>>
  BY DEF SortWorklist
<1>2. DOMAIN assigned = {} /\ fifo = <<>> /\ all \subseteq DOMAIN vlr
  BY <1>1 DEF IInv, WorkFresh, BeforeLoop
<1>3. PointsTyped' /\ RangesTyped' /\ Merged' /\ NoConflict'
  BY <1>1 DEF IInv, PointsTyped, RangesTyped, Merged, NoConflict
<1>4. WorkFresh'
  BY <1>1, <1>2 DEF IInv, WorkFresh, Waiting, BeforeLoop, Spilling
<1>5. JobFresh'
  BY <1>1 DEF IInv, JobFresh, Spilling
<1> QED
  BY <1>3, <1>4, <1>5 DEF IInv

(* Every step of the pass keeps the invariant.                             *)
LEMMA NextKeepsIInv ==
  ASSUME IInv, [Next]_vars
  PROVE  IInv'
<1>1. CASE UNCHANGED vars \/ Halted
  <2>1. UNCHANGED vars
    BY <1>1 DEF Halted
  <2> QED
    BY <2>1 DEF vars, IInv, PointsTyped, RangesTyped, Merged, NoConflict, WorkFresh, Waiting,
                BeforeLoop, Spilling, JobFresh, FreshOK
<1>2. CASE RewriteVRegs
  <2>1. /\ pc = "alloc" /\ pc' = "done"
        /\ UNCHANGED <<pp, vlr, rlr, assigned, around, all, pool, fifo, job, ins, nextReg>>
    BY <1>2 DEF RewriteVRegs
  <2> QED
    BY <2>1 DEF IInv, PointsTyped, RangesTyped, Merged, NoConflict, WorkFresh, Waiting,
                BeforeLoop, Spilling, JobFresh
<1>3. CASE SpillAroundCall \/ SpillVReg
  BY <1>3, StartSpillKeepsIInv
<1>4. CASE SpillDef \/ SpillUse \/ CollectUses
  BY <1>4, SpillStepKeepsIInv
<1>5. CASE LocateAfter \/ LocateBefore \/ LocateAtStart \/ InsertAfter \/ InsertBefore
  BY <1>5, InsertionKeepsIInv
<1>6. CASE FinishSpill
  BY <1>6, FinishSpillKeepsIInv
<1>7. CASE SortWorklist
  BY <1>7, SortKeepsIInv
<1>8. CASE Assign
  BY <1>8, AssignKeepsIInv
<1> QED
  BY <1>1, <1>2, <1>3, <1>4, <1>5, <1>6, <1>7, <1>8 DEF Next

(* The central guarantee of a register allocator: whatever was spilled,    *)
(* inserted and renumbered in between, two vregs in one register are never *)
(* live at the same point.                                                 *)
THEOREM RegAllocNoConflict == Spec => []NoConflict
<1>1. Init => IInv
  BY InitIInv
<1>2. IInv /\ [Next]_vars => IInv'
  BY NextKeepsIInv
<1>3. IInv => NoConflict
  BY DEF IInv
<1> QED
  BY <1>1, <1>2, <1>3, PTL DEF Spec
=============================================================================
