------------------------------ MODULE RegAlloc ------------------------------
(***************************************************************************)
(* The linear-scan register allocator of one function and its spiller      *)
(* (src/codegen/pass/regalloc.rs, spiller.rs and the live ranges of        *)
(* liveness.rs).  Physical registers are 0 .. NumPhys-1, virtual registers *)
(* the numbers above.  An instruction is [op, args, slot]; an argument is  *)
(* [reg, tag], its tag being what the lowering flags it as and what the    *)
(* machine does with it:                                                   *)
(*     use    flagged input, read                                          *)
(*     def    flagged output, written                                      *)
(*     inout  flagged input and output, written (results of binary ops)    *)
(*     rmw    flagged input and output, read and written                   *)
(*     raw    not flagged, read (the arguments a callee expects)           *)
(* A function is [code, inst, preds, nregs, paths]: the instruction ids of *)
(* each block, the instructions, the predecessors, the first register      *)
(* number not used, and some executions as sequences of blocks.            *)
(***************************************************************************)
EXTENDS Integers, Sequences, FiniteSets, SequencesExt, FiniteSetsExt,
        ProgramPoints

CONSTANTS NumPhys,     \* how many physical registers there are
          Gpr,         \* gpr_list: the registers tried first
          Csr,         \* csr_list: the registers tried after them
          CalleeSaved, \* the registers is_csr answers true for
          Functions,   \* the functions to allocate
          MaxVReg,     \* bound: no register number above it is created
          MaxPoint     \* bound: stands for the largest u32

ASSUME RegistersAssumption ==
  /\ NumPhys \in Nat
  /\ Gpr \in Seq(0..NumPhys-1) /\ Csr \in Seq(0..NumPhys-1)
  /\ CalleeSaved \subseteq 0..NumPhys-1

VARIABLES
  f,         \* the function as it was before the pass
  pc,        \* what the pass does next
  code,      \* Layout: the instruction ids of each block, in order
  inst,      \* Data.instructions: the instructions by id
  pp,        \* Liveness.inst_to_pp
  vlr,       \* Liveness.vreg_lrs_map
  rlr,       \* Liveness.reg_lrs_map
  assigned,  \* assigned_regs
  around,    \* the calls and the vregs alive around them still to spill
  all,       \* all_vregs
  preferred, \* the preferred registers of each vreg
  pool,      \* the sorted part of the worklist, each vreg with its sort key
  fifo,      \* the vregs pushed to the back of the worklist
  spillRegs, \* spill_regs
  job,       \* the spill in progress: vreg, slot, defs, uses, new_vregs, caller
  ins,       \* the insertion in progress, with its local program points
  nextReg,   \* VRegs.cur
  slots,     \* how many stack slots there are
  usedCsr    \* Data.used_csr

vars == <<f, pc, code, inst, pp, vlr, rlr, assigned, around, all, preferred,
          pool, fifo, spillRegs, job, ins, nextReg, slots, usedCsr>>

Phys == 0..NumPhys-1

IsVReg(r) == r >= NumPhys

InTags == {"use", "inout", "rmw"}
OutTags == {"def", "inout", "rmw"}

Arg(tag, r) == [tag |-> tag, reg |-> r]

(* input_vregs, input_regs; output_vregs, output_regs; all_vregs.          *)
Inputs(i) == {a.reg : a \in {x \in Range(i.args) : x.tag \in InTags}}
Outputs(i) == {a.reg : a \in {x \in Range(i.args) : x.tag \in OutTags}}
AllVRegs(i) == {r \in {a.reg : a \in Range(i.args)} : IsVReg(r)}

(* rewrite and the operand part of replace_vreg.                           *)
Substitute(i, from, to) ==
  [i EXCEPT !.args = [k \in DOMAIN @ |->
                        IF @[k].reg = from THEN [@[k] EXCEPT !.reg = to] ELSE @[k]]]

(* VRegUsers.get(v): create_inst and replace_vreg keep one entry for each  *)
(* instruction that flags v, in the order the entries were added.          *)
Users(v) == {i \in DOMAIN inst : v \in Inputs(inst[i]) \cup Outputs(inst[i])}
ReadsV(i, v) == v \in Inputs(inst[i])
WritesV(i, v) == v \in Outputs(inst[i])

(* store_vreg_to_slot and load_from_slot.                                  *)
StoreToSlot(v, s) == [op |-> "store", args |-> <<Arg("use", v)>>, slot |-> s]
LoadFromSlot(v, s) == [op |-> "load", args |-> <<Arg("def", v)>>, slot |-> s]

(* Layout::prev_inst_of, next_inst_of; 0 when there is none.               *)
IndexIn(i) == CHOOSE k \in DOMAIN code[pp[i][1]] : code[pp[i][1]][k] = i
PrevOf(i) == IF IndexIn(i) = 1 THEN 0 ELSE code[pp[i][1]][IndexIn(i) - 1]
NextOf(i) ==
  IF IndexIn(i) = Len(code[pp[i][1]]) THEN 0 ELSE code[pp[i][1]][IndexIn(i) + 1]

(* What the lowering guarantees of a function: every instruction has its   *)
(* place in the layout, no register above nregs is named, and only         *)
(* physical registers are read without being flagged.                      *)
ASSUME FunctionsAssumption ==
  \A g \in Functions :
    /\ g.inst \in Seq([op : {"op", "copy", "call"},
                       args : Seq([tag : {"use", "def", "inout", "rmw", "raw"},
                                   reg : 0..g.nregs-1]),
                       slot : Nat])
    /\ g.code \in Seq(Seq(DOMAIN g.inst))
    /\ \A i \in DOMAIN g.inst : \E b \in DOMAIN g.code : i \in Range(g.code[b])
    /\ \A b, c \in DOMAIN g.code : \A j \in DOMAIN g.code[b], k \in DOMAIN g.code[c] :
         g.code[b][j] = g.code[c][k] => b = c /\ j = k
    /\ \A i \in DOMAIN g.inst : \A a \in Range(g.inst[i].args) : a.tag = "raw" => ~IsVReg(a.reg)
    /\ g.nregs \in Nat /\ g.nregs >= NumPhys

-----------------------------------------------------------------------------
(* Liveness::analyze_function, for functions without phis: module Liveness *)
(* shows that the analysis then computes the least solution.               *)
Summary(g) ==
  [preds  |-> g.preds,
   def    |-> [b \in DOMAIN g.code |->
                 UNION {Outputs(g.inst[i]) : i \in Range(g.code[b])}],
   visits |-> FlattenSeq([b \in DOMAIN g.code |->
                 FlattenSeq([k \in DOMAIN g.code[b] |->
                   LET reads == SelectSeq(g.inst[g.code[b][k]].args,
                                          LAMBDA a : a.tag \in InTags)
                   IN [n \in DOMAIN reads |-> [reg |-> reads[n].reg, block |-> b]]])])]

(* compute_program_points: instruction k of a block is at k steps, the end *)
(* of the block one step after its last instruction.                       *)
InitialPoints(g) ==
  [i \in DOMAIN g.inst |->
     LET b == CHOOSE c \in DOMAIN g.code : i \in Range(g.code[c])
         k == CHOOSE j \in DOMAIN g.code[b] : g.code[b][j] = i
     IN <<b, k * STEP>>]

Touching(g, b, r) ==
  {k \in DOMAIN g.code[b] : r \in Inputs(g.inst[g.code[b][k]]) \cup Outputs(g.inst[g.code[b][k]])}

BlockEnd(g, b) == <<b, STEP * (Len(g.code[b]) + 1)>>

(* Mutant: the end is set when the segment is created and not moved later. *)
VRegSegmentFirst(g, liveIn, liveOut, v, b) ==
  LET touch == Touching(g, b, v)
  IN [start |-> <<b, IF v \in liveIn[b] THEN 0 ELSE STEP * Min(touch)>>,
      end   |-> IF v \in liveOut[b] THEN BlockEnd(g, b)
                ELSE <<b, IF v \in liveIn[b] THEN 0 ELSE STEP * Min(touch)>>]

(* Mutant: live-out registers are not extended to the end of the block.    *)
VRegSegmentNoOut(g, liveIn, liveOut, v, b) ==
  LET touch == Touching(g, b, v)
  IN [start |-> <<b, IF v \in liveIn[b] \/ v \in Inputs(g.inst[g.code[b][Min(touch)]])
                     THEN 0 ELSE STEP * Min(touch)>>,
      end   |-> <<b, STEP * Max(touch \cup {0})>>]

(* The segment of virtual register v in block b.  A register whose first   *)
(* touch is an input starts with the block.                                *)
VRegSegment(g, liveIn, liveOut, v, b) ==
  LET touch == Touching(g, b, v)
      fromStart == \/ v \in liveIn[b]
                   \/ v \in Inputs(g.inst[g.code[b][Min(touch)]])
  IN [start |-> <<b, IF fromStart THEN 0 ELSE STEP * Min(touch)>>,
      end   |-> IF v \in liveOut[b] THEN BlockEnd(g, b)
                ELSE <<b, STEP * Max(touch \cup {0})>>]

(* The segments of physical register r in block b: a point for each        *)
(* instruction that names it, the last one extended when r is live-out.    *)
RegSegments(g, liveIn, liveOut, r, b) ==
  LET points == {STEP * k : k \in Touching(g, b, r)} \cup (IF r \in liveIn[b] THEN {0} ELSE {})
  IN {[start |-> <<b, p>>,
       end   |-> IF r \in liveOut[b] /\ p = Max(points) THEN BlockEnd(g, b) ELSE <<b, p>>] :
      p \in points}

VRegRange(g, liveIn, liveOut, v) ==
  {VRegSegment(g, liveIn, liveOut, v, b) :
     b \in {c \in DOMAIN g.code : Touching(g, c, v) # {} \/ v \in liveIn[c]}}

RegRange(g, liveIn, liveOut, r) ==
  UNION {RegSegments(g, liveIn, liveOut, r, b) : b \in DOMAIN g.code}

(* collect_vregs_alive_around_call: the calls and the vregs whose range    *)
(* has them inside.                                                        *)
AliveAround(g, points, ranges) ==
  {p \in (DOMAIN g.inst) \X (DOMAIN ranges) :
     g.inst[p[1]].op = "call" /\ Interfere(ranges[p[2]], {NewPoint(points[p[1]])})}

NoJob ==
  [vreg |-> 0, slot |-> 0, defs |-> {}, uses |-> {}, fresh |-> <<>>, back |-> "none"]
Insertion(at, id, lo, hi) == [at |-> at, id |-> id, lo |-> lo, hi |-> hi]
NoIns == Insertion(0, 0, <<0, 0>>, <<0, 0>>)

(* analyze_function, the collection of all_vregs and of the vregs alive    *)
(* around a call.                                                          *)
Analyzed(g) ==
  LET liveIn == LeastLiveIn(Summary(g))
      liveOut == [b \in DOMAIN g.code |-> LiveOutOf(Summary(g), liveIn, b)]
  IN /\ f = g /\ code = g.code /\ inst = g.inst
     /\ pp = InitialPoints(g)
     /\ vlr = [v \in UNION {AllVRegs(g.inst[i]) : i \in DOMAIN g.inst} |->
                 VRegRange(g, liveIn, liveOut, v)]
     /\ rlr = [r \in Phys |-> RegRange(g, liveIn, liveOut, r)]
     /\ around = AliveAround(g, pp, vlr)
     /\ all = DOMAIN vlr
     /\ nextReg = g.nregs

Init ==
  /\ \E g \in Functions : Analyzed(g)
  /\ pc = "around" /\ assigned = <<>> /\ preferred = <<>> /\ pool = <<>>
  /\ fifo = <<>> /\ spillRegs = {} /\ job = NoJob /\ ins = NoIns
  /\ slots = 0 /\ usedCsr = {}

-----------------------------------------------------------------------------
(* Spiller::spill: a stack slot is added and the instructions that write   *)
(* the vreg are listed, the last one first; one is dropped from the list   *)
(* when the instruction before it in the block is the one listed before it.*)
Writers(v) == {i \in Users(v) : WritesV(i, v)}

Dedup(defs) ==
  {d \in defs : ~(PrevOf(d) \in defs /\ Before(pp[d], pp[PrevOf(d)]))}

StartSpill(v) ==
  /\ job' = [vreg |-> v, slot |-> slots + 1, defs |-> Dedup(Writers(v)), uses |-> {},
             fresh |-> <<>>, back |-> pc]
  /\ slots' = slots + 1
  /\ pc' = "defs"

(* The loop over the vregs alive around calls.  The vregs of one call come *)
(* in hash order; one that is alive around two calls is spilled twice.     *)
SpillAroundCall ==
  /\ pc = "around"
  /\ \E p \in around :
       /\ \A q \in around : ~Before(pp[q[1]], pp[p[1]])
       /\ around' = around \ {p}
       /\ StartSpill(p[2])
  /\ UNCHANGED <<f, code, inst, pp, vlr, rlr, assigned, all, preferred, pool, fifo,
                 spillRegs, ins, nextReg, usedCsr>>

(* insert_spill, one definition: it gets a new vreg, stored to the slot    *)
(* after it.                                                               *)
SpillDef ==
  /\ pc = "defs" /\ nextReg <= MaxVReg
  /\ \E d \in job.defs :
       /\ \A e \in job.defs : ~Before(pp[d], pp[e])
       /\ inst' = Append([inst EXCEPT ![d] = Substitute(@, job.vreg, nextReg)],
                         StoreToSlot(nextReg, job.slot))
       /\ ins' = Insertion(d, Len(inst) + 1, <<0, 0>>, <<0, 0>>)
       /\ job' = [job EXCEPT !.defs = @ \ {d}, !.fresh = Append(@, nextReg)]
  /\ nextReg' = nextReg + 1
  /\ pc' = "after"
  /\ UNCHANGED <<f, code, pp, vlr, rlr, assigned, around, all, preferred, pool, fifo,
                 spillRegs, slots, usedCsr>>

(* insert_reload lists the instructions that read the vreg.                *)
CollectUses ==
  /\ pc = "defs" /\ job.defs = {}
  /\ job' = [job EXCEPT !.uses = {i \in Users(job.vreg) : ReadsV(i, job.vreg)}]
  /\ pc' = "uses"
  /\ UNCHANGED <<f, code, inst, pp, vlr, rlr, assigned, around, all, preferred, pool, fifo,
                 spillRegs, ins, nextReg, slots, usedCsr>>

(* insert_reload, one use: it gets a new vreg, loaded from the slot before *)
(* it.                                                                     *)
SpillUse ==
  /\ pc = "uses" /\ nextReg <= MaxVReg
  /\ \E u \in job.uses :
       /\ \A w \in job.uses : u <= w
       /\ inst' = Append([inst EXCEPT ![u] = Substitute(@, job.vreg, nextReg)],
                         LoadFromSlot(nextReg, job.slot))
       /\ ins' = Insertion(u, Len(inst) + 1, <<0, 0>>, <<0, 0>>)
       /\ job' = [job EXCEPT !.uses = @ \ {u}, !.fresh = Append(@, nextReg)]
  /\ nextReg' = nextReg + 1
  /\ pc' = "before"
  /\ UNCHANGED <<f, code, pp, vlr, rlr, assigned, around, all, preferred, pool, fifo,
                 spillRegs, slots, usedCsr>>

-----------------------------------------------------------------------------
(* recompute_program_points_after.                                         *)
RecomputePoints(from, oneMore) ==
  /\ pp' = [i \in DOMAIN pp |-> Rescale(from, oneMore, pp[i])]
  /\ vlr' = [v \in DOMAIN vlr |-> RescaleRange(from, oneMore, vlr[v])]
  /\ rlr' = [r \in Phys |-> RescaleRange(from, oneMore, rlr[r])]

(* Where the pass goes after a recomputation; too large a point overflows. *)
UnlessOverflow(next) == IF \E i \in DOMAIN pp : pp'[i][2] > MaxPoint THEN "panic" ELSE next

(* insert_inst_after, up to the call of between.  After the last           *)
(* instruction of a block nothing is inserted.                             *)
LocateAfter ==
  /\ pc = "after" /\ ins.at \in DOMAIN pp
  /\ IF NextOf(ins.at) = 0
     THEN pc' = "defs" /\ UNCHANGED ins
     ELSE /\ NextOf(ins.at) \in DOMAIN pp
          /\ pc' = "insert_after"
          /\ ins' = Insertion(ins.at, ins.id, pp[ins.at], pp[NextOf(ins.at)])
  /\ UNCHANGED <<f, code, inst, pp, vlr, rlr, assigned, around, all, preferred, pool, fifo,
                 spillRegs, job, nextReg, slots, usedCsr>>

(* insert_inst_before, up to the call of between.  Before the first        *)
(* instruction of a block the points are recomputed; the point read before *)
(* that stays in use.                                                      *)
LocateBefore ==
  /\ pc = "before" /\ ins.at \in DOMAIN pp
  /\ PrevOf(ins.at) \in DOMAIN pp
  /\ ins' = Insertion(ins.at, ins.id, pp[PrevOf(ins.at)], pp[ins.at])
  /\ pc' = "insert_before"
  /\ UNCHANGED <<f, code, inst, pp, vlr, rlr, assigned, around, all, preferred, pool, fifo,
                 spillRegs, job, nextReg, slots, usedCsr>>

LocateAtStart ==
  /\ pc = "before" /\ ins.at \in DOMAIN pp
  /\ PrevOf(ins.at) = 0 /\ pp[ins.at][2] > 0
  /\ RecomputePoints(pp[ins.at], TRUE)
  /\ ins' = Insertion(ins.at, ins.id, <<pp[ins.at][1], 0>>, pp[ins.at])
  /\ pc' = UnlessOverflow("insert_before")
  /\ UNCHANGED <<f, code, inst, assigned, around, all, preferred, pool, fifo, spillRegs, job,
                 nextReg, slots, usedCsr>>

(* The rest of the two: the new instruction is placed at the point between *)
(* the two, or the points from the anchor on are recomputed and the        *)
(* function calls itself again.                                            *)
Place(index) ==
  /\ pp' = [i \in DOMAIN pp \cup {ins.id} |->
              IF i = ins.id THEN Between(ins.lo, ins.hi) ELSE pp[i]]
  /\ code' = [code EXCEPT ![pp[ins.at][1]] = InsertAt(@, index, ins.id)]
  /\ UNCHANGED <<vlr, rlr>>

MakeRoom(anchor) == RecomputePoints(anchor, FALSE) /\ UNCHANGED code

InsertAfter ==
  /\ pc = "insert_after"
  /\ IF HasBetween(ins.lo, ins.hi)
     THEN Place(IndexIn(ins.at) + 1) /\ pc' = "defs"
     ELSE MakeRoom(ins.lo) /\ pc' = UnlessOverflow("after")
  /\ UNCHANGED <<f, inst, assigned, around, all, preferred, pool, fifo, spillRegs, job, ins,
                 nextReg, slots, usedCsr>>

InsertBefore ==
  /\ pc = "insert_before"
  /\ IF HasBetween(ins.lo, ins.hi)
     THEN Place(IndexIn(ins.at)) /\ pc' = "uses"
     ELSE MakeRoom(ins.hi) /\ pc' = UnlessOverflow("before")
  /\ UNCHANGED <<f, inst, assigned, around, all, preferred, pool, fifo, spillRegs, job, ins,
                 nextReg, slots, usedCsr>>

-----------------------------------------------------------------------------
(* compute_live_ranges of a new vreg: from its first write to its last     *)
(* read; an instruction that does both counts as a write.                  *)
PureReads(v) == {i \in Users(v) : ReadsV(i, v) /\ ~WritesV(i, v)}

FirstOf(S) == {i \in S : \A j \in S : ~Before(pp[j], pp[i])}
LastOf(S) == {i \in S : \A j \in S : ~Before(pp[i], pp[j])}

HasRange(v) ==
  /\ Users(v) \subseteq DOMAIN pp
  /\ Writers(v) # {} /\ PureReads(v) # {}

FreshRange(v) ==
  {[start |-> pp[i], end |-> pp[j]] : i \in FirstOf(Writers(v)), j \in LastOf(PureReads(v))}

(* The end of Spiller::spill and the caller's bookkeeping: the new vregs   *)
(* get live ranges, the spilled one loses its own.  Inside the allocation  *)
(* loop the new vregs go to the back of the worklist; before it they join  *)
(* all_vregs.  Without HasRange the code panics (unwrap, map lookup): here *)
(* the state is a deadlock, which the runs check for.                      *)
FinishSpill ==
  /\ pc = "uses" /\ job.uses = {}
  /\ \A v \in Range(job.fresh) : HasRange(v)
  /\ vlr' = [v \in (DOMAIN vlr \cup Range(job.fresh)) \ {job.vreg} |->
               IF v \in Range(job.fresh) THEN FreshRange(v) ELSE vlr[v]]
  /\ pc' = job.back
  /\ \/ /\ job.back = "around"
        /\ all' = (all \ {job.vreg}) \cup Range(job.fresh)
        /\ UNCHANGED <<fifo, spillRegs>>
     \/ /\ job.back = "alloc"
        /\ fifo' = fifo \o job.fresh
        /\ spillRegs' = spillRegs \cup Range(job.fresh)
        /\ UNCHANGED all
  /\ job' = NoJob /\ ins' = NoIns
  /\ UNCHANGED <<f, code, inst, pp, rlr, assigned, around, preferred, pool, nextReg, slots,
                 usedCsr>>

-----------------------------------------------------------------------------
(* find_preferred_registers: the physical registers a vreg is copied to,   *)
(* directly (the latest copy first) or through other vregs.  (visited only *)
(* stops cycles of copies, which the lowering does not produce.)           *)
CopiesOf(v) ==
  SetToSortSeq({i \in Users(v) : inst[i].op = "copy" /\ ~WritesV(i, v)}, LAMBDA i, j : i < j)

FindPreferred ==
  LET pref[n \in Nat] ==
        [v \in all |->
           IF n = 0 THEN <<>>
           ELSE FoldLeft(LAMBDA list, i :
                           LET dst == inst[i].args[1].reg
                           IN IF IsVReg(dst) THEN list \o pref[n-1][dst] ELSE <<dst>> \o list,
                         <<>>, CopiesOf(v))]
  IN pref[Len(inst)]

(* LiveRange::first_seg and weight.                                        *)
FirstStart(lr) == (CHOOSE s \in lr : \A t \in lr : ~Before(t.start, s.start)).start

Weight(lr) ==
  MapThenSumSet(LAMBDA s : (s.end[2] - s.start[2]) * (s.end[1] - s.start[1] + 10), lr)

KeyLess(x, y) == Before(x.start, y.start) \/ (x.start = y.start /\ x.weight < y.weight)

(* The preferred registers are collected and the worklist is sorted.       *)
SortWorklist ==
  /\ pc = "around" /\ around = {}
  /\ preferred' = FindPreferred
  /\ pool' = [v \in all |-> [start |-> FirstStart(vlr[v]), weight |-> Weight(vlr[v])]]
  /\ pc' = "alloc"
  /\ UNCHANGED <<f, code, inst, pp, vlr, rlr, assigned, around, all, fifo, spillRegs, job, ins,
                 nextReg, slots, usedCsr>>

(* The vregs worklist.pop_front may return: vregs with equal keys stand in *)
(* hash order.                                                             *)
Fronts ==
  IF DOMAIN pool # {}
  THEN {v \in DOMAIN pool : \A w \in DOMAIN pool : ~KeyLess(pool[w], pool[v])}
  ELSE IF fifo = <<>> THEN {} ELSE {fifo[1]}

(* worklist.pop_front.                                                     *)
PopFront(v) ==
  /\ pool' = [w \in DOMAIN pool \ {v} |-> pool[w]]
  /\ fifo' = IF DOMAIN pool # {} THEN fifo ELSE Tail(fifo)

(* Only the entry block is searched for calls.                             *)
EntryHasCall == \E i \in Range(code[1]) : inst[i].op = "call"

(* The registers tried for v, in order.  When the entry block has a call   *)
(* only the second list is; its last register is kept for vregs that the   *)
(* spiller made.                                                           *)
Availables(v) ==
  LET list == IF EntryHasCall THEN Csr ELSE Gpr \o Csr
      usable == IF v \in spillRegs THEN list ELSE Front(list)
  IN IF v \in DOMAIN preferred THEN preferred[v] \o usable ELSE usable

(* Mutant: the range of the last vreg replaces those merged before.        *)
MergeLast(r, v) == vlr[v]

(* Liveness::assign: the range of v is merged into that of its register.   *)
Merge(r, v) == rlr[r] \cup vlr[v]

(* Liveness::interfere, and the first register that does not.              *)
Free(v, r) == ~Interfere(vlr[v], rlr[r])

FirstFree(v, r) ==
  \E k \in DOMAIN Availables(v) :
    /\ Availables(v)[k] = r /\ Free(v, r)
    /\ \A j \in 1..k-1 : ~Free(v, Availables(v)[j])

Assign ==
  /\ pc = "alloc"
  /\ \E v \in Fronts, r \in Phys :
       /\ FirstFree(v, r)
       /\ assigned' = [w \in DOMAIN assigned \cup {v} |-> IF w = v THEN r ELSE assigned[w]]
       /\ rlr' = [rlr EXCEPT ![r] = Merge(r, v)]
       /\ PopFront(v)
  /\ UNCHANGED <<f, pc, code, inst, pp, vlr, around, all, preferred, spillRegs, job, ins,
                 nextReg, slots, usedCsr>>

SpillVReg ==
  /\ pc = "alloc"
  /\ \E v \in Fronts :
       /\ \A r \in Range(Availables(v)) : ~Free(v, r)
       /\ StartSpill(v)
       /\ PopFront(v)
  /\ UNCHANGED <<f, code, inst, pp, vlr, rlr, assigned, around, all, preferred, spillRegs, ins,
                 nextReg, usedCsr>>

(* The rewriting of the operands and the collection of used_csr.           *)
Rewritten(i) ==
  [i EXCEPT !.args = [k \in DOMAIN i.args |->
      LET a == i.args[k]
      IN IF a.reg \in DOMAIN assigned THEN Arg(a.tag, assigned[a.reg]) ELSE a]]

RewriteVRegs ==
  /\ pc = "alloc" /\ Fronts = {}
  /\ inst' = [i \in DOMAIN inst |->
                IF \E b \in DOMAIN code : i \in Range(code[b])
                THEN Rewritten(inst[i]) ELSE inst[i]]
  /\ usedCsr' = {assigned[v] : v \in UNION {AllVRegs(inst[i]) :
                                  i \in UNION {Range(code[b]) : b \in DOMAIN code}}
                                \cap DOMAIN assigned} \cap CalleeSaved
  /\ pc' = "done"
  /\ UNCHANGED <<f, code, pp, vlr, rlr, assigned, around, all, preferred, pool, fifo, spillRegs,
                 job, ins, nextReg, slots>>

(* The pass has returned, or panicked.                                     *)
Halted == pc \in {"done", "panic"} /\ UNCHANGED vars

Next ==
  \/ SpillAroundCall \/ SpillDef \/ CollectUses \/ SpillUse
  \/ LocateAfter \/ LocateBefore \/ LocateAtStart \/ InsertAfter \/ InsertBefore
  \/ FinishSpill
  \/ SortWorklist \/ Assign \/ SpillVReg \/ RewriteVRegs \/ Halted

Spec == Init /\ [][Next]_vars /\ WF_vars(Next)

-----------------------------------------------------------------------------
Registers == 0..MaxVReg

(* Two vregs that share a register never interfere, not even after the     *)
(* points have been recomputed for later spills.                           *)
NoConflict ==
  \A v, w \in DOMAIN assigned :
    (v # w /\ assigned[v] = assigned[w]) => ~Interfere(vlr[v], vlr[w])

(* Between two spills, every instruction in the layout that names a vreg   *)
(* lies within the live range the allocator has for it.                    *)
Within(p, s) == ~Before(p, s.start) /\ ~Before(s.end, p)

RangesCover ==
  pc \in {"around", "alloc"} =>
    \A i \in DOMAIN pp : \A v \in AllVRegs(inst[i]) :
      v \in DOMAIN vlr /\ \E s \in vlr[v] : Within(pp[i], s)

(* More values than callee-saved registers, one of them alive across a     *)
(* call.                                                                   *)
Crowded ==
  /\ f.nregs - NumPhys > Len(Csr)
  /\ \E c, i, j \in DOMAIN f.inst :
       /\ i < c /\ c < j /\ f.inst[c].op = "call"
       /\ AllVRegs(f.inst[i]) \cap AllVRegs(f.inst[j]) # {}

-----------------------------------------------------------------------------
(* Execution of a path.  A value is <<the step of the path, the            *)
(* instruction that computed it>>; copies, loads and stores move values,   *)
(* a call writes every physical register.                                  *)
ReadArgs(i) == SelectSeq(i.args, LAMBDA a : a.tag \in {"use", "rmw", "raw"})

Result(s, step, id, i) ==
  CASE i.op = "copy" /\ ReadArgs(i) # <<>> -> s.regs[ReadArgs(i)[1].reg]
    [] i.op = "load"                      -> s.slots[i.slot]
    [] OTHER                              -> <<step, id>>

ExecStep(s, step, id, i) ==
  LET value == Result(s, step, id, i)
  IN [regs  |-> [r \in DOMAIN s.regs |->
                   IF r \in Outputs(i) THEN value
                   ELSE IF i.op = "call" /\ ~IsVReg(r) THEN <<-1, id>> ELSE s.regs[r]],
      slots |-> IF i.op = "store"
                THEN [s.slots EXCEPT ![i.slot] = s.regs[ReadArgs(i)[1].reg]] ELSE s.slots,
      trace |-> IF i.op \in {"op", "call"}
                THEN Append(s.trace, <<step, id, [k \in DOMAIN ReadArgs(i) |->
                                                   s.regs[ReadArgs(i)[k].reg]]>>)
                ELSE s.trace]

(* What the instructions of the function read along the path, in order.    *)
Reads(cd, in, path) ==
  LET steps == FlattenSeq([n \in DOMAIN path |->
                             [k \in DOMAIN cd[path[n]] |-> <<n, cd[path[n]][k]>>]])
      start == [regs  |-> [r \in Registers |-> <<0, r>>],
                slots |-> [k \in 1..slots |-> <<0, -k>>], trace |-> <<>>]
  IN FoldLeft(LAMBDA s, t : ExecStep(s, t[1], t[2], in[t[2]]), start, steps).trace

(* The allocated function computes what the function computed before:      *)
(* along every path each instruction reads the same values, whatever was   *)
(* spilled, reloaded and assigned to the same register.                    *)
Preserved ==
  pc = "done" =>
    \A path \in f.paths : Reads(code, inst, path) = Reads(f.code, f.inst, path)

(* The worklist runs empty and every vreg is rewritten, unless values      *)
(* crowd around a call: there the recomputed points may pass the largest   *)
(* u32 (recompute_program_points_after).                                   *)
Terminates == Crowded \/ <>(pc = "done")
=============================================================================
