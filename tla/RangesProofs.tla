---------------------------- MODULE RangesProofs ----------------------------
(***************************************************************************)
(* For every register file and every set of functions: between two spills  *)
(* every instruction that names a virtual register lies within the live    *)
(* range the allocator has for it.                                         *)
(*                                                                         *)
(* RangesCover is broken while a vreg is being spilled.  Covered says what *)
(* is left of it then: only the vreg being spilled and the new ones have   *)
(* no range.  The former is gone when the lists of the spiller are empty   *)
(* (Listed), which needs that no definition is dropped from them, so that  *)
(* the points follow the layout (LaidOut); the latter are each named by    *)
(* two instructions, the one that writes it before the one that reads it   *)
(* (Paired), so that the range computed for it covers both.                *)
(***************************************************************************)
EXTENDS RegAllocProofs, SequenceTheorems

Argument == [tag : {"use", "def", "inout", "rmw", "raw"}, reg : Nat]
Instruction == [op : {"op", "copy", "call", "load", "store"}, args : Seq(Argument), slot : Nat]

(* The registers an instruction names.                                     *)
Regs(x) == {a.reg : a \in Range(x.args)}

Running == pc \notin {"done", "panic"}
InDefs == pc \in {"defs", "after", "insert_after"}
InUses == pc \in {"uses", "before", "insert_before"}
Inserting == pc \in {"after", "insert_after", "before", "insert_before"}

InstTyped ==
  /\ inst \in Seq(Instruction)
  /\ slots \in Nat /\ job.slot \in Nat
  /\ nextReg >= NumPhys
  /\ \A i \in DOMAIN inst :
       /\ \A r \in Regs(inst[i]) : r < nextReg
       /\ \A a \in Range(inst[i].args) : a.tag = "raw" => a.reg < NumPhys

(* The points follow the order of the layout, which holds what has one.    *)
LaidOut ==
  /\ DOMAIN pp \subseteq DOMAIN inst
  /\ \A b \in DOMAIN code :
       /\ code[b] \in Seq(DOMAIN pp)
       /\ \A k \in DOMAIN code[b] :
            /\ pp[code[b][k]][1] = b
            /\ k > 1 => Before(pp[code[b][k - 1]], pp[code[b][k]])
  /\ \A i \in DOMAIN pp : /\ pp[i][1] \in DOMAIN code
                          /\ \E k \in DOMAIN code[pp[i][1]] : code[pp[i][1]][k] = i

HasCover(i, v) == v \in DOMAIN vlr /\ \E s \in vlr[v] : Within(pp[i], s)

Covered ==
  \A i \in DOMAIN pp : \A v \in AllVRegs(inst[i]) :
    HasCover(i, v) \/ (Spilling /\ v \in {job.vreg} \cup Range(job.fresh))

Listed ==
  /\ InDefs => /\ job.defs \subseteq DOMAIN inst
               /\ \A i \in DOMAIN inst : i \in job.defs <=> job.vreg \in Outputs(inst[i])
  /\ InUses => /\ job.uses \subseteq DOMAIN inst
               /\ \A i \in DOMAIN inst : /\ job.vreg \notin Outputs(inst[i])
                                         /\ i \in job.uses <=> job.vreg \in Inputs(inst[i])

(* Exactly the instructions a and c name w, a writes and c reads it.       *)
Pair(w, a, c) ==
  /\ \A i \in DOMAIN inst : w \in Regs(inst[i]) => i = a \/ i = c
  /\ w \in Outputs(inst[a]) /\ w \in Inputs(inst[c]) /\ w \notin Outputs(inst[c])
  /\ a \in DOMAIN pp /\ c \in DOMAIN pp => Before(pp[a], pp[c])

Paired ==
  Spilling =>
    /\ \A w \in Range(job.fresh) : \E a, c \in DOMAIN inst : Pair(w, a, c)
    /\ \A i \in DOMAIN inst \ DOMAIN pp :
         \E w \in Range(job.fresh) : w \in Inputs(inst[i]) \cup Outputs(inst[i])

Placed == pc \in {"around", "alloc"} => DOMAIN inst \subseteq DOMAIN pp

(* The load or store being inserted: it shares its register with the       *)
(* instruction it is inserted at, and the points read for it are those of  *)
(* its neighbours, or before them.                                         *)
InsertingOK ==
  /\ Inserting =>
       /\ ins.id \in DOMAIN inst \ DOMAIN pp
       /\ ins.at \in DOMAIN inst /\ ins.at # ins.id
       /\ \A w \in Regs(inst[ins.id]) : \A i \in DOMAIN inst :
            w \in Regs(inst[i]) => i = ins.at \/ i = ins.id
       /\ Regs(inst[ins.id]) \subseteq Range(job.fresh)
       /\ InDefs => Outputs(inst[ins.id]) = {}
       /\ InUses => Inputs(inst[ins.id]) = {}
  /\ pc = "insert_after" =>
       /\ ins.at \in DOMAIN pp /\ ins.lo = pp[ins.at]
       /\ NextOf(ins.at) \in DOMAIN pp /\ ins.hi = pp[NextOf(ins.at)]
  /\ pc = "insert_before" =>
       /\ ins.at \in DOMAIN pp
       /\ ins.hi[1] = pp[ins.at][1] /\ ~Before(pp[ins.at], ins.hi)
       /\ PrevOf(ins.at) # 0 => PrevOf(ins.at) \in DOMAIN pp /\ ins.lo = pp[PrevOf(ins.at)]

(* Only virtual registers have ranges and are spilled.                     *)
Virtual ==
  /\ \A v \in DOMAIN vlr : IsVReg(v)
  /\ \A p \in around : IsVReg(p[2])
  /\ Spilling => \A v \in {job.vreg} \cup Range(job.fresh) : IsVReg(v)

(* The invariant of the pass that contains RangesCover.                    *)
CBody == /\ InstTyped /\ Virtual /\ LaidOut /\ Covered /\ Listed
         /\ Paired /\ Placed /\ InsertingOK

CInv == Running => CBody

-----------------------------------------------------------------------------
(* The order of the points.                                                *)
LEMMA BeforeOrder ==
  ASSUME NEW p \in Point, NEW q \in Point, NEW r \in Point
  PROVE  /\ ~Before(p, p)
         /\ Before(p, q) => ~Before(q, p)
         /\ Before(p, q) /\ Before(q, r) => Before(p, r)
         /\ Before(p, q) /\ ~Before(r, q) => Before(p, r)
<1>1. p[1] \in Nat /\ p[2] \in Nat /\ q[1] \in Nat /\ q[2] \in Nat /\ r[1] \in Nat /\ r[2] \in Nat
  BY DEF Point
<1> QED
  BY <1>1 DEF Before

(* Renumbering keeps a point within a segment, and in its block.           *)
LEMMA RescaleWithin ==
  ASSUME NEW from \in Point, NEW m \in BOOLEAN, NEW p \in Point, NEW s \in Segment, Within(p, s)
  PROVE  Within(Rescale(from, m, p), RescaleSeg(from, m, s))
<1>1. s.start \in Point /\ s.end \in Point
  BY DEF Segment
<1>2. /\ Before(Rescale(from, m, p), Rescale(from, m, s.start)) <=> Before(p, s.start)
      /\ Before(Rescale(from, m, s.end), Rescale(from, m, p)) <=> Before(s.end, p)
  BY <1>1, RescaleKeepsOrder
<1> QED
  BY <1>2 DEF Within, RescaleSeg

(* What InsertAt of the layout does to a block.                            *)
LEMMA InsertAtProperties ==
  ASSUME NEW S, NEW s \in Seq(S), NEW k \in 1..Len(s)+1, NEW e \in S
  PROVE  /\ InsertAt(s, k, e) \in Seq(S)
         /\ Len(InsertAt(s, k, e)) = Len(s) + 1
         /\ \A j \in 1..Len(s)+1 :
              InsertAt(s, k, e)[j] = IF j < k THEN s[j] ELSE IF j = k THEN e ELSE s[j-1]
<1> DEFINE n == Len(s)
           x == SubSeq(s, 1, k - 1)
           y == SubSeq(s, k, n)
           xe == x \o <<e>>
<1>0. n \in Nat /\ k \in Nat /\ 1 =< k /\ k =< n + 1
  OBVIOUS
<1>1. /\ x \in Seq(S) /\ Len(x) = k - 1
      /\ \A i \in 1..k-1 : x[i] = s[i]
  <2>1. 1 \in Int /\ k - 1 \in Int /\ \A i \in 1..k-1 : s[i] \in S
    BY <1>0
  <2>2. /\ x \in Seq(S) /\ Len(x) = IF 1 <= k-1 THEN k-1-1+1 ELSE 0
        /\ \A i \in 1..k-1-1+1 : x[i] = s[1+i-1]
    BY <2>1, SubSeqProperties
  <2> HIDE DEF x
  <2> QED
    BY <1>0, <2>2
<1>2. /\ y \in Seq(S) /\ Len(y) = n - k + 1
      /\ \A i \in 1..n-k+1 : y[i] = s[k+i-1]
  <2>1. k \in Int /\ n \in Int /\ \A i \in k..n : s[i] \in S
    BY <1>0
  <2>2. /\ y \in Seq(S) /\ Len(y) = IF k <= n THEN n-k+1 ELSE 0
        /\ \A i \in 1..n-k+1 : y[i] = s[k+i-1]
    <3> HIDE DEF n
    <3> QED
      BY <2>1, SubSeqProperties
  <2> HIDE DEF y, n
  <2> QED
    BY <1>0, <2>2
<1> HIDE DEF x, y, n
<1>3. /\ xe \in Seq(S) /\ Len(xe) = k
      /\ \A i \in 1..k : xe[i] = IF i < k THEN s[i] ELSE e
  <2>1. <<e>> \in Seq(S) /\ Len(<<e>>) = 1 /\ <<e>>[1] = e
    OBVIOUS
  <2> DEFINE z == <<e>>
  <2>2. z \in Seq(S) /\ Len(z) = 1 /\ z[1] = e
    BY <2>1
  <2> HIDE DEF z
  <2>3. /\ x \o z \in Seq(S) /\ Len(x \o z) = Len(x) + Len(z)
        /\ \A i \in 1..Len(x)+Len(z) : (x \o z)[i] = IF i <= Len(x) THEN x[i] ELSE z[i - Len(x)]
    BY <1>1, <2>2, ConcatProperties
  <2>4. x \o z \in Seq(S) /\ Len(x \o z) = k
        /\ \A i \in 1..k : (x \o z)[i] = IF i < k THEN s[i] ELSE e
    BY <1>0, <1>1, <2>2, <2>3
  <2> QED
    BY <2>4 DEF z
<1> HIDE DEF xe
<1>4. /\ xe \o y \in Seq(S) /\ Len(xe \o y) = Len(xe) + Len(y)
      /\ \A i \in 1..Len(xe)+Len(y) : (xe \o y)[i] = IF i <= Len(xe) THEN xe[i] ELSE y[i - Len(xe)]
  BY <1>2, <1>3, ConcatProperties
<1>5. /\ Len(xe \o y) = n + 1
      /\ \A j \in 1..n+1 : (xe \o y)[j] = IF j < k THEN s[j] ELSE IF j = k THEN e ELSE s[j-1]
  BY <1>0, <1>2, <1>3, <1>4, SMTT(20)
<1>6. InsertAt(s, k, e) = xe \o y
  BY DEF InsertAt, xe, x, y, n
<1> QED
  BY <1>4, <1>5, <1>6 DEF n

-----------------------------------------------------------------------------
(* What Substitute does to the registers an instruction names.             *)
LEMMA SubstituteNames ==
  ASSUME NEW x \in Instruction, NEW from \in Nat, NEW to \in Nat
  PROVE  LET y == Substitute(x, from, to) IN
         /\ y \in Instruction
         /\ \A r : r \in Regs(y) <=> (r \in Regs(x) /\ r # from) \/ (r = to /\ from \in Regs(x))
         /\ \A r : r \in Inputs(y) <=> (r \in Inputs(x) /\ r # from) \/ (r = to /\ from \in Inputs(x))
         /\ \A r : r \in Outputs(y) <=> (r \in Outputs(x) /\ r # from) \/ (r = to /\ from \in Outputs(x))
         /\ \A a \in Range(y.args) : a.tag = "raw" =>
              \E c \in Range(x.args) : c.tag = "raw" /\ (c.reg = from \/ c.reg = a.reg)
<1> DEFINE y == Substitute(x, from, to)
           put(a) == IF a.reg = from THEN [a EXCEPT !.reg = to] ELSE a
<1>1. x.args \in Seq(Argument)
  BY DEF Instruction
<1>2. /\ y = [x EXCEPT !.args = [k \in DOMAIN x.args |-> put(x.args[k])]]
  BY DEF Substitute, Instruction
<1>3. \A a \in Argument : /\ put(a) \in Argument /\ put(a).tag = a.tag
                          /\ put(a).reg = IF a.reg = from THEN to ELSE a.reg
  BY DEF Argument
<1> HIDE DEF put
<1>4. /\ \A k \in DOMAIN x.args : x.args[k] \in Argument
      /\ [k \in DOMAIN x.args |-> put(x.args[k])] \in Seq(Argument)
  BY <1>1, <1>3
<1>5. /\ y.args = [k \in DOMAIN x.args |-> put(x.args[k])]
      /\ y \in Instruction
  BY <1>2, <1>4 DEF Instruction
<1> HIDE DEF y
<1>6. /\ \A a \in Range(x.args) : a \in Argument /\ put(a) \in Range(y.args)
      /\ \A a \in Range(y.args) : \E c \in Range(x.args) : a = put(c)
  BY <1>4, <1>5 DEF Range
<1>7. \A r : r \in Regs(y) <=> (r \in Regs(x) /\ r # from) \/ (r = to /\ from \in Regs(x))
  BY <1>3, <1>6 DEF Regs
<1>8. \A r : r \in Inputs(y) <=> (r \in Inputs(x) /\ r # from) \/ (r = to /\ from \in Inputs(x))
  BY <1>3, <1>6 DEF Inputs
<1>9. \A r : r \in Outputs(y) <=> (r \in Outputs(x) /\ r # from) \/ (r = to /\ from \in Outputs(x))
  BY <1>3, <1>6 DEF Outputs
<1>10. \A a \in Range(y.args) : a.tag = "raw" =>
         \E c \in Range(x.args) : c.tag = "raw" /\ (c.reg = from \/ c.reg = a.reg)
  BY <1>3, <1>6
<1> QED
  BY <1>5, <1>7, <1>8, <1>9, <1>10 DEF y

(* The load and the store of the spiller name one register.                *)
LEMMA SlotInstructions ==
  ASSUME NEW v \in Nat, NEW n \in Nat
  PROVE  /\ StoreToSlot(v, n) \in Instruction /\ LoadFromSlot(v, n) \in Instruction
         /\ Regs(StoreToSlot(v, n)) = {v} /\ Regs(LoadFromSlot(v, n)) = {v}
         /\ Inputs(StoreToSlot(v, n)) = {v} /\ Outputs(StoreToSlot(v, n)) = {}
         /\ Inputs(LoadFromSlot(v, n)) = {} /\ Outputs(LoadFromSlot(v, n)) = {v}
         /\ \A a \in Range(StoreToSlot(v, n).args) : a.tag # "raw"
         /\ \A a \in Range(LoadFromSlot(v, n).args) : a.tag # "raw"
<1>1. ASSUME NEW t \in {"use", "def"}
      PROVE  <<Arg(t, v)>> \in Seq(Argument) /\ Range(<<Arg(t, v)>>) = {Arg(t, v)}
             /\ Arg(t, v).tag = t /\ Arg(t, v).reg = v
  BY <1>1 DEF Arg, Argument, Range
<1>2. <<Arg("use", v)>> \in Seq(Argument) /\ Range(<<Arg("use", v)>>) = {Arg("use", v)}
      /\ Arg("use", v).tag = "use" /\ Arg("use", v).reg = v
  BY <1>1
<1>3. <<Arg("def", v)>> \in Seq(Argument) /\ Range(<<Arg("def", v)>>) = {Arg("def", v)}
      /\ Arg("def", v).tag = "def" /\ Arg("def", v).reg = v
  BY <1>1
<1>4. StoreToSlot(v, n) \in Instruction /\ StoreToSlot(v, n).args = <<Arg("use", v)>>
  BY <1>2 DEF StoreToSlot, Instruction
<1>5. LoadFromSlot(v, n) \in Instruction /\ LoadFromSlot(v, n).args = <<Arg("def", v)>>
  BY <1>3 DEF LoadFromSlot, Instruction
<1>6. Range(StoreToSlot(v, n).args) = {Arg("use", v)} /\ Range(LoadFromSlot(v, n).args) = {Arg("def", v)}
  BY <1>2, <1>3, <1>4, <1>5
<1> HIDE DEF StoreToSlot, LoadFromSlot, Arg
<1> QED
  BY <1>2, <1>3, <1>4, <1>5, <1>6 DEF Regs, Inputs, Outputs, InTags, OutTags

(* Every virtual register an instruction names is flagged.                 *)
LEMMA NamesFlagged ==
  ASSUME InstTyped, NEW i \in DOMAIN inst
  PROVE  /\ inst[i] \in Instruction
         /\ AllVRegs(inst[i]) \subseteq Regs(inst[i])
         /\ AllVRegs(inst[i]) \subseteq Inputs(inst[i]) \cup Outputs(inst[i])
         /\ Inputs(inst[i]) \subseteq Regs(inst[i]) /\ Outputs(inst[i]) \subseteq Regs(inst[i])
         /\ Regs(inst[i]) \subseteq Nat
<1>1. inst[i] \in Instruction
  BY DEF InstTyped
<1>2. inst[i].args \in Seq(Argument)
  BY <1>1 DEF Instruction
<1>3. \A a \in Range(inst[i].args) : a \in Argument
  BY <1>2 DEF Range
<1>4. \A a \in Argument : a.tag \in {"use", "def", "inout", "rmw", "raw"} /\ a.reg \in Nat
  BY DEF Argument
<1>5. AllVRegs(inst[i]) \subseteq Regs(inst[i]) /\ Inputs(inst[i]) \subseteq Regs(inst[i])
      /\ Outputs(inst[i]) \subseteq Regs(inst[i])
  BY DEF AllVRegs, Regs, Inputs, Outputs
<1>6. Regs(inst[i]) \subseteq Nat
  BY <1>3, <1>4 DEF Regs
<1>7. AllVRegs(inst[i]) \subseteq Inputs(inst[i]) \cup Outputs(inst[i])
  <2> SUFFICES ASSUME NEW a \in Range(inst[i].args), IsVReg(a.reg)
               PROVE  a.tag \in InTags \/ a.tag \in OutTags
    BY DEF AllVRegs, Inputs, Outputs
  <2>1. NumPhys \in Nat /\ a.reg \in Nat /\ a.tag \in {"use", "def", "inout", "rmw", "raw"}
    BY <1>3, <1>4, RegistersAssumption
  <2>2. a.tag # "raw"
    BY <2>1 DEF InstTyped, IsVReg
  <2> QED
    BY <2>1, <2>2 DEF InTags, OutTags
<1> QED
  BY <1>1, <1>5, <1>6, <1>7

-----------------------------------------------------------------------------
(* The neighbours prev_inst_of and next_inst_of give stand before and      *)
(* after an instruction, in its block.                                     *)
LEMMA Neighbours ==
  ASSUME InstTyped, LaidOut, NEW i \in DOMAIN pp
  PROVE  LET b == pp[i][1]
             k == IndexIn(i) IN
         /\ 0 \notin DOMAIN pp
         /\ b \in DOMAIN code /\ code[b] \in Seq(DOMAIN pp) /\ k \in 1..Len(code[b]) /\ code[b][k] = i
         /\ PrevOf(i) = 0 => k = 1
         /\ PrevOf(i) # 0 => /\ k > 1 /\ PrevOf(i) = code[b][k - 1] /\ PrevOf(i) \in DOMAIN pp
                             /\ Before(pp[PrevOf(i)], pp[i])
         /\ NextOf(i) # 0 => /\ k < Len(code[b]) /\ NextOf(i) = code[b][k + 1] /\ NextOf(i) \in DOMAIN pp
                             /\ Before(pp[i], pp[NextOf(i)])
<1> DEFINE b == pp[i][1]
           k == IndexIn(i)
           n == Len(code[b])
<1>1. 0 \notin DOMAIN pp
  BY DEF InstTyped, LaidOut
<1>2. b \in DOMAIN code /\ \E j \in DOMAIN code[b] : code[b][j] = i
  BY DEF LaidOut
<1>3. code[b] \in Seq(DOMAIN pp)
  BY <1>2 DEF LaidOut
<1>4. k \in DOMAIN code[b] /\ code[b][k] = i
  BY <1>2 DEF IndexIn
<1>5. n \in Nat /\ DOMAIN code[b] = 1..n /\ \A j \in 1..n : code[b][j] \in DOMAIN pp
  BY <1>3
<1>6. \A j \in 1..n : j > 1 => Before(pp[code[b][j - 1]], pp[code[b][j]])
  BY <1>2, <1>5 DEF LaidOut
<1>7. /\ PrevOf(i) = IF k = 1 THEN 0 ELSE code[b][k - 1]
      /\ NextOf(i) = IF k = n THEN 0 ELSE code[b][k + 1]
  BY DEF PrevOf, NextOf
<1> HIDE DEF b, k, n
<1>8. k \in Nat /\ 1 =< k /\ k =< n
  BY <1>4, <1>5
<1>9. k # 1 => k - 1 \in 1..n /\ k \in 1..n /\ k > 1
  BY <1>5, <1>8
<1>10. k # n => k + 1 \in 1..n /\ k + 1 > 1 /\ k + 1 - 1 = k
  BY <1>5, <1>8
<1>11. PrevOf(i) = 0 => k = 1
  BY <1>1, <1>5, <1>7, <1>9
<1>12. PrevOf(i) # 0 => /\ k > 1 /\ PrevOf(i) = code[b][k - 1] /\ PrevOf(i) \in DOMAIN pp
                        /\ Before(pp[PrevOf(i)], pp[i])
  BY <1>4, <1>5, <1>6, <1>7, <1>9
<1>13. NextOf(i) # 0 => /\ k < n /\ NextOf(i) = code[b][k + 1] /\ NextOf(i) \in DOMAIN pp
                        /\ Before(pp[i], pp[NextOf(i)])
  <2>1. ASSUME k # n PROVE Before(pp[code[b][k]], pp[code[b][k + 1]])
    <3> DEFINE j == k + 1
    <3>1. j \in 1..n /\ j > 1 /\ j - 1 = k
      BY <1>8, <1>10, <2>1
    <3> HIDE DEF j
    <3>2. Before(pp[code[b][k]], pp[code[b][j]])
      BY <1>6, <3>1
    <3> QED
      BY <3>2 DEF j
  <2> QED
    BY <1>4, <1>5, <1>7, <1>8, <1>10, <2>1
<1> QED
  BY <1>1, <1>2, <1>3, <1>4, <1>5, <1>8, <1>11, <1>12, <1>13 DEF b, k, n

(* No definition is dropped from the list of the spiller.                  *)
LEMMA DedupKeepsAll ==
  ASSUME IInv, InstTyped, LaidOut, NEW D \in SUBSET DOMAIN pp
  PROVE  Dedup(D) = D
<1> SUFFICES ASSUME NEW d \in D, PrevOf(d) \in D PROVE ~Before(pp[d], pp[PrevOf(d)])
  BY DEF Dedup
<1>1. PrevOf(d) # 0 /\ Before(pp[PrevOf(d)], pp[d])
  BY Neighbours
<1>2. pp[d] \in Point /\ pp[PrevOf(d)] \in Point
  BY DEF IInv, PointsTyped
<1> QED
  BY <1>1, <1>2, BeforeOrder

(* Recomputing the points keeps the layout, what is covered, the pairs and *)
(* the neighbours.                                                         *)
LEMMA RecomputeKeepsOrder ==
  ASSUME IInv, InstTyped, LaidOut, NEW from \in Point, NEW m \in BOOLEAN,
         RecomputePoints(from, m), UNCHANGED <<code, inst>>
  PROVE  /\ LaidOut'
         /\ DOMAIN pp' = DOMAIN pp /\ DOMAIN vlr' = DOMAIN vlr
         /\ \A i \in DOMAIN pp : /\ pp'[i] = Rescale(from, m, pp[i]) /\ pp'[i][1] = pp[i][1]
                                 /\ PrevOf(i)' = PrevOf(i)
         /\ \A i \in DOMAIN pp : \A v : HasCover(i, v) => HasCover(i, v)'
         /\ \A w, a, c : Pair(w, a, c) => Pair(w, a, c)'
<1>1. /\ DOMAIN pp' = DOMAIN pp /\ \A i \in DOMAIN pp : pp'[i] = Rescale(from, m, pp[i])
      /\ DOMAIN vlr' = DOMAIN vlr /\ \A v \in DOMAIN vlr : vlr'[v] = RescaleRange(from, m, vlr[v])
  BY DEF RecomputePoints
<1>2. /\ \A i \in DOMAIN pp : pp[i] \in Point
      /\ \A v \in DOMAIN vlr : vlr[v] \in SUBSET Segment
  BY DEF IInv, PointsTyped, RangesTyped
<1>3. \A i \in DOMAIN pp : pp'[i][1] = pp[i][1]
  BY <1>1 DEF Rescale
<1>4. \A i, j \in DOMAIN pp : Before(pp'[i], pp'[j]) <=> Before(pp[i], pp[j])
  BY <1>1, <1>2, RescaleKeepsOrder
<1>5. code' = code /\ inst' = inst
  OBVIOUS
<1>6. LaidOut'
  <2>1. DOMAIN pp' \subseteq DOMAIN inst'
    BY <1>1, <1>5 DEF LaidOut
  <2>2. ASSUME NEW b \in DOMAIN code'
        PROVE  /\ code'[b] \in Seq(DOMAIN pp')
               /\ \A k \in DOMAIN code'[b] :
                    /\ pp'[code'[b][k]][1] = b
                    /\ k > 1 => Before(pp'[code'[b][k - 1]], pp'[code'[b][k]])
    <3>1. /\ code[b] \in Seq(DOMAIN pp)
          /\ \A k \in DOMAIN code[b] :
               /\ pp[code[b][k]][1] = b
               /\ k > 1 => Before(pp[code[b][k - 1]], pp[code[b][k]])
      BY <1>5 DEF LaidOut
    <3>2. \A k \in DOMAIN code[b] : code[b][k] \in DOMAIN pp /\ (k > 1 => code[b][k - 1] \in DOMAIN pp)
      BY <3>1
    <3> QED
      BY <1>1, <1>3, <1>4, <1>5, <3>1, <3>2
  <2>3. \A i \in DOMAIN pp' : /\ pp'[i][1] \in DOMAIN code'
                             /\ \E k \in DOMAIN code'[pp'[i][1]] : code'[pp'[i][1]][k] = i
    BY <1>1, <1>3, <1>5 DEF LaidOut
  <2> QED
    BY <2>1, <2>2, <2>3 DEF LaidOut
<1>7. ASSUME NEW i \in DOMAIN pp PROVE PrevOf(i)' = PrevOf(i)
  <2>1. IndexIn(i)' = IndexIn(i)
    BY <1>3, <1>5 DEF IndexIn
  <2> QED
    BY <1>3, <1>5, <2>1 DEF PrevOf
<1>8. ASSUME NEW i \in DOMAIN pp, NEW v, HasCover(i, v) PROVE HasCover(i, v)'
  <2>1. v \in DOMAIN vlr /\ \E s \in vlr[v] : Within(pp[i], s)
    BY <1>8 DEF HasCover
  <2>2. PICK s \in vlr[v] : Within(pp[i], s)
    BY <2>1
  <2>3. s \in Segment
    BY <1>2, <2>1, <2>2
  <2>4. Within(pp'[i], RescaleSeg(from, m, s))
    BY <1>1, <1>2, <2>2, <2>3, RescaleWithin
  <2>5. RescaleSeg(from, m, s) \in vlr'[v]
    BY <1>1, <2>1, <2>2 DEF RescaleRange
  <2> QED
    BY <1>1, <2>1, <2>4, <2>5 DEF HasCover
<1>9. \A w, a, c : Pair(w, a, c) => Pair(w, a, c)'
  BY <1>1, <1>4, <1>5 DEF Pair
<1> QED
  BY <1>1, <1>3, <1>6, <1>7, <1>8, <1>9

(* Placing the new instruction at the point between its neighbours keeps   *)
(* the layout in order.                                                    *)
LEMMA PlaceKeepsLayout ==
  ASSUME IInv, InstTyped, LaidOut, NEW k, Place(k), inst' = inst,
         ins.at \in DOMAIN pp, ins.id \in DOMAIN inst \ DOMAIN pp, HasBetween(ins.lo, ins.hi),
         ins.lo[1] = pp[ins.at][1],
         k \in 1..Len(code[pp[ins.at][1]])+1,
         k > 1 => ins.lo = pp[code[pp[ins.at][1]][k - 1]],
         k =< Len(code[pp[ins.at][1]]) => ~Before(pp[code[pp[ins.at][1]][k]], ins.hi)
  PROVE  /\ LaidOut'
         /\ DOMAIN pp' = DOMAIN pp \cup {ins.id}
         /\ \A i \in DOMAIN pp : pp'[i] = pp[i]
         /\ pp'[ins.id] = Between(ins.lo, ins.hi)
<1> DEFINE b == pp[ins.at][1]
           s == code[b]
           t == InsertAt(s, k, ins.id)
           n == Len(s)
           new == Between(ins.lo, ins.hi)
<1>1. /\ DOMAIN pp' = DOMAIN pp \cup {ins.id}
      /\ \A i \in DOMAIN pp : pp'[i] = pp[i]
      /\ pp'[ins.id] = new
      /\ code' = [code EXCEPT ![b] = t]
  BY DEF Place
<1>2. b \in DOMAIN code /\ s \in Seq(DOMAIN pp)
  BY DEF LaidOut
<1>3. /\ DOMAIN code' = DOMAIN code /\ code'[b] = t
      /\ \A c \in DOMAIN code : c # b => code'[c] = code[c]
  BY <1>1, <1>2
<1>4. /\ new \in Point /\ Before(ins.lo, new) /\ Before(new, ins.hi) /\ new[1] = b
      /\ ins.lo \in Point /\ ins.hi \in Point
  <2>1. ins.lo \in Point /\ ins.hi \in Point
    BY DEF IInv, PointsTyped
  <2>2. new \in Point /\ Before(ins.lo, new) /\ Before(new, ins.hi)
    BY <2>1, BetweenIsBetween
  <2> QED
    BY <2>1, <2>2 DEF Between
<1>5. \A i \in DOMAIN pp : pp[i] \in Point
  BY DEF IInv, PointsTyped
<1>6. /\ n \in Nat /\ DOMAIN s = 1..n /\ k \in 1..n+1
      /\ \A j \in 1..n : s[j] \in DOMAIN pp /\ pp[s[j]][1] = b
      /\ \A j \in 1..n : j > 1 => Before(pp[s[j - 1]], pp[s[j]])
      /\ k > 1 => ins.lo = pp[s[k - 1]]
      /\ k =< n => ~Before(pp[s[k]], ins.hi)
  <2>1. n \in Nat /\ DOMAIN s = 1..n /\ \A j \in 1..n : s[j] \in DOMAIN pp
    BY <1>2
  <2>2. \A j \in 1..n : /\ pp[s[j]][1] = b
                        /\ j > 1 => Before(pp[s[j - 1]], pp[s[j]])
    BY <1>2, <2>1 DEF LaidOut
  <2>3. /\ k \in 1..n+1
        /\ k > 1 => ins.lo = pp[s[k - 1]]
        /\ k =< n => ~Before(pp[s[k]], ins.hi)
    OBVIOUS
  <2> HIDE DEF s, n, b
  <2> QED
    BY <2>1, <2>2, <2>3
<1>7. /\ t \in Seq(DOMAIN pp') /\ Len(t) = n + 1
      /\ \A j \in 1..n+1 : t[j] = IF j < k THEN s[j] ELSE IF j = k THEN ins.id ELSE s[j - 1]
  <2>1. s \in Seq(DOMAIN pp') /\ ins.id \in DOMAIN pp'
    BY <1>1, <1>2
  <2> DEFINE P == DOMAIN pp'
             e == ins.id
  <2>2. s \in Seq(P) /\ e \in P /\ k \in 1..Len(s)+1
    BY <1>6, <2>1
  <2> HIDE DEF P, e, s, t, n, b, new
  <2>3. /\ InsertAt(s, k, e) \in Seq(P) /\ Len(InsertAt(s, k, e)) = Len(s) + 1
        /\ \A j \in 1..Len(s)+1 :
             InsertAt(s, k, e)[j] = IF j < k THEN s[j] ELSE IF j = k THEN e ELSE s[j - 1]
    <3>1. \A S, q, m, d : q \in Seq(S) /\ m \in 1..Len(q)+1 /\ d \in S =>
            /\ InsertAt(q, m, d) \in Seq(S) /\ Len(InsertAt(q, m, d)) = Len(q) + 1
            /\ \A j \in 1..Len(q)+1 :
                 InsertAt(q, m, d)[j] = IF j < m THEN q[j] ELSE IF j = m THEN d ELSE q[j - 1]
      BY InsertAtProperties
    <3> QED
      BY <2>2, <3>1
  <2> QED
    BY <2>3 DEF P, e, t, n
<1> HIDE DEF b, s, t, n, new
<1>8. DOMAIN t = 1..n+1
  BY <1>6, <1>7
<1>9. \A j \in 1..n+1 : pp'[t[j]][1] = b
  <2> TAKE j \in 1..n+1
  <2>1. CASE j < k
    BY <1>1, <1>6, <1>7, <2>1
  <2>2. CASE j = k
    BY <1>1, <1>4, <1>7, <2>2
  <2>3. CASE j > k
    <3>1. j - 1 \in 1..n /\ t[j] = s[j - 1]
      BY <1>6, <1>7, <2>3, SMTT(20)
    <3> QED
      BY <1>1, <1>6, <3>1
  <2> QED
    BY <1>6, <2>1, <2>2, <2>3
<1>10. \A j \in 1..n+1 : j > 1 => Before(pp'[t[j - 1]], pp'[t[j]])
  <2> SUFFICES ASSUME NEW j \in 1..n+1, j > 1 PROVE Before(pp'[t[j - 1]], pp'[t[j]])
    OBVIOUS
  <2>0. j \in Nat /\ j - 1 \in 1..n+1 /\ k \in Nat
    BY <1>6
  <2>1. CASE j < k
    <3>1. t[j] = s[j] /\ t[j - 1] = s[j - 1] /\ j \in 1..n /\ j - 1 \in 1..n
      BY <1>6, <1>7, <2>0, <2>1
    <3> QED
      BY <1>1, <1>6, <3>1
  <2>2. CASE j = k
    <3>1. t[j] = ins.id /\ t[j - 1] = s[j - 1] /\ j - 1 \in 1..n
      BY <1>6, <1>7, <2>0, <2>2
    <3> QED
      BY <1>1, <1>4, <1>6, <2>2, <3>1
  <2>3. CASE j = k + 1
    <3>1. t[j] = s[k] /\ t[j - 1] = ins.id /\ k \in 1..n
      BY <1>6, <1>7, <2>0, <2>3
    <3>2. pp'[s[k]] = pp[s[k]] /\ pp[s[k]] \in Point /\ ~Before(pp[s[k]], ins.hi)
      BY <1>1, <1>5, <1>6, <3>1
    <3> QED
      BY <1>1, <1>4, <3>1, <3>2, BeforeOrder
  <2>4. CASE j > k + 1
    <3>1. t[j] = s[j - 1] /\ t[j - 1] = s[j - 1 - 1] /\ j - 1 \in 1..n /\ j - 1 > 1 /\ j - 1 - 1 \in 1..n
      BY <1>6, <1>7, <2>0, <2>4
    <3> QED
      BY <1>1, <1>6, <3>1
  <2> QED
    BY <2>0, <2>1, <2>2, <2>3, <2>4
<1>11. ASSUME NEW c \in DOMAIN code'
       PROVE  /\ code'[c] \in Seq(DOMAIN pp')
              /\ \A j \in DOMAIN code'[c] :
                   /\ pp'[code'[c][j]][1] = c
                   /\ j > 1 => Before(pp'[code'[c][j - 1]], pp'[code'[c][j]])
  <2>1. CASE c = b
    BY <1>3, <1>7, <1>8, <1>9, <1>10, <2>1
  <2>2. CASE c # b
    <3>1. /\ code[c] \in Seq(DOMAIN pp)
          /\ \A j \in DOMAIN code[c] :
               /\ pp[code[c][j]][1] = c
               /\ j > 1 => Before(pp[code[c][j - 1]], pp[code[c][j]])
      BY <1>3 DEF LaidOut
    <3>2. \A j \in DOMAIN code[c] : code[c][j] \in DOMAIN pp /\ (j > 1 => code[c][j - 1] \in DOMAIN pp)
      BY <3>1
    <3>3. code[c] \in Seq(DOMAIN pp')
      BY <1>1, <3>1
    <3> QED
      BY <1>1, <1>3, <2>2, <3>1, <3>2, <3>3
  <2> QED
    BY <2>1, <2>2
<1>12. ASSUME NEW i \in DOMAIN pp'
       PROVE  /\ pp'[i][1] \in DOMAIN code'
              /\ \E j \in DOMAIN code'[pp'[i][1]] : code'[pp'[i][1]][j] = i
  <2>1. CASE i = ins.id
    <3>1. k \in DOMAIN t /\ t[k] = i
      BY <1>6, <1>7, <1>8, <2>1
    <3> QED
      BY <1>1, <1>2, <1>3, <1>4, <2>1, <3>1
  <2>2. CASE i \in DOMAIN pp /\ pp[i][1] = b
    <3>1. PICK j \in 1..n : s[j] = i
      BY <1>6, <2>2 DEF LaidOut, s
    <3>2. IF j < k THEN j \in 1..n+1 /\ t[j] = i ELSE j + 1 \in 1..n+1 /\ t[j + 1] = i
      <4>1. CASE j < k
        BY <1>6, <1>7, <3>1, <4>1
      <4>2. CASE ~(j < k)
        <5>1. j + 1 \in 1..n+1 /\ ~(j + 1 < k) /\ j + 1 # k /\ j + 1 - 1 = j
          BY <1>6, <3>1, <4>2
        <5> QED
          BY <1>7, <3>1, <4>2, <5>1
      <4> QED
        BY <4>1, <4>2
    <3> QED
      BY <1>1, <1>2, <1>3, <1>8, <2>2, <3>2
  <2>3. CASE i \in DOMAIN pp /\ pp[i][1] # b
    BY <1>1, <1>3, <2>3, SMTT(20) DEF LaidOut
  <2> QED
    BY <1>1, <2>1, <2>2, <2>3
<1>13. DOMAIN pp' \subseteq DOMAIN inst'
  BY <1>1 DEF LaidOut
<1> QED
  BY <1>1, <1>11, <1>12, <1>13 DEF LaidOut, new

-----------------------------------------------------------------------------
(* compute_program_points gives instruction k of a block its k-th step.    *)
LEMMA PointOf ==
  ASSUME NEW g \in Functions, NEW b \in DOMAIN g.code, NEW k \in DOMAIN g.code[b]
  PROVE  /\ b \in Nat /\ k \in Nat
         /\ g.code[b][k] \in DOMAIN g.inst
         /\ InitialPoints(g)[g.code[b][k]] = <<b, k * STEP>>
<1> DEFINE i == g.code[b][k]
           c == CHOOSE x \in DOMAIN g.code : i \in Range(g.code[x])
           j == CHOOSE y \in DOMAIN g.code[c] : g.code[c][y] = i
<1>1. b \in Nat /\ g.code[b] \in Seq(DOMAIN g.inst)
  BY BlockTyped
<1>2. k \in Nat /\ i \in DOMAIN g.inst
  BY <1>1
<1>3. c \in DOMAIN g.code /\ i \in Range(g.code[c])
  BY <1>2, FunctionsAssumption, ZenonT(30)
<1>4. InitialPoints(g)[i] = <<c, j * STEP>>
  BY <1>2 DEF InitialPoints
<1> HIDE DEF c
<1>5. j \in DOMAIN g.code[c] /\ g.code[c][j] = i
  BY <1>3 DEF Range
<1> HIDE DEF j
<1>6. c = b /\ j = k
  BY <1>3, <1>5, FunctionsAssumption
<1> QED
  BY <1>1, <1>2, <1>4, <1>6

(* In the block of an instruction that touches it, the range of a virtual  *)
(* register has the instruction inside.                                    *)
LEMMA SegmentCovers ==
  ASSUME NEW g \in Functions, NEW liveIn, NEW liveOut, NEW v, NEW b \in DOMAIN g.code,
         NEW k \in Touching(g, b, v)
  PROVE  Within(<<b, k * STEP>>, VRegSegment(g, liveIn, liveOut, v, b))
<1> DEFINE touch == Touching(g, b, v)
           n == Len(g.code[b])
<1>1. b \in Nat /\ g.code[b] \in Seq(DOMAIN g.inst)
  BY BlockTyped
<1>2. n \in Nat /\ DOMAIN g.code[b] = 1..n
  BY <1>1
<1>3. touch \in SUBSET (1..n) /\ k \in touch
  BY <1>2 DEF Touching
<1> HIDE DEF touch, n
<1>4. Min(touch) \in Nat /\ Min(touch) =< k
  <2>1. touch \in SUBSET Nat /\ touch # {}
    BY <1>2, <1>3
  <2> QED
    BY <1>3, <2>1, MinInSet
<1>5. Max(touch \cup {0}) \in Nat /\ k =< Max(touch \cup {0})
  <2>1. touch \cup {0} \in SUBSET (0..n) /\ touch \cup {0} # {} /\ k \in touch \cup {0}
    BY <1>2, <1>3
  <2> DEFINE m == Max(touch \cup {0})
  <2>2. m \in touch \cup {0} /\ m >= k
    BY <1>2, <2>1, MaxInSet
  <2> HIDE DEF m
  <2>3. m \in 0..n /\ k \in 0..n
    BY <2>1, <2>2
  <2>4. m \in Nat /\ k =< m
    BY <1>2, <2>2, <2>3
  <2> QED
    BY <2>4 DEF m
<1> DEFINE fromStart == \/ v \in liveIn[b]
                        \/ v \in Inputs(g.inst[g.code[b][Min(touch)]])
           first == IF fromStart THEN 0 ELSE STEP * Min(touch)
           last == STEP * Max(touch \cup {0})
           out == STEP * (n + 1)
<1>6. VRegSegment(g, liveIn, liveOut, v, b) =
        [start |-> <<b, first>>, end |-> IF v \in liveOut[b] THEN <<b, out>> ELSE <<b, last>>]
  BY DEF VRegSegment, BlockEnd, touch, n
<1>7. k \in Nat /\ 1 =< k /\ k =< n
  BY <1>2, <1>3
<1>8. /\ first \in Nat /\ last \in Nat /\ out \in Nat /\ k * STEP \in Nat
      /\ first =< k * STEP /\ k * STEP =< last /\ k * STEP =< out
  BY <1>2, <1>4, <1>5, <1>7 DEF STEP
<1> HIDE DEF first, last, out
<1> QED
  BY <1>1, <1>6, <1>8 DEF Within, Before

(* What FunctionsAssumption says of one instruction.                       *)
LEMMA FunctionTyped ==
  ASSUME NEW g \in Functions
  PROVE  /\ g.inst \in Seq(Instruction)
         /\ g.nregs \in Nat /\ g.nregs >= NumPhys
         /\ \A i \in DOMAIN g.inst :
              /\ \A r \in Regs(g.inst[i]) : r < g.nregs
              /\ \A a \in Range(g.inst[i].args) : a.tag = "raw" => a.reg < NumPhys
<1> DEFINE A == [tag : {"use", "def", "inout", "rmw", "raw"}, reg : 0..g.nregs-1]
           I == [op : {"op", "copy", "call"}, args : Seq(A), slot : Nat]
<1>1. g.inst \in Seq(I) /\ g.nregs \in Nat /\ g.nregs >= NumPhys /\ NumPhys \in Nat
  BY FunctionsAssumption, RegistersAssumption
<1>2. A \subseteq Argument /\ \A a \in A : a.reg \in 0..g.nregs-1
  BY <1>1 DEF Argument
<1> HIDE DEF A
<1>3. I \subseteq Instruction /\ \A x \in I : x.args \in Seq(A)
  <2>1. \A q : q \in Seq(A) => q \in Seq(Argument)
    BY <1>2
  <2> QED
    BY <2>1 DEF Instruction
<1> HIDE DEF I
<1>4. g.inst \in Seq(Instruction)
  BY <1>1, <1>3
<1>5. ASSUME NEW i \in DOMAIN g.inst
      PROVE  /\ \A r \in Regs(g.inst[i]) : r < g.nregs
             /\ \A a \in Range(g.inst[i].args) : a.tag = "raw" => a.reg < NumPhys
  <2>1. g.inst[i].args \in Seq(A)
    BY <1>1, <1>3
  <2>2. \A a \in Range(g.inst[i].args) : a.reg \in 0..g.nregs-1
    BY <1>2, <2>1 DEF Range
  <2>3. \A a \in Range(g.inst[i].args) : a.tag = "raw" => ~IsVReg(a.reg)
    BY FunctionsAssumption
  <2>4. \A r \in Regs(g.inst[i]) : r < g.nregs
    BY <1>1, <2>2 DEF Regs
  <2>5. \A a \in Range(g.inst[i].args) : a.tag = "raw" => a.reg < NumPhys
    BY <1>1, <2>2, <2>3 DEF IsVReg
  <2> QED
    BY <2>4, <2>5
<1> QED
  BY <1>1, <1>4, <1>5

(* The analysis establishes the invariant.                                 *)
LEMMA InitCInv ==
  ASSUME Init
  PROVE  CInv
<1>1. PICK g \in Functions : Analyzed(g)
  BY DEF Init
<1> DEFINE liveIn == LeastLiveIn(Summary(g))
           liveOut == [b \in DOMAIN g.code |-> LiveOutOf(Summary(g), liveIn, b)]
           names == UNION {AllVRegs(g.inst[i]) : i \in DOMAIN g.inst}
<1>2. /\ code = g.code /\ inst = g.inst /\ pp = InitialPoints(g)
      /\ vlr = [v \in names |-> VRegRange(g, liveIn, liveOut, v)]
      /\ around = AliveAround(g, pp, vlr) /\ nextReg = g.nregs
  BY <1>1 DEF Analyzed
<1> HIDE DEF liveIn, liveOut, names
<1>3. pc = "around" /\ ~Spilling /\ ~InDefs /\ ~InUses /\ ~Inserting /\ slots = 0 /\ job.slot = 0
  BY DEF Init, Spilling, InDefs, InUses, Inserting, NoJob
<1>4. InstTyped
  BY <1>2, <1>3, FunctionTyped DEF InstTyped
<1>5. DOMAIN pp = DOMAIN inst
  BY <1>2 DEF InitialPoints
<1>6. ASSUME NEW b \in DOMAIN code, NEW k \in DOMAIN code[b]
      PROVE  b \in Nat /\ k \in Nat /\ code[b][k] \in DOMAIN pp /\ pp[code[b][k]] = <<b, k * STEP>>
  BY <1>2, <1>5, PointOf
<1>7. ASSUME NEW i \in DOMAIN pp
      PROVE  \E b \in DOMAIN code : \E k \in DOMAIN code[b] : code[b][k] = i
  <2>1. i \in DOMAIN g.inst
    BY <1>2, <1>5
  <2>2. \E b \in DOMAIN g.code : i \in Range(g.code[b])
    BY <2>1, FunctionsAssumption
  <2> QED
    BY <1>2, <2>2 DEF Range
<1>8. LaidOut
  <2>1. ASSUME NEW b \in DOMAIN code
        PROVE  /\ code[b] \in Seq(DOMAIN pp)
               /\ \A k \in DOMAIN code[b] :
                    /\ pp[code[b][k]][1] = b
                    /\ k > 1 => Before(pp[code[b][k - 1]], pp[code[b][k]])
    <3>1. code[b] \in Seq(DOMAIN pp)
      BY <1>2, <1>5, BlockTyped
    <3>2. ASSUME NEW k \in DOMAIN code[b], k > 1
          PROVE  Before(pp[code[b][k - 1]], pp[code[b][k]])
      <4>1. k - 1 \in DOMAIN code[b] /\ k \in Nat
        BY <3>1, <3>2
      <4>2. pp[code[b][k - 1]] = <<b, (k - 1) * STEP>> /\ pp[code[b][k]] = <<b, k * STEP>> /\ b \in Nat
        BY <1>6, <4>1
      <4>3. (k - 1) * STEP < k * STEP
        BY <4>1 DEF STEP
      <4> QED
        BY <4>2, <4>3 DEF Before
    <3> QED
      BY <1>6, <3>1, <3>2
  <2>2. ASSUME NEW i \in DOMAIN pp
        PROVE  pp[i][1] \in DOMAIN code /\ \E k \in DOMAIN code[pp[i][1]] : code[pp[i][1]][k] = i
    <3>1. PICK b \in DOMAIN code : \E k \in DOMAIN code[b] : code[b][k] = i
      BY <1>7
    <3>2. PICK k \in DOMAIN code[b] : code[b][k] = i
      BY <3>1
    <3>3. pp[i][1] = b
      BY <1>6, <3>2
    <3> QED
      BY <3>2, <3>3
  <2> QED
    BY <1>5, <2>1, <2>2 DEF LaidOut
<1>9. \A v \in names : \E i \in DOMAIN g.inst : v \in AllVRegs(g.inst[i])
  BY DEF names
<1>10. Virtual
  <2>1. DOMAIN vlr = names /\ \A v \in names : IsVReg(v)
    BY <1>2, <1>9 DEF AllVRegs
  <2>2. \A p \in around : p[2] \in names
    BY <1>2, <2>1 DEF AliveAround
  <2> QED
    BY <1>3, <2>1, <2>2 DEF Virtual
<1>11. Covered
  <2> SUFFICES ASSUME NEW i \in DOMAIN pp, NEW v \in AllVRegs(inst[i])
               PROVE  HasCover(i, v)
    BY DEF Covered
  <2>1. PICK b \in DOMAIN code : \E k \in DOMAIN code[b] : code[b][k] = i
    BY <1>7
  <2>2. PICK k \in DOMAIN code[b] : code[b][k] = i
    BY <2>1
  <2>3. pp[i] = <<b, k * STEP>>
    BY <1>6, <2>2
  <2>4. v \in Inputs(inst[i]) \cup Outputs(inst[i])
    BY <1>4, <1>5, NamesFlagged
  <2>5. k \in Touching(g, b, v)
    BY <1>2, <2>2, <2>4 DEF Touching
  <2>6. Within(pp[i], VRegSegment(g, liveIn, liveOut, v, b))
    BY <1>2, <2>3, <2>5, SegmentCovers
  <2>7. v \in names
    BY <1>2, <1>5 DEF names
  <2>8. VRegSegment(g, liveIn, liveOut, v, b) \in vlr[v]
    BY <1>2, <2>5, <2>7 DEF VRegRange
  <2> QED
    BY <1>2, <2>6, <2>7, <2>8 DEF HasCover
<1> QED
  BY <1>3, <1>4, <1>5, <1>8, <1>10, <1>11
     DEF CInv, CBody, Listed, Paired, Placed, InsertingOK, Inserting

-----------------------------------------------------------------------------
(* When a spill starts every instruction has its place, so that the list   *)
(* of definitions is complete.                                             *)
LEMMA StartSpillKeepsCInv ==
  ASSUME IInv, CInv, SpillAroundCall \/ SpillVReg
  PROVE  CInv'
<1>1. /\ pc \in {"around", "alloc"} /\ pc' = "defs" /\ Running /\ ~Spilling /\ Spilling'
      /\ UNCHANGED <<code, inst, pp, vlr, ins, nextReg>>
  BY DEF SpillAroundCall, SpillVReg, StartSpill, Running, Spilling
<1>2. CBody
  BY <1>1 DEF CInv
<1>3. \E v : IsVReg(v) /\ StartSpill(v)
  <2>1. CASE SpillAroundCall
    BY <1>2, <2>1 DEF SpillAroundCall, CBody, Virtual
  <2>2. CASE SpillVReg
    <3>1. PICK v \in Fronts : StartSpill(v) /\ PopFront(v)
      BY <2>2 DEF SpillVReg
    <3>2. v \in DOMAIN vlr
      BY <3>1, PopFrontKeepsWork DEF Waiting
    <3> QED
      BY <1>2, <3>1, <3>2 DEF CBody, Virtual
  <2> QED
    BY <2>1, <2>2
<1>4. PICK v : IsVReg(v) /\ StartSpill(v)
  BY <1>3
<1>5. /\ job'.vreg = v /\ job'.slot = slots + 1 /\ job'.defs = Dedup(Writers(v))
      /\ job'.fresh = <<>> /\ slots' = slots + 1
  BY <1>4 DEF StartSpill
<1>6. DOMAIN inst \subseteq DOMAIN pp
  BY <1>1, <1>2 DEF CBody, Placed
<1>7. job'.defs = Writers(v)
  <2>1. Writers(v) \in SUBSET DOMAIN pp
    BY <1>6 DEF Writers, Users
  <2> QED
    BY <1>2, <1>5, <2>1, DedupKeepsAll DEF CBody
<1>8. InstTyped'
  BY <1>1, <1>2, <1>5 DEF CBody, InstTyped
<1>9. Range(<<>>) = {}
  BY DEF Range
<1>10. Virtual'
  <2>1. around' \subseteq around
    BY DEF SpillAroundCall, SpillVReg
  <2> QED
    BY <1>1, <1>2, <1>4, <1>5, <1>9, <2>1 DEF CBody, Virtual, IsVReg
<1>11. LaidOut' /\ Covered'
  BY <1>1, <1>2 DEF CBody, LaidOut, Covered, HasCover
<1>12. Listed'
  BY <1>1, <1>5, <1>7 DEF Listed, InDefs, InUses, Writers, Users, WritesV
<1>13. Paired'
  BY <1>1, <1>5, <1>6, <1>9 DEF Paired
<1>14. Placed' /\ InsertingOK'
  BY <1>1 DEF Placed, InsertingOK, Inserting
<1> QED
  BY <1>8, <1>10, <1>11, <1>12, <1>13, <1>14 DEF CInv, CBody

(* What appending to a list adds to its elements.                          *)
LEMMA AppendRange ==
  ASSUME NEW S, NEW s \in Seq(S), NEW e \in S
  PROVE  Range(Append(s, e)) = Range(s) \cup {e}
<1> DEFINE n == Len(s)
           t == Append(s, e)
<1>1. /\ n \in Nat /\ DOMAIN s = 1..n /\ DOMAIN t = 1..n+1
      /\ t[n + 1] = e /\ \A k \in 1..n : t[k] = s[k]
  OBVIOUS
<1> HIDE DEF n, t
<1>2. \A k \in 1..n+1 : k \in 1..n \/ k = n + 1
  BY <1>1
<1>3. \A k \in 1..n : k \in 1..n+1
  BY <1>1
<1>4. n + 1 \in 1..n+1
  BY <1>1
<1>5. Range(t) \subseteq Range(s) \cup {e}
  BY <1>1, <1>2 DEF Range
<1>6. Range(s) \cup {e} \subseteq Range(t)
  BY <1>1, <1>3, <1>4 DEF Range
<1> QED
  BY <1>5, <1>6 DEF t

(* The part SpillDef and SpillUse have in common: instruction d names the  *)
(* new vreg instead of the spilled one, and the new instruction x names    *)
(* nothing else.                                                           *)
SpillStep(d, x) ==
  /\ d \in DOMAIN inst /\ x \in Instruction
  /\ Regs(x) = {nextReg} /\ nextReg \in Inputs(x) \cup Outputs(x)
  /\ \A a \in Range(x.args) : a.tag # "raw"
  /\ inst' = Append([inst EXCEPT ![d] = Substitute(@, job.vreg, nextReg)], x)
  /\ nextReg' = nextReg + 1
  /\ job'.slot = job.slot /\ job'.vreg = job.vreg /\ job'.fresh = Append(job.fresh, nextReg)
  /\ UNCHANGED <<code, pp, vlr, around, slots>>

(* What one definition or one use being spilled does to the instructions.  *)
LEMMA SpillStepNames ==
  ASSUME IInv, CBody, Spilling, NEW d, NEW x, SpillStep(d, x)
  PROVE  LET id == Len(inst) + 1
             v == job.vreg
             y == inst'[d] IN
         /\ InstTyped'
         /\ DOMAIN inst' = DOMAIN inst \cup {id} /\ id \notin DOMAIN inst
         /\ inst'[id] = x
         /\ \A i \in DOMAIN inst : i # d => inst'[i] = inst[i]
         /\ v # nextReg /\ v \in Nat /\ nextReg \in Nat /\ IsVReg(nextReg)
         /\ \A r : r \in Regs(y) <=> (r \in Regs(inst[d]) /\ r # v) \/ (r = nextReg /\ v \in Regs(inst[d]))
         /\ \A r : r \in Inputs(y) <=> (r \in Inputs(inst[d]) /\ r # v) \/ (r = nextReg /\ v \in Inputs(inst[d]))
         /\ \A r : r \in Outputs(y) <=> (r \in Outputs(inst[d]) /\ r # v) \/ (r = nextReg /\ v \in Outputs(inst[d]))
         /\ \A i \in DOMAIN inst : nextReg \notin Regs(inst[i])
<1> DEFINE id == Len(inst) + 1
           v == job.vreg
           y == Substitute(inst[d], v, nextReg)
           mid == [inst EXCEPT ![d] = y]
<1>0. /\ d \in DOMAIN inst /\ x \in Instruction /\ Regs(x) = {nextReg}
      /\ \A a \in Range(x.args) : a.tag # "raw"
      /\ inst' = Append(mid, x) /\ nextReg' = nextReg + 1 /\ UNCHANGED slots /\ job'.slot = job.slot
  BY DEF SpillStep
<1>1. /\ inst \in Seq(Instruction) /\ nextReg \in Nat /\ v \in Nat /\ v < nextReg
      /\ NumPhys \in Nat /\ nextReg >= NumPhys /\ IsVReg(v)
      /\ slots \in Nat /\ job.slot \in Nat
  BY RegistersAssumption DEF IInv, RangesTyped, JobFresh, CBody, InstTyped, Virtual
<1>2. \A i \in DOMAIN inst :
        /\ inst[i] \in Instruction
        /\ \A r \in Regs(inst[i]) : r \in Nat /\ r < nextReg
        /\ \A a \in Range(inst[i].args) : a.tag = "raw" => a.reg < NumPhys
  BY NamesFlagged DEF CBody, InstTyped
<1>3. /\ y \in Instruction
      /\ \A r : r \in Regs(y) <=> (r \in Regs(inst[d]) /\ r # v) \/ (r = nextReg /\ v \in Regs(inst[d]))
      /\ \A r : r \in Inputs(y) <=> (r \in Inputs(inst[d]) /\ r # v) \/ (r = nextReg /\ v \in Inputs(inst[d]))
      /\ \A r : r \in Outputs(y) <=> (r \in Outputs(inst[d]) /\ r # v) \/ (r = nextReg /\ v \in Outputs(inst[d]))
      /\ \A a \in Range(y.args) : a.tag = "raw" =>
           \E c \in Range(inst[d].args) : c.tag = "raw" /\ (c.reg = v \/ c.reg = a.reg)
  <2> DEFINE z == inst[d]
  <2>1. z \in Instruction
    BY <1>0, <1>2
  <2>2. v \in Nat /\ nextReg \in Nat
    BY <1>1
  <2> HIDE DEF z, v
  <2>3. /\ Substitute(z, v, nextReg) \in Instruction
        /\ \A r : r \in Regs(Substitute(z, v, nextReg)) <=>
                 (r \in Regs(z) /\ r # v) \/ (r = nextReg /\ v \in Regs(z))
        /\ \A r : r \in Inputs(Substitute(z, v, nextReg)) <=>
                 (r \in Inputs(z) /\ r # v) \/ (r = nextReg /\ v \in Inputs(z))
        /\ \A r : r \in Outputs(Substitute(z, v, nextReg)) <=>
                 (r \in Outputs(z) /\ r # v) \/ (r = nextReg /\ v \in Outputs(z))
        /\ \A a \in Range(Substitute(z, v, nextReg).args) : a.tag = "raw" =>
             \E c \in Range(z.args) : c.tag = "raw" /\ (c.reg = v \/ c.reg = a.reg)
    BY <2>1, <2>2, SubstituteNames
  <2> QED
    BY <2>3 DEF z
<1> HIDE DEF y, v
<1>4. /\ mid \in Seq(Instruction) /\ Len(mid) = Len(inst) /\ DOMAIN mid = DOMAIN inst
      /\ mid[d] = y /\ \A i \in DOMAIN inst : i # d => mid[i] = inst[i]
  BY <1>0, <1>1, <1>3
<1>5. inst' = Append(mid, x) /\ x \in Instruction
  BY <1>0 DEF y, v
<1> HIDE DEF mid
<1>6. /\ inst' \in Seq(Instruction) /\ DOMAIN inst' = 1..id
      /\ DOMAIN inst = 1..id-1 /\ id \in Nat
      /\ inst'[id] = x /\ \A i \in DOMAIN inst : inst'[i] = mid[i]
  BY <1>1, <1>4, <1>5
<1> HIDE DEF id
<1>7. DOMAIN inst' = DOMAIN inst \cup {id} /\ id \notin DOMAIN inst
  <2>1. 1..id = 1..id-1 \cup {id} /\ id \notin 1..id-1
    <3>1. id \in Nat /\ id >= 1
      BY <1>1 DEF id
    <3> QED
      BY <3>1
  <2> QED
    BY <1>6, <2>1, Zenon
<1>8. inst'[d] = y /\ \A i \in DOMAIN inst : i # d => inst'[i] = inst[i]
  BY <1>0, <1>4, <1>6
<1>9. \A a \in Range(y.args) : a.tag = "raw" => a.reg < NumPhys
  BY <1>0, <1>1, <1>2, <1>3 DEF IsVReg
<1>10. ASSUME NEW i \in DOMAIN inst'
       PROVE  /\ \A r \in Regs(inst'[i]) : r < nextReg'
              /\ \A a \in Range(inst'[i].args) : a.tag = "raw" => a.reg < NumPhys
  <2>1. CASE i = id
    BY <1>0, <1>1, <1>6, <2>1
  <2>2. CASE i = d
    <3>1. inst'[i] = y
      BY <1>8, <2>2
    <3>2. ASSUME NEW r \in Regs(y) PROVE r < nextReg'
      <4>1. (r \in Regs(inst[d]) /\ r # v) \/ r = nextReg
        BY <1>3
      <4>2. r \in Nat /\ r <= nextReg
        BY <1>0, <1>1, <1>2, <4>1
      <4> QED BY <1>0, <1>1, <4>2
    <3> QED BY <1>9, <3>1, <3>2
  <2>3. CASE i \in DOMAIN inst /\ i # d
    BY <1>0, <1>1, <1>2, <1>8, <2>3
  <2> QED
    BY <1>7, <2>1, <2>2, <2>3
<1>11. InstTyped'
  <2>1. slots' \in Nat /\ job'.slot \in Nat /\ nextReg' >= NumPhys
    BY <1>0, <1>1
  <2> QED
    BY <1>6, <1>10, <2>1 DEF InstTyped
<1>12. \A i \in DOMAIN inst : nextReg \notin Regs(inst[i])
  BY <1>1, <1>2
<1> QED
  BY <1>0, <1>1, <1>3, <1>6, <1>7, <1>8, <1>11, <1>12 DEF id, v, IsVReg

(* Such a step keeps what was covered and paired, and pairs the new        *)
(* instruction with d.                                                     *)
LEMMA SpillStepKeeps ==
  ASSUME IInv, CBody, Spilling, Spilling', NEW d, NEW x, SpillStep(d, x)
  PROVE  LET id == Len(inst) + 1 IN
         /\ InstTyped' /\ Virtual' /\ LaidOut' /\ Covered'
         /\ \A w \in Range(job.fresh) : \E a, c \in DOMAIN inst' : Pair(w, a, c)'
         /\ \A i \in DOMAIN inst' \ DOMAIN pp' :
              \E w \in Range(job'.fresh) : w \in Inputs(inst'[i]) \cup Outputs(inst'[i])
         /\ \A i \in DOMAIN inst' : nextReg \in Regs(inst'[i]) => i = d \/ i = id
         /\ Range(job'.fresh) = Range(job.fresh) \cup {nextReg}
<1> DEFINE id == Len(inst) + 1
           v == job.vreg
           y == inst'[d]
<1>1. /\ d \in DOMAIN inst /\ x \in Instruction /\ Regs(x) = {nextReg}
      /\ nextReg \in Inputs(x) \cup Outputs(x)
      /\ job'.vreg = v /\ job'.fresh = Append(job.fresh, nextReg)
      /\ UNCHANGED <<code, pp, vlr, around>>
  BY DEF SpillStep
<1>2. /\ InstTyped'
      /\ DOMAIN inst' = DOMAIN inst \cup {id} /\ id \notin DOMAIN inst
      /\ inst'[id] = x
      /\ \A i \in DOMAIN inst : i # d => inst'[i] = inst[i]
      /\ v # nextReg /\ nextReg \in Nat /\ IsVReg(nextReg)
      /\ \A r : r \in Regs(y) <=> (r \in Regs(inst[d]) /\ r # v) \/ (r = nextReg /\ v \in Regs(inst[d]))
      /\ \A r : r \in Inputs(y) <=> (r \in Inputs(inst[d]) /\ r # v) \/ (r = nextReg /\ v \in Inputs(inst[d]))
      /\ \A r : r \in Outputs(y) <=> (r \in Outputs(inst[d]) /\ r # v) \/ (r = nextReg /\ v \in Outputs(inst[d]))
      /\ \A i \in DOMAIN inst : nextReg \notin Regs(inst[i])
  BY SpillStepNames
<1> HIDE DEF id, y
<1>3. Range(job'.fresh) = Range(job.fresh) \cup {nextReg}
  <2>1. job.fresh \in Seq(Nat)
    BY DEF IInv, JobFresh, FreshOK
  <2>2. nextReg \in Nat
    BY <1>2
  <2>3. Range(Append(job.fresh, nextReg)) = Range(job.fresh) \cup {nextReg}
    BY <2>1, <2>2, AppendRange
  <2> QED
    BY <1>1, <2>3
<1>4. \A w \in Range(job.fresh) : w # v /\ w # nextReg
  <2>1. \A k \in DOMAIN job.fresh : job.fresh[k] \in Nat /\ job.fresh[k] < nextReg /\ job.fresh[k] # v
    BY DEF IInv, JobFresh, FreshOK
  <2> QED
    BY <1>2, <2>1 DEF Range
<1>5. DOMAIN pp \subseteq DOMAIN inst
  BY DEF CBody, LaidOut
<1>6. \A i \in DOMAIN inst' : nextReg \in Regs(inst'[i]) => i = d \/ i = id
  BY <1>2
<1>7. LaidOut'
  BY <1>1, <1>2 DEF CBody, LaidOut
<1>8. Virtual'
  BY <1>1, <1>2, <1>3 DEF CBody, Virtual
<1>9. Covered'
  <2> SUFFICES ASSUME NEW i \in DOMAIN pp, NEW r \in AllVRegs(inst'[i])
               PROVE  HasCover(i, r)' \/ r \in {v} \cup Range(job'.fresh)
    BY <1>1 DEF Covered
  <2>1. i \in DOMAIN inst
    BY <1>5
  <2>2. r = nextReg \/ r \in AllVRegs(inst[i])
    <3>1. AllVRegs(inst'[i]) = {q \in Regs(inst'[i]) : IsVReg(q)} /\ AllVRegs(inst[i]) = {q \in Regs(inst[i]) : IsVReg(q)}
      BY DEF AllVRegs, Regs
    <3> QED
      BY <1>2, <2>1, <3>1 DEF y
  <2>3. HasCover(i, r) => HasCover(i, r)'
    BY <1>1 DEF HasCover
  <2> QED
    BY <1>3, <2>2, <2>3 DEF CBody, Covered
<1>10. ASSUME NEW w \in Range(job.fresh), NEW i \in DOMAIN inst
       PROVE  /\ w \in Regs(inst'[i]) <=> w \in Regs(inst[i])
              /\ w \in Inputs(inst'[i]) <=> w \in Inputs(inst[i])
              /\ w \in Outputs(inst'[i]) <=> w \in Outputs(inst[i])
  <2>1. w # v /\ w # nextReg
    BY <1>4
  <2>2. CASE i = d
    BY <1>2, <2>1, <2>2 DEF y
  <2>3. CASE i # d
    BY <1>2, <2>3
  <2> QED
    BY <2>2, <2>3
<1>11. ASSUME NEW w \in Range(job.fresh)
       PROVE  \E a, c \in DOMAIN inst' : Pair(w, a, c)'
  <2>1. PICK a \in DOMAIN inst, c \in DOMAIN inst : Pair(w, a, c)
    BY DEF CBody, Paired
  <2>2. w \notin Regs(inst'[id])
    BY <1>1, <1>2, <1>4
  <2>3. \A i \in DOMAIN inst' : w \in Regs(inst'[i]) => i = a \/ i = c
    BY <1>2, <1>10, <2>1, <2>2 DEF Pair
  <2>4. w \in Outputs(inst'[a]) /\ w \in Inputs(inst'[c]) /\ w \notin Outputs(inst'[c])
    BY <1>10, <2>1 DEF Pair
  <2>5. a \in DOMAIN pp' /\ c \in DOMAIN pp' => Before(pp'[a], pp'[c])
    BY <1>1, <2>1 DEF Pair
  <2>6. Pair(w, a, c)'
    BY <2>3, <2>4, <2>5 DEF Pair
  <2> QED
    BY <1>2, <2>6
<1>12. ASSUME NEW i \in DOMAIN inst' \ DOMAIN pp'
       PROVE  \E w \in Range(job'.fresh) : w \in Inputs(inst'[i]) \cup Outputs(inst'[i])
  <2>1. CASE i = id
    BY <1>1, <1>2, <1>3, <2>1
  <2>2. CASE i \in DOMAIN inst
    <3>1. PICK w \in Range(job.fresh) : w \in Inputs(inst[i]) \cup Outputs(inst[i])
      BY <1>1, <2>2 DEF CBody, Paired
    <3> QED
      BY <1>3, <1>10, <2>2, <3>1
  <2> QED
    BY <1>2, <2>1, <2>2
<1> QED
  BY <1>2, <1>3, <1>6, <1>7, <1>8, <1>9, <1>11, <1>12 DEF id

(* A spilled definition is paired with its store.                          *)
LEMMA SpillDefKeepsCInv ==
  ASSUME IInv, CInv, SpillDef
  PROVE  CInv'
<1>1. /\ pc = "defs" /\ pc' = "after" /\ Spilling /\ Spilling' /\ InDefs /\ InDefs' /\ ~InUses'
      /\ UNCHANGED <<code, pp, vlr, around, slots>> /\ nextReg' = nextReg + 1
  BY DEF SpillDef, Spilling, InDefs, InUses
<1>2. CBody
  BY <1>1 DEF CInv, Running
<1> DEFINE id == Len(inst) + 1
           v == job.vreg
           x == StoreToSlot(nextReg, job.slot)
<1>3. PICK d \in job.defs :
        /\ inst' = Append([inst EXCEPT ![d] = Substitute(@, v, nextReg)], x)
        /\ ins' = Insertion(d, id, <<0, 0>>, <<0, 0>>)
        /\ job' = [job EXCEPT !.defs = @ \ {d}, !.fresh = Append(@, nextReg)]
  BY DEF SpillDef
<1>4. /\ job.defs \subseteq DOMAIN inst
      /\ \A i \in DOMAIN inst : i \in job.defs <=> v \in Outputs(inst[i])
      /\ DOMAIN job = {"vreg", "slot", "defs", "uses", "fresh", "back"}
  BY <1>1, <1>2 DEF CBody, Listed, IInv, JobFresh
<1>5. /\ job'.defs = job.defs \ {d} /\ job'.vreg = v /\ job'.slot = job.slot
      /\ job'.fresh = Append(job.fresh, nextReg)
      /\ ins'.at = d /\ ins'.id = id
  BY <1>3, <1>4 DEF Insertion
<1>6. nextReg \in Nat /\ job.slot \in Nat
  BY <1>2 DEF IInv, RangesTyped, CBody, InstTyped
<1>7. /\ x \in Instruction /\ Regs(x) = {nextReg} /\ Inputs(x) = {nextReg} /\ Outputs(x) = {}
      /\ \A a \in Range(x.args) : a.tag # "raw"
  BY <1>6, SlotInstructions
<1> HIDE DEF x
<1>8. SpillStep(d, x)
  BY <1>1, <1>3, <1>4, <1>5, <1>7 DEF SpillStep
<1>9. /\ InstTyped' /\ Virtual' /\ LaidOut' /\ Covered'
      /\ \A w \in Range(job.fresh) : \E a, c \in DOMAIN inst' : Pair(w, a, c)'
      /\ \A i \in DOMAIN inst' \ DOMAIN pp' :
           \E w \in Range(job'.fresh) : w \in Inputs(inst'[i]) \cup Outputs(inst'[i])
      /\ \A i \in DOMAIN inst' : nextReg \in Regs(inst'[i]) => i = d \/ i = id
      /\ Range(job'.fresh) = Range(job.fresh) \cup {nextReg}
  BY <1>1, <1>2, <1>8, SpillStepKeeps
<1>10. /\ DOMAIN inst' = DOMAIN inst \cup {id} /\ id \notin DOMAIN inst
       /\ inst'[id] = x
       /\ \A i \in DOMAIN inst : i # d => inst'[i] = inst[i]
       /\ v # nextReg
       /\ \A r : r \in Outputs(inst'[d]) <=>
                (r \in Outputs(inst[d]) /\ r # v) \/ (r = nextReg /\ v \in Outputs(inst[d]))
  BY <1>1, <1>2, <1>8, SpillStepNames
<1> HIDE DEF id
<1>11. id \notin DOMAIN pp
  BY <1>2, <1>10 DEF CBody, LaidOut
<1>12. Listed'
  <2>1. \A i \in DOMAIN inst' : i \in job'.defs <=> v \in Outputs(inst'[i])
    BY <1>4, <1>5, <1>7, <1>10
  <2>2. job'.defs \subseteq DOMAIN inst'
    BY <1>4, <1>5, <1>10
  <2> QED
    BY <1>1, <1>5, <2>1, <2>2 DEF Listed
<1>13. Paired'
  <2>1. ASSUME NEW w, NEW j, w = nextReg, j = id
        PROVE  Pair(w, d, j)'
    <3>1. /\ \A i \in DOMAIN inst' : w \in Regs(inst'[i]) => i = d \/ i = j
          /\ w \in Inputs(inst'[j]) /\ w \notin Outputs(inst'[j])
      BY <1>7, <1>9, <1>10, <2>1
    <3>2. w \in Outputs(inst'[d])
      BY <1>4, <1>10, <2>1
    <3>3. j \notin DOMAIN pp'
      BY <1>1, <1>11, <2>1
    <3> QED
      BY <3>1, <3>2, <3>3 DEF Pair
  <2>2. d \in DOMAIN inst' /\ id \in DOMAIN inst'
    BY <1>4, <1>10
  <2>3. \A w \in Range(job'.fresh) : \E a, c \in DOMAIN inst' : Pair(w, a, c)'
    BY <1>9, <2>1, <2>2
  <2> QED
    BY <1>9, <2>3 DEF Paired
<1>14. Placed'
  BY <1>1 DEF Placed
<1>15. InsertingOK'
  BY <1>1, <1>4, <1>5, <1>7, <1>9, <1>10, <1>11 DEF InsertingOK
<1> QED
  BY <1>9, <1>12, <1>13, <1>14, <1>15 DEF CInv, CBody

(* A spilled use is paired with its load.                                  *)
LEMMA SpillUseKeepsCInv ==
  ASSUME IInv, CInv, SpillUse
  PROVE  CInv'
<1>1. /\ pc = "uses" /\ pc' = "before" /\ Spilling /\ Spilling' /\ InUses /\ InUses' /\ ~InDefs'
      /\ UNCHANGED <<code, pp, vlr, around, slots>> /\ nextReg' = nextReg + 1
  BY DEF SpillUse, Spilling, InDefs, InUses
<1>2. CBody
  BY <1>1 DEF CInv, Running
<1> DEFINE id == Len(inst) + 1
           v == job.vreg
           x == LoadFromSlot(nextReg, job.slot)
<1>3. PICK u \in job.uses :
        /\ inst' = Append([inst EXCEPT ![u] = Substitute(@, v, nextReg)], x)
        /\ ins' = Insertion(u, id, <<0, 0>>, <<0, 0>>)
        /\ job' = [job EXCEPT !.uses = @ \ {u}, !.fresh = Append(@, nextReg)]
  BY DEF SpillUse
<1>4. /\ job.uses \subseteq DOMAIN inst
      /\ \A i \in DOMAIN inst : v \notin Outputs(inst[i]) /\ (i \in job.uses <=> v \in Inputs(inst[i]))
      /\ DOMAIN job = {"vreg", "slot", "defs", "uses", "fresh", "back"}
  BY <1>1, <1>2 DEF CBody, Listed, IInv, JobFresh
<1>5. /\ job'.uses = job.uses \ {u} /\ job'.vreg = v /\ job'.slot = job.slot
      /\ job'.fresh = Append(job.fresh, nextReg)
      /\ ins'.at = u /\ ins'.id = id
  BY <1>3, <1>4 DEF Insertion
<1>6. nextReg \in Nat /\ job.slot \in Nat
  BY <1>2 DEF IInv, RangesTyped, CBody, InstTyped
<1>7. /\ x \in Instruction /\ Regs(x) = {nextReg} /\ Outputs(x) = {nextReg} /\ Inputs(x) = {}
      /\ \A a \in Range(x.args) : a.tag # "raw"
  BY <1>6, SlotInstructions
<1> HIDE DEF x
<1>8. SpillStep(u, x)
  BY <1>1, <1>3, <1>4, <1>5, <1>7 DEF SpillStep
<1>9. /\ InstTyped' /\ Virtual' /\ LaidOut' /\ Covered'
      /\ \A w \in Range(job.fresh) : \E a, c \in DOMAIN inst' : Pair(w, a, c)'
      /\ \A i \in DOMAIN inst' \ DOMAIN pp' :
           \E w \in Range(job'.fresh) : w \in Inputs(inst'[i]) \cup Outputs(inst'[i])
      /\ \A i \in DOMAIN inst' : nextReg \in Regs(inst'[i]) => i = u \/ i = id
      /\ Range(job'.fresh) = Range(job.fresh) \cup {nextReg}
  BY <1>1, <1>2, <1>8, SpillStepKeeps
<1>10. /\ DOMAIN inst' = DOMAIN inst \cup {id} /\ id \notin DOMAIN inst
       /\ inst'[id] = x
       /\ \A i \in DOMAIN inst : i # u => inst'[i] = inst[i]
       /\ v # nextReg
       /\ \A r : r \in Inputs(inst'[u]) <=>
                (r \in Inputs(inst[u]) /\ r # v) \/ (r = nextReg /\ v \in Inputs(inst[u]))
       /\ \A r : r \in Outputs(inst'[u]) <=>
                (r \in Outputs(inst[u]) /\ r # v) \/ (r = nextReg /\ v \in Outputs(inst[u]))
       /\ \A i \in DOMAIN inst : nextReg \notin Regs(inst[i])
  BY <1>1, <1>2, <1>8, SpillStepNames
<1> HIDE DEF id
<1>11. id \notin DOMAIN pp
  BY <1>2, <1>10 DEF CBody, LaidOut
<1>12. Listed'
  <2>1. \A i \in DOMAIN inst' : i \in job'.uses <=> v \in Inputs(inst'[i])
    BY <1>4, <1>5, <1>7, <1>10
  <2>2. job'.uses \subseteq DOMAIN inst'
    BY <1>4, <1>5, <1>10
  <2>3. \A i \in DOMAIN inst' : v \notin Outputs(inst'[i])
    BY <1>4, <1>7, <1>10
  <2> QED
    BY <1>1, <1>5, <2>1, <2>2, <2>3 DEF Listed
<1>13. Paired'
  <2>1. ASSUME NEW w, NEW j, w = nextReg, j = id
        PROVE  Pair(w, j, u)'
    <3>1. /\ \A i \in DOMAIN inst' : w \in Regs(inst'[i]) => i = j \/ i = u
          /\ w \in Outputs(inst'[j])
      BY <1>7, <1>9, <1>10, <2>1
    <3>2. w \in Inputs(inst'[u])
      BY <1>4, <1>10, <2>1
    <3>3. w \notin Outputs(inst'[u])
      <4>1. nextReg \notin Outputs(inst[u])
        BY <1>2, <1>4, <1>10, NamesFlagged DEF CBody
      <4> QED
        BY <1>4, <1>10, <2>1, <4>1
    <3>4. j \notin DOMAIN pp'
      BY <1>1, <1>11, <2>1
    <3> QED
      BY <3>1, <3>2, <3>3, <3>4 DEF Pair
  <2>2. u \in DOMAIN inst' /\ id \in DOMAIN inst'
    BY <1>4, <1>10
  <2>3. \A w \in Range(job'.fresh) : \E a, c \in DOMAIN inst' : Pair(w, a, c)'
    BY <1>9, <2>1, <2>2
  <2> QED
    BY <1>9, <2>3 DEF Paired
<1>14. Placed'
  BY <1>1 DEF Placed
<1>15. InsertingOK'
  BY <1>1, <1>4, <1>5, <1>7, <1>9, <1>10, <1>11 DEF InsertingOK
<1> QED
  BY <1>9, <1>12, <1>13, <1>14, <1>15 DEF CInv, CBody

(* When the definitions are done no instruction writes the spilled vreg.   *)
LEMMA CollectUsesKeepsCInv ==
  ASSUME IInv, CInv, CollectUses
  PROVE  CInv'
<1>1. /\ pc = "defs" /\ pc' = "uses" /\ Spilling /\ Spilling' /\ InDefs /\ job.defs = {}
      /\ job' = [job EXCEPT !.uses = {i \in Users(job.vreg) : ReadsV(i, job.vreg)}]
      /\ UNCHANGED <<code, inst, pp, vlr, around, ins, nextReg, slots>>
  BY DEF CollectUses, Spilling, InDefs
<1>2. CBody
  BY <1>1 DEF CInv, Running
<1>3. /\ job'.vreg = job.vreg /\ job'.slot = job.slot /\ job'.fresh = job.fresh
      /\ job'.uses = {i \in DOMAIN inst : job.vreg \in Inputs(inst[i])}
  BY <1>1 DEF IInv, JobFresh, Users, ReadsV
<1>4. InstTyped' /\ Virtual' /\ LaidOut' /\ Covered'
  BY <1>1, <1>2, <1>3 DEF CBody, InstTyped, Virtual, LaidOut, Covered, HasCover
<1>5. Listed'
  BY <1>1, <1>2, <1>3 DEF CBody, Listed, InDefs, InUses
<1>6. Paired'
  BY <1>1, <1>2, <1>3 DEF CBody, Paired, Pair
<1>7. Placed' /\ InsertingOK'
  BY <1>1 DEF Placed, InsertingOK, Inserting
<1> QED
  BY <1>4, <1>5, <1>6, <1>7 DEF CInv, CBody

-----------------------------------------------------------------------------
(* An insertion step leaves the instructions and the lists alone: what is  *)
(* left to show of it.                                                     *)
LEMMA InsertionFrame ==
  ASSUME IInv, CBody, Spilling, Running' => Spilling',
         UNCHANGED <<inst, around, job, nextReg, slots>>, DOMAIN vlr' = DOMAIN vlr,
         Running' => /\ (InDefs' <=> InDefs) /\ (InUses' <=> InUses)
                     /\ LaidOut' /\ Covered' /\ Paired' /\ InsertingOK'
  PROVE  CInv'
<1> SUFFICES ASSUME Running' PROVE CBody'
  BY DEF CInv
<1>1. pc' \notin {"around", "alloc"}
  BY DEF Spilling
<1>2. InstTyped' /\ Virtual'
  BY DEF CBody, InstTyped, Virtual
<1>3. Listed'
  BY DEF CBody, Listed
<1> QED
  BY <1>1, <1>2, <1>3 DEF CBody, Placed

(* The points of the neighbours are read.                                  *)
LEMMA LocateKeepsCInv ==
  ASSUME IInv, CInv, LocateAfter \/ LocateBefore
  PROVE  CInv'
<1>1. /\ pc \in {"after", "before"} /\ Spilling /\ Spilling' /\ Running
      /\ (InDefs' <=> InDefs) /\ (InUses' <=> InUses)
      /\ UNCHANGED <<code, inst, pp, vlr, around, job, nextReg, slots>> /\ Inserting
  BY DEF LocateAfter, LocateBefore, Spilling, Running, InDefs, InUses, Inserting
<1>2. CBody
  BY <1>1 DEF CInv
<1>3. LaidOut' /\ Covered' /\ Paired'
  BY <1>1, <1>2 DEF CBody, LaidOut, Covered, HasCover, Paired, Pair
<1>4. \A i : NextOf(i)' = NextOf(i) /\ PrevOf(i)' = PrevOf(i)
  BY <1>1 DEF NextOf, PrevOf, IndexIn
<1>5. InsertingOK'
  <2>1. CASE pc' = "defs"
    BY <2>1 DEF InsertingOK, Inserting
  <2>2. CASE pc' = "insert_after"
    <3>1. /\ ins.at \in DOMAIN pp /\ NextOf(ins.at) \in DOMAIN pp
          /\ ins' = Insertion(ins.at, ins.id, pp[ins.at], pp[NextOf(ins.at)])
      BY <2>2 DEF LocateAfter, LocateBefore
    <3>2. /\ ins'.at = ins.at /\ ins'.id = ins.id
          /\ ins'.lo = pp[ins.at] /\ ins'.hi = pp[NextOf(ins.at)]
      BY <3>1 DEF Insertion
    <3> QED
      BY <1>1, <1>2, <1>4, <2>2, <3>1, <3>2 DEF CBody, InsertingOK, Inserting
  <2>3. CASE pc' = "insert_before"
    <3>1. /\ ins.at \in DOMAIN pp /\ PrevOf(ins.at) \in DOMAIN pp
          /\ ins' = Insertion(ins.at, ins.id, pp[PrevOf(ins.at)], pp[ins.at])
      BY <2>3 DEF LocateAfter, LocateBefore
    <3>2. /\ ins'.at = ins.at /\ ins'.id = ins.id
          /\ ins'.lo = pp[PrevOf(ins.at)] /\ ins'.hi = pp[ins.at]
      BY <3>1 DEF Insertion
    <3>3. ~Before(pp[ins.at], pp[ins.at])
      BY <3>1, BeforeOrder DEF IInv, PointsTyped
    <3> QED
      BY <1>1, <1>2, <1>4, <2>3, <3>1, <3>2, <3>3 DEF CBody, InsertingOK, Inserting
  <2> QED
    BY <2>1, <2>2, <2>3 DEF LocateAfter, LocateBefore
<1> QED
  BY <1>1, <1>2, <1>3, <1>5, InsertionFrame

(* A recomputation keeps everything but the points read before it.         *)
LEMMA RecomputeKeepsCInv ==
  ASSUME IInv, CBody, Spilling, Running' => Spilling', NEW from \in Point, NEW m \in BOOLEAN,
         RecomputePoints(from, m), UNCHANGED <<code, inst, around, job, nextReg, slots>>,
         Running' => /\ (InDefs' <=> InDefs) /\ (InUses' <=> InUses) /\ InsertingOK'
  PROVE  CInv'
<1>1. /\ LaidOut'
      /\ DOMAIN pp' = DOMAIN pp /\ DOMAIN vlr' = DOMAIN vlr
      /\ \A i \in DOMAIN pp : \A v : HasCover(i, v) => HasCover(i, v)'
      /\ \A w, a, c : Pair(w, a, c) => Pair(w, a, c)'
  BY RecomputeKeepsOrder DEF CBody
<1>2. ASSUME Running' PROVE Covered'
  BY <1>1, <1>2 DEF CBody, Covered
<1>3. ASSUME Running' PROVE Paired'
  <2>1. \A w \in Range(job'.fresh) : \E a, c \in DOMAIN inst' : Pair(w, a, c)'
    BY <1>1 DEF CBody, Paired
  <2>2. \A i \in DOMAIN inst' \ DOMAIN pp' :
          \E w \in Range(job'.fresh) : w \in Inputs(inst'[i]) \cup Outputs(inst'[i])
    BY <1>1 DEF CBody, Paired
  <2> QED
    BY <2>1, <2>2 DEF Paired
<1> QED
  BY <1>1, <1>2, <1>3, InsertionFrame

(* Before the first instruction of a block room is made, and the old point *)
(* of the instruction stays in use.                                        *)
LEMMA LocateAtStartKeepsCInv ==
  ASSUME IInv, CInv, LocateAtStart
  PROVE  CInv'
<1>1. /\ pc = "before" /\ Spilling /\ Running /\ Inserting /\ InUses
      /\ ins.at \in DOMAIN pp /\ PrevOf(ins.at) = 0
      /\ RecomputePoints(pp[ins.at], TRUE)
      /\ ins' = Insertion(ins.at, ins.id, <<pp[ins.at][1], 0>>, pp[ins.at])
      /\ pc' \in {"insert_before", "panic"}
      /\ UNCHANGED <<code, inst, around, job, nextReg, slots>>
  BY DEF LocateAtStart, UnlessOverflow, Spilling, Running, Inserting, InUses
<1>2. CBody
  BY <1>1 DEF CInv
<1>3. pp[ins.at] \in Point
  BY <1>1 DEF IInv, PointsTyped
<1>4. /\ DOMAIN pp' = DOMAIN pp
      /\ \A i \in DOMAIN pp : /\ pp'[i] = Rescale(pp[ins.at], TRUE, pp[i]) /\ pp'[i][1] = pp[i][1]
                              /\ PrevOf(i)' = PrevOf(i)
  BY <1>1, <1>2, <1>3, RecomputeKeepsOrder DEF CBody
<1>5. ~Before(pp'[ins.at], pp[ins.at])
  <2>1. pp'[ins.at] = Rescale(pp[ins.at], TRUE, pp[ins.at])
    BY <1>1, <1>4
  <2>2. pp[ins.at][1] \in Nat /\ pp[ins.at][2] \in Nat
    BY <1>3 DEF Point
  <2> QED
    BY <2>1, <2>2 DEF Rescale, Before, STEP
<1>6. /\ ins'.at = ins.at /\ ins'.id = ins.id /\ ins'.hi = pp[ins.at]
  BY <1>1 DEF Insertion
<1>7. ASSUME Running'
      PROVE  /\ Spilling' /\ (InDefs' <=> InDefs) /\ (InUses' <=> InUses) /\ InsertingOK'
  <2>1. pc' = "insert_before"
    BY <1>1, <1>7 DEF Running
  <2>2. Spilling' /\ (InDefs' <=> InDefs) /\ (InUses' <=> InUses)
    BY <1>1, <2>1 DEF Spilling, InDefs, InUses
  <2>3. PrevOf(ins.at)' = 0
    <3>1. code' = code /\ ins'.at = ins.at /\ pp'[ins.at][1] = pp[ins.at][1]
      BY <1>1, <1>4, <1>6
    <3>2. IndexIn(ins.at)' = IndexIn(ins.at)
      BY <3>1 DEF IndexIn
    <3>3. PrevOf(ins.at)' = PrevOf(ins.at)
      BY <3>1, <3>2 DEF PrevOf
    <3> QED
      BY <1>1, <3>3
  <2> QED
    BY <1>1, <1>2, <1>4, <1>5, <1>6, <2>1, <2>2, <2>3 DEF CBody, InsertingOK, Inserting
<1> QED
  BY <1>1, <1>2, <1>3, <1>7, RecomputeKeepsCInv

(* No room: the points from the anchor on are recomputed.                  *)
LEMMA MakeRoomKeepsCInv ==
  ASSUME IInv, CInv, InsertAfter \/ InsertBefore, ~HasBetween(ins.lo, ins.hi)
  PROVE  CInv'
<1>1. /\ Spilling /\ Running /\ Inserting
      /\ UNCHANGED <<code, inst, around, job, ins, nextReg, slots>>
      /\ \E from \in {ins.lo, ins.hi} : RecomputePoints(from, FALSE)
      /\ \/ InDefs /\ ~InUses /\ pc' \in {"after", "panic"}
         \/ InUses /\ ~InDefs /\ pc' \in {"before", "panic"}
  BY DEF InsertAfter, InsertBefore, MakeRoom, UnlessOverflow, Spilling, Running, Inserting,
         InDefs, InUses
<1>2. CBody
  BY <1>1 DEF CInv
<1>3. PICK from \in Point : RecomputePoints(from, FALSE)
  BY <1>1 DEF IInv, PointsTyped
<1>4. DOMAIN pp' = DOMAIN pp
  BY <1>3 DEF RecomputePoints
<1>5. ASSUME Running'
      PROVE  /\ Spilling' /\ (InDefs' <=> InDefs) /\ (InUses' <=> InUses) /\ InsertingOK'
  <2>1. pc' \in {"after", "before"}
    BY <1>1, <1>5 DEF Running
  <2>2. Spilling' /\ (InDefs' <=> InDefs) /\ (InUses' <=> InUses) /\ Inserting'
    BY <1>1, <2>1 DEF Spilling, InDefs, InUses, Inserting
  <2> QED
    BY <1>1, <1>2, <1>4, <2>1, <2>2 DEF CBody, InsertingOK
<1> QED
  BY <1>1, <1>2, <1>3, <1>5, RecomputeKeepsCInv

(* The new instruction is placed beside the one it belongs to.             *)
LEMMA PlaceKeepsCInv ==
  ASSUME IInv, CInv, InsertAfter \/ InsertBefore, HasBetween(ins.lo, ins.hi)
  PROVE  CInv'
<1>1. /\ Spilling /\ Spilling' /\ Running /\ Inserting /\ ~Inserting'
      /\ pc' \in {"defs", "uses"}
      /\ (InDefs' <=> InDefs) /\ (InUses' <=> InUses)
      /\ UNCHANGED <<inst, vlr, around, job, nextReg, slots>>
      /\ \/ pc = "insert_after" /\ InDefs /\ Place(IndexIn(ins.at) + 1)
         \/ pc = "insert_before" /\ InUses /\ Place(IndexIn(ins.at))
  BY DEF InsertAfter, InsertBefore, Place, Spilling, Running, Inserting, InDefs, InUses
<1>2. CBody
  BY <1>1 DEF CInv
<1>3. /\ ins.at \in DOMAIN pp /\ ins.id \in DOMAIN inst \ DOMAIN pp
      /\ ins.at # ins.id /\ Regs(inst[ins.id]) \subseteq Range(job.fresh)
      /\ \A w \in Regs(inst[ins.id]) : \A i \in DOMAIN inst :
           w \in Regs(inst[i]) => i = ins.at \/ i = ins.id
  BY <1>1, <1>2 DEF CBody, InsertingOK
<1>4. /\ ins.lo \in Point /\ ins.hi \in Point /\ \A i \in DOMAIN pp : pp[i] \in Point
  BY DEF IInv, PointsTyped
<1> DEFINE b == pp[ins.at][1]
           k == IndexIn(ins.at)
<1>5. /\ 0 \notin DOMAIN pp
      /\ b \in DOMAIN code /\ code[b] \in Seq(DOMAIN pp) /\ k \in 1..Len(code[b]) /\ code[b][k] = ins.at
      /\ PrevOf(ins.at) = 0 => k = 1
      /\ PrevOf(ins.at) # 0 => k > 1 /\ PrevOf(ins.at) = code[b][k - 1]
      /\ NextOf(ins.at) # 0 => k < Len(code[b]) /\ NextOf(ins.at) = code[b][k + 1]
  BY <1>2, <1>3, Neighbours DEF CBody
<1> HIDE DEF k
<1>6. /\ LaidOut'
      /\ DOMAIN pp' = DOMAIN pp \cup {ins.id}
      /\ \A i \in DOMAIN pp : pp'[i] = pp[i]
      /\ pp'[ins.id] = Between(ins.lo, ins.hi)
  <2>1. CASE pc = "insert_after"
    <3>1. /\ Place(k + 1) /\ ins.lo = pp[ins.at]
          /\ NextOf(ins.at) \in DOMAIN pp /\ ins.hi = pp[NextOf(ins.at)]
      BY <1>1, <1>2, <2>1 DEF CBody, InsertingOK, k
    <3>2. k \in Nat /\ k < Len(code[b]) /\ NextOf(ins.at) = code[b][k + 1] /\ Len(code[b]) \in Nat
      BY <1>5, <3>1
    <3>3. k + 1 - 1 = k /\ k + 1 \in 1..Len(code[b])+1
      BY <3>2
    <3>4. ~Before(pp[code[b][k + 1]], ins.hi) /\ ins.lo = pp[code[b][k]]
      BY <1>4, <1>5, <3>1, <3>2, BeforeOrder
    <3> DEFINE j == k + 1
    <3>5. Place(j)
      BY <3>1
    <3>6. j - 1 = k /\ j \in 1..Len(code[b])+1 /\ ~Before(pp[code[b][j]], ins.hi)
      BY <3>2, <3>3, <3>4, SMTT(20)
    <3> HIDE DEF j
    <3> QED
      BY <1>1, <1>2, <1>3, <3>1, <3>4, <3>5, <3>6, PlaceKeepsLayout DEF CBody
  <2>2. CASE pc = "insert_before"
    <3>1. /\ Place(k)
          /\ ins.hi[1] = b /\ ~Before(pp[ins.at], ins.hi)
          /\ PrevOf(ins.at) # 0 => ins.lo = pp[PrevOf(ins.at)]
      BY <1>1, <1>2, <2>2 DEF CBody, InsertingOK, k
    <3>2. ins.lo[1] = b
      BY <3>1 DEF HasBetween
    <3>3. k \in 1..Len(code[b])+1 /\ (k > 1 => ins.lo = pp[code[b][k - 1]])
          /\ ~Before(pp[code[b][k]], ins.hi)
      BY <1>5, <3>1
    <3> QED
      BY <1>1, <1>2, <1>3, <3>1, <3>2, <3>3, PlaceKeepsLayout DEF CBody
  <2> QED
    BY <1>1, <2>1, <2>2
<1>7. IF InDefs THEN Before(pp'[ins.at], pp'[ins.id]) ELSE Before(pp'[ins.id], pp'[ins.at])
  <2>1. /\ Between(ins.lo, ins.hi) \in Point
        /\ Before(ins.lo, Between(ins.lo, ins.hi)) /\ Before(Between(ins.lo, ins.hi), ins.hi)
    BY <1>4, BetweenIsBetween
  <2>2. pp'[ins.at] = pp[ins.at] /\ pp[ins.at] \in Point /\ pp'[ins.id] = Between(ins.lo, ins.hi)
    BY <1>3, <1>4, <1>6
  <2>3. CASE pc = "insert_after"
    BY <1>2, <2>1, <2>2, <2>3 DEF CBody, InsertingOK, InDefs
  <2>4. CASE pc = "insert_before"
    <3>1. ~Before(pp[ins.at], ins.hi) /\ ~InDefs
      BY <1>2, <2>4 DEF CBody, InsertingOK, InDefs
    <3> QED
      BY <1>4, <2>1, <2>2, <3>1, BeforeOrder
  <2> QED
    BY <1>1, <2>3, <2>4
<1>8. Covered'
  <2> SUFFICES ASSUME NEW i \in DOMAIN pp', NEW v \in AllVRegs(inst[i])
               PROVE  HasCover(i, v)' \/ v \in {job.vreg} \cup Range(job.fresh)
    BY <1>1 DEF Covered
  <2>1. CASE i = ins.id
    BY <1>2, <1>3, <2>1, NamesFlagged DEF CBody
  <2>2. CASE i \in DOMAIN pp
    <3>1. HasCover(i, v) => HasCover(i, v)'
      BY <1>1, <1>6, <2>2 DEF HasCover
    <3> QED
      BY <1>2, <2>2, <3>1 DEF CBody, Covered
  <2> QED
    BY <1>6, <2>1, <2>2
<1>9. Paired'
  <2>1. ASSUME NEW w \in Range(job.fresh), NEW a \in DOMAIN inst, NEW c \in DOMAIN inst, Pair(w, a, c)
        PROVE  Pair(w, a, c)'
    <3>1. /\ \A i \in DOMAIN inst : w \in Regs(inst[i]) => i = a \/ i = c
          /\ w \in Outputs(inst[a]) /\ w \in Inputs(inst[c]) /\ w \notin Outputs(inst[c])
          /\ a \in DOMAIN pp /\ c \in DOMAIN pp => Before(pp[a], pp[c])
      BY <2>1 DEF Pair
    <3>2. w \in Regs(inst[a]) /\ w \in Regs(inst[c]) /\ a # c
      BY <1>2, <3>1, NamesFlagged DEF CBody
    <3>3. ASSUME a \in DOMAIN pp', c \in DOMAIN pp' PROVE Before(pp'[a], pp'[c])
      <4>1. CASE a = ins.id
        <5>1. c = ins.at
          BY <1>3, <3>2, <4>1
        <5>2. ~InDefs
          BY <1>1, <1>2, <3>1, <4>1 DEF CBody, InsertingOK
        <5> QED
          BY <1>7, <4>1, <5>1, <5>2
      <4>2. CASE c = ins.id
        <5>1. a = ins.at
          BY <1>3, <3>2, <4>2
        <5>2. ~InUses
          BY <1>1, <1>2, <3>1, <4>2 DEF CBody, InsertingOK
        <5> QED
          BY <1>1, <1>7, <4>2, <5>1, <5>2
      <4>3. CASE a # ins.id /\ c # ins.id
        BY <1>6, <3>1, <3>3, <4>3
      <4> QED
        BY <4>1, <4>2, <4>3
    <3> QED
      BY <1>1, <3>1, <3>3 DEF Pair
  <2>2. \A w \in Range(job'.fresh) : \E a, c \in DOMAIN inst' : Pair(w, a, c)'
    BY <1>1, <1>2, <2>1 DEF CBody, Paired
  <2>3. \A i \in DOMAIN inst' \ DOMAIN pp' :
          \E w \in Range(job'.fresh) : w \in Inputs(inst'[i]) \cup Outputs(inst'[i])
    BY <1>1, <1>2, <1>6 DEF CBody, Paired
  <2> QED
    BY <2>2, <2>3 DEF Paired
<1>10. InsertingOK'
  BY <1>1 DEF InsertingOK
<1> QED
  BY <1>1, <1>2, <1>6, <1>8, <1>9, <1>10, InsertionFrame

-----------------------------------------------------------------------------
(* The range computed for a new vreg covers the two instructions that name *)
(* it.                                                                     *)
LEMMA FreshRangeCovers ==
  ASSUME IInv, InstTyped, NEW w, HasRange(w), NEW a \in DOMAIN inst, NEW c \in DOMAIN inst,
         Pair(w, a, c), NEW i \in DOMAIN inst, w \in Regs(inst[i])
  PROVE  \E s \in FreshRange(w) : Within(pp[i], s)
<1>1. /\ \A j \in DOMAIN inst : w \in Regs(inst[j]) => j = a \/ j = c
      /\ w \in Outputs(inst[a]) /\ w \in Inputs(inst[c]) /\ w \notin Outputs(inst[c])
      /\ a \in DOMAIN pp /\ c \in DOMAIN pp => Before(pp[a], pp[c])
  BY DEF Pair
<1>2. \A j \in DOMAIN inst : Inputs(inst[j]) \subseteq Regs(inst[j]) /\ Outputs(inst[j]) \subseteq Regs(inst[j])
  BY NamesFlagged
<1>3. Writers(w) = {a} /\ PureReads(w) = {c}
  BY <1>1, <1>2 DEF Writers, PureReads, Users, WritesV, ReadsV
<1>4. a \in DOMAIN pp /\ c \in DOMAIN pp
  BY <1>1 DEF HasRange, Users
<1>5. pp[a] \in Point /\ pp[c] \in Point /\ Before(pp[a], pp[c])
  BY <1>1, <1>4 DEF IInv, PointsTyped
<1>6. ~Before(pp[a], pp[a]) /\ ~Before(pp[c], pp[c]) /\ ~Before(pp[c], pp[a])
  BY <1>5, BeforeOrder
<1>7. a \in FirstOf(Writers(w)) /\ c \in LastOf(PureReads(w))
  BY <1>3, <1>6 DEF FirstOf, LastOf
<1> DEFINE s == [start |-> pp[a], end |-> pp[c]]
<1>8. s \in FreshRange(w)
  BY <1>7 DEF FreshRange
<1>9. Within(pp[a], s) /\ Within(pp[c], s)
  BY <1>6 DEF Within
<1> QED
  BY <1>1, <1>8, <1>9

(* At the end of a spill no instruction names the spilled vreg, and the    *)
(* new ones have their ranges.                                             *)
LEMMA FinishSpillKeepsCInv ==
  ASSUME IInv, CInv, FinishSpill
  PROVE  CInv'
<1> DEFINE new == Range(job.fresh)
<1>1. /\ pc = "uses" /\ pc' = job.back /\ job.uses = {} /\ job' = NoJob /\ Spilling /\ Running /\ InUses
      /\ \A v \in new : HasRange(v)
      /\ vlr' = [v \in (DOMAIN vlr \cup new) \ {job.vreg} |->
                   IF v \in new THEN FreshRange(v) ELSE vlr[v]]
      /\ UNCHANGED <<code, inst, pp, around, nextReg, slots>>
  BY DEF FinishSpill, Spilling, Running, InUses
<1>2. CBody
  BY <1>1 DEF CInv
<1>3. /\ pc' \in {"around", "alloc"} /\ ~Spilling' /\ ~InDefs' /\ ~InUses' /\ ~Inserting'
      /\ pc' # "insert_after" /\ pc' # "insert_before"
  BY <1>1 DEF IInv, JobFresh, Spilling, InDefs, InUses, Inserting
<1>4. \A v \in new : v \notin DOMAIN vlr /\ v # job.vreg
  BY <1>1 DEF IInv, JobFresh, FreshOK, Range
<1>5. \A v \in new : IsVReg(v)
  BY <1>1, <1>2 DEF CBody, Virtual
<1>6. \A i \in DOMAIN inst : job.vreg \notin AllVRegs(inst[i])
  BY <1>1, <1>2, NamesFlagged DEF CBody, Listed
<1>7. DOMAIN pp \subseteq DOMAIN inst
  BY <1>2 DEF CBody, LaidOut
<1>8. InstTyped'
  BY <1>1, <1>2 DEF CBody, InstTyped, NoJob
<1> HIDE DEF new
<1>9. Virtual'
  BY <1>1, <1>2, <1>3, <1>5 DEF CBody, Virtual
<1>10. LaidOut'
  BY <1>1, <1>2 DEF CBody, LaidOut
<1>11. Covered'
  <2> SUFFICES ASSUME NEW i \in DOMAIN pp, NEW v \in AllVRegs(inst[i])
               PROVE  v \in DOMAIN vlr' /\ \E s \in vlr'[v] : Within(pp[i], s)
    BY <1>1 DEF Covered, HasCover
  <2>1. i \in DOMAIN inst /\ v # job.vreg /\ v \in Regs(inst[i])
    BY <1>2, <1>6, <1>7, NamesFlagged DEF CBody
  <2>2. HasCover(i, v) \/ v \in new
    BY <1>2, <2>1 DEF CBody, Covered, new
  <2>3. CASE v \in new
    <3>1. PICK a \in DOMAIN inst, c \in DOMAIN inst : Pair(v, a, c)
      BY <1>1, <1>2, <2>3 DEF CBody, Paired, new
    <3>2. \E s \in FreshRange(v) : Within(pp[i], s)
      BY <1>1, <1>2, <2>1, <2>3, <3>1, FreshRangeCovers DEF CBody
    <3>3. v \in DOMAIN vlr' /\ vlr'[v] = FreshRange(v)
      BY <1>1, <2>1, <2>3
    <3> QED
      BY <3>2, <3>3
  <2>4. CASE HasCover(i, v)
    <3>1. v \in DOMAIN vlr /\ v \notin new /\ \E s \in vlr[v] : Within(pp[i], s)
      BY <1>4, <2>4 DEF HasCover
    <3>2. v \in DOMAIN vlr' /\ vlr'[v] = vlr[v]
      BY <1>1, <2>1, <3>1
    <3> QED
      BY <3>1, <3>2
  <2> QED
    BY <2>2, <2>3, <2>4
<1>12. Listed' /\ Paired' /\ InsertingOK'
  BY <1>3 DEF Listed, Paired, InsertingOK
<1>13. Placed'
  <2>1. ASSUME NEW i \in DOMAIN inst, i \notin DOMAIN pp PROVE FALSE
    <3>1. PICK w \in new : w \in Inputs(inst[i]) \cup Outputs(inst[i])
      BY <1>1, <1>2, <2>1 DEF CBody, Paired, new
    <3>2. i \in Users(w)
      BY <3>1 DEF Users
    <3> QED
      BY <1>1, <2>1, <3>1, <3>2 DEF HasRange
  <2> QED
    BY <1>1, <2>1 DEF Placed
<1> QED
  BY <1>8, <1>9, <1>10, <1>11, <1>12, <1>13 DEF CInv, CBody

(* Every step of the pass keeps the invariant.                             *)
LEMMA NextKeepsCInv ==
  ASSUME IInv, CInv, [Next]_vars
  PROVE  CInv'
<1>1. CASE UNCHANGED vars \/ Halted
  <2>1. UNCHANGED vars
    BY <1>1 DEF Halted
  <2>2. UNCHANGED <<pc, code, inst, pp, vlr, around, job, ins, nextReg, slots>>
    BY <2>1 DEF vars
  <2>3. \A i : NextOf(i)' = NextOf(i) /\ PrevOf(i)' = PrevOf(i)
    BY <2>2 DEF NextOf, PrevOf, IndexIn
  <2>4. (InsertingOK => InsertingOK') /\ (Running' => Running)
    BY <2>2, <2>3 DEF InsertingOK, Inserting, InDefs, InUses, Running
  <2>5. /\ (InstTyped => InstTyped') /\ (Virtual => Virtual') /\ (LaidOut => LaidOut')
        /\ (Listed => Listed') /\ (Placed => Placed')
    BY <2>2 DEF InstTyped, Virtual, LaidOut, Listed, Placed, Spilling, InDefs, InUses
  <2>6. (Covered => Covered') /\ (Paired => Paired')
    BY <2>2 DEF Covered, HasCover, Paired, Pair, Spilling
  <2> QED
    BY <2>4, <2>5, <2>6 DEF CInv, CBody
<1>2. CASE RewriteVRegs
  <2>1. ~Running'
    BY <1>2 DEF RewriteVRegs, Running
  <2> QED
    BY <2>1 DEF CInv
<1>3. CASE SortWorklist \/ Assign
  <2>1. /\ pc \in {"around", "alloc"} /\ pc' = "alloc"
        /\ UNCHANGED <<code, inst, pp, vlr, around, job, ins, nextReg, slots>>
    BY <1>3 DEF SortWorklist, Assign
  <2>2. CBody
    BY <2>1 DEF CInv, Running
  <2>3. ~Spilling /\ ~Spilling'
    BY <2>1 DEF Spilling
  <2>4. InstTyped' /\ Virtual' /\ LaidOut' /\ Covered' /\ Placed'
    BY <2>1, <2>2, <2>3 DEF CBody, InstTyped, Virtual, LaidOut, Covered, HasCover, Placed
  <2>5. Listed' /\ Paired' /\ InsertingOK'
    BY <2>1, <2>3 DEF Listed, InDefs, InUses, Paired, InsertingOK, Inserting
  <2> QED
    BY <2>4, <2>5 DEF CInv, CBody
<1>4. CASE SpillAroundCall \/ SpillVReg
  BY <1>4, StartSpillKeepsCInv
<1>5. CASE SpillDef
  BY <1>5, SpillDefKeepsCInv
<1>6. CASE SpillUse
  BY <1>6, SpillUseKeepsCInv
<1>7. CASE CollectUses
  BY <1>7, CollectUsesKeepsCInv
<1>8. CASE LocateAfter \/ LocateBefore
  BY <1>8, LocateKeepsCInv
<1>9. CASE LocateAtStart
  BY <1>9, LocateAtStartKeepsCInv
<1>10. CASE InsertAfter \/ InsertBefore
  BY <1>10, MakeRoomKeepsCInv, PlaceKeepsCInv
<1>11. CASE FinishSpill
  BY <1>11, FinishSpillKeepsCInv
<1> QED
  BY <1>1, <1>2, <1>3, <1>4, <1>5, <1>6, <1>7, <1>8, <1>9, <1>10, <1>11 DEF Next

(* Whatever was spilled, and however often the points were recomputed,     *)
(* between two spills every instruction that names a vreg lies within the  *)
(* live range the allocator compares for it.                               *)
THEOREM RegAllocRangesCover == Spec => []RangesCover
<1>1. Init => IInv /\ CInv
  BY InitIInv, InitCInv
<1>2. IInv /\ CInv /\ [Next]_vars => (IInv /\ CInv)'
  BY NextKeepsIInv, NextKeepsCInv
<1>3. IInv /\ CInv => RangesCover
  <2> SUFFICES ASSUME CInv, pc \in {"around", "alloc"}
               PROVE  \A i \in DOMAIN pp : \A v \in AllVRegs(inst[i]) :
                        v \in DOMAIN vlr /\ \E s \in vlr[v] : Within(pp[i], s)
    BY DEF RangesCover
  <2>1. Covered /\ ~Spilling
    BY DEF CInv, CBody, Running, Spilling
  <2> QED
    BY <2>1 DEF Covered, HasCover
<1> QED
  BY <1>1, <1>2, <1>3, PTL DEF Spec
=============================================================================
