--------------------------- MODULE LivenessProofs ---------------------------
(***************************************************************************)
(* The liveness analysis computes a solution of the dataflow inequations   *)
(* for every function, whatever the order in which it walks the            *)
(* predecessors; without phis it is the least one, and a phi operand that  *)
(* is the first of its register reaches its predecessor.                   *)
(***************************************************************************)
EXTENDS Liveness, SequenceTheorems, TLAPS

(* The predecessors of b still to be walked for reg by some activation.    *)
PendingIn(st, reg, b, p) ==
  \E k \in 1..Len(st) : /\ st[k].reg = reg
                        /\ st[k].block = b
                        /\ p \in st[k].todo

(* visit has come to a phi operand that names r in b: its propagation went *)
(* to one predecessor only.                                                *)
PhiUsed(r, b) ==
  \E j \in 1..visited : /\ fn.visits[j].reg = r
                        /\ fn.visits[j].block = b
                        /\ fn.visits[j].pred # NoPred

(* FlowsBack is broken while activations are running; what is missing is   *)
(* exactly what they have still to do.                                     *)
FlowsBackOrPending ==
  \A b \in Block, p \in Block, r \in Reg :
    p \in fn.preds[b] /\ r \in live_in[b] /\ ~PhiUsed(r, b)
      => r \in live_out[p] \/ PendingIn(stack, r, b, p)

(* The first operand of a phi that names its register in its block.        *)
FirstPhiInput(k) ==
  /\ fn.visits[k].pred \in fn.preds[fn.visits[k].block]
  /\ fn.visits[k].reg \notin fn.def[fn.visits[k].block]
  /\ \A j \in 1..k-1 :
       fn.visits[j].reg = fn.visits[k].reg /\ fn.visits[j].block = fn.visits[k].block
         => fn.visits[j].pred = NoPred

PhiInputOrPending ==
  \A k \in 1..visited :
    FirstPhiInput(k) =>
      \/ fn.visits[k].reg \in live_out[fn.visits[k].pred]
      \/ PendingIn(stack, fn.visits[k].reg, fn.visits[k].block, fn.visits[k].pred)

(* The sets hold nothing that a solution of the inequations lacks, and no  *)
(* register that is not used anywhere.                                     *)
OnlyNeeded ==
  \A b \in Block : \A r \in live_in[b] :
    /\ \E c \in Block : r \in UsedIn(fn, c)
    /\ \A X \in SUBSET Block : LiveClosed(fn, r, X) => b \in X

LiveOutNeeded == \A p \in Block : live_out[p] \subseteq LiveOutOf(fn, live_in, p)

(* An activation runs for a register that it has made live-in.             *)
StackLive ==
  \A k \in 1..Len(stack) : /\ stack[k].reg \in live_in[stack[k].block]
                            /\ stack[k].todo \subseteq fn.preds[stack[k].block]

IInv ==
  /\ TypeOK
  /\ LiveOutHasRange
  /\ UsesCovered
  /\ FlowsBackOrPending
  /\ PhiInputOrPending
  /\ OnlyNeeded
  /\ LiveOutNeeded
  /\ StackLive

-----------------------------------------------------------------------------
(* What one call of propagate_reg does, as far as its callers can see: b   *)
(* now has the register, and a live-in register that is new is pending.    *)
Propagated(reg, b, pred, callers) ==
  /\ live_in' \in [Block -> SUBSET Reg]
  /\ stack' \in Seq(Frame)
  /\ reg \in live_in'[b] \cup fn.def[b]
  /\ \A c \in Block : live_in[c] \subseteq live_in'[c]
  /\ \A c \in Block : live_in'[c] \subseteq live_in[c] \cup (IF c = b THEN {reg} ELSE {})
  /\ Len(stack') >= Len(callers)
  /\ \A k \in 1..Len(callers) : stack'[k] = callers[k]
  /\ reg \in live_in'[b] \ live_in[b] =>
       /\ reg \notin fn.def[b]
       /\ Len(stack') = Len(callers) + 1
       /\ stack'[Len(stack')] = [reg |-> reg, block |-> b, todo |-> Reached(b, pred)]
  /\ Len(stack') > Len(callers) => reg \in live_in'[b] \ live_in[b]

(* A call of propagate_reg does just that.                                 *)
LEMMA PropagateType ==
  ASSUME TypeOK, NEW reg \in Reg, NEW b \in Block, NEW pred, NEW callers \in Seq(Frame),
         Propagate(reg, b, pred, callers)
  PROVE  Propagated(reg, b, pred, callers)
<1> USE DEF Propagated
<1> DEFINE fr == [reg |-> reg, block |-> b, todo |-> Reached(b, pred)]
<1>1. fr \in Frame
  BY DEF TypeOK, Function, Frame, Reached
<1>2. CASE reg \in fn.def[b] \cup live_in[b]
  <2>1. stack' = callers /\ live_in' = live_in /\ Len(callers) \in Nat
    BY <1>2 DEF Propagate
  <2> QED
    BY <1>2, <2>1 DEF TypeOK
<1>3. CASE reg \notin fn.def[b] \cup live_in[b]
  <2>1. stack' = Append(callers, fr) /\ live_in' = [live_in EXCEPT ![b] = @ \cup {reg}]
    BY <1>3 DEF Propagate
  <2> HIDE DEF fr
  <2>2. /\ stack' \in Seq(Frame) /\ Len(stack') = Len(callers) + 1
        /\ stack'[Len(stack')] = fr
        /\ \A k \in 1..Len(callers) : stack'[k] = callers[k]
    BY <1>1, <2>1
  <2>3. live_in' \in [Block -> SUBSET Reg] /\ reg \in live_in'[b] \ live_in[b]
    BY <1>3, <2>1 DEF TypeOK
  <2> QED
    BY <1>3, <2>1, <2>2, <2>3 DEF TypeOK, fr
<1> QED
  BY <1>2, <1>3

(* The running activation is a frame, and so are its callers.              *)
LEMMA TopType ==
  ASSUME TypeOK, stack # <<>>
  PROVE  /\ Top \in Frame
         /\ Callers \in Seq(Frame)
         /\ Len(stack) \in Nat \ {0}
         /\ Len(Callers) = Len(stack) - 1
         /\ \A k \in 1..Len(Callers) : Callers[k] = stack[k]
<1>1. stack \in Seq(Frame)
  BY DEF TypeOK
<1>2. Len(stack) \in Nat \ {0}
  BY <1>1
<1>3. Top \in Frame
  BY <1>1, <1>2 DEF Top
<1>4. /\ Callers \in Seq(Frame) /\ Len(Callers) = Len(stack) - 1
      /\ \A k \in 1..Len(Callers) : Callers[k] = stack[k]
  <2> DEFINE n == Len(stack) - 1
  <2>1. n \in Int /\ 1 \in Int /\ \A j \in 1..n : stack[j] \in Frame
    BY <1>1, <1>2
  <2>2. /\ SubSeq(stack, 1, n) \in Seq(Frame)
        /\ Len(SubSeq(stack, 1, n)) = IF 1 <= n THEN n - 1 + 1 ELSE 0
        /\ \A j \in 1..(n - 1 + 1) : SubSeq(stack, 1, n)[j] = stack[1 + j - 1]
    <3> HIDE DEF n
    <3> QED
      BY <2>1, SubSeqProperties
  <2>3. n \in Nat
    BY <1>2
  <2> HIDE DEF n
  <2>4. Len(SubSeq(stack, 1, n)) = n /\ \A j \in 1..n : SubSeq(stack, 1, n)[j] = stack[j]
    <3> DEFINE q == SubSeq(stack, 1, n)
    <3>1. Len(q) = (IF 1 <= n THEN n - 1 + 1 ELSE 0) /\ \A j \in 1..(n - 1 + 1) : q[j] = stack[1 + j - 1]
      BY <2>2
    <3> HIDE DEF q
    <3>2. Len(q) = n /\ \A j \in 1..n : q[j] = stack[j]
      BY <2>3, <3>1
    <3> QED
      BY <3>2 DEF q
  <2> QED
    BY <2>2, <2>4 DEF Callers, n
<1> QED
  BY <1>2, <1>3, <1>4

(* A use that visit reaches is a use.                                      *)
LEMMA UseType ==
  ASSUME TypeOK
  PROVE  \A k \in 1..Len(fn.visits) : /\ fn.visits[k].reg \in Reg
                                      /\ fn.visits[k].block \in Block
                                      /\ fn.visits[k].pred \in Block \cup {NoPred}
<1>1. fn.visits \in Seq(Use)
  BY DEF TypeOK, Function
<1>2. \A k \in 1..Len(fn.visits) : fn.visits[k] \in Use
  BY <1>1
<1> QED
  BY <1>2 DEF Use

(* The operand of a phi comes from a block.                                *)
LEMMA FirstPhiInputType ==
  ASSUME TypeOK, NEW k \in 1..visited, FirstPhiInput(k)
  PROVE  /\ fn.visits[k].reg \in Reg
         /\ fn.visits[k].block \in Block
         /\ fn.visits[k].pred \in Block
<1>1. fn.visits \in Seq(Use) /\ fn.preds \in [Block -> SUBSET Block]
  BY DEF TypeOK, Function
<1>2. k \in 1..Len(fn.visits)
  BY <1>1 DEF TypeOK
<1> QED
  BY <1>1, <1>2, UseType DEF FirstPhiInput

(* What a call of propagate_reg must know to enter only what is needed: a  *)
(* block that enters reg is in every solution.                             *)
LEMMA PropagatedNeeded ==
  ASSUME IInv, NEW reg \in Reg, NEW b \in Block, NEW pred, NEW callers \in Seq(Frame),
         Propagated(reg, b, pred, callers), fn' = fn,
         \E c \in Block : reg \in UsedIn(fn, c),
         reg \notin fn.def[b] => \A X \in SUBSET Block : LiveClosed(fn, reg, X) => b \in X
  PROVE  OnlyNeeded'
<1> SUFFICES ASSUME NEW c \in Block, NEW r \in live_in'[c]
             PROVE  /\ \E d \in Block : r \in UsedIn(fn, d)
                    /\ \A X \in SUBSET Block : LiveClosed(fn, r, X) => c \in X
  BY DEF OnlyNeeded
<1>1. CASE r \in live_in[c]
  BY <1>1 DEF IInv, OnlyNeeded
<1>2. CASE r \notin live_in[c]
  <2>1. c = b /\ r = reg
    BY <1>2 DEF Propagated
  <2>2. reg \notin fn.def[b]
    BY <1>2, <2>1 DEF Propagated
  <2> QED
    BY <2>1, <2>2
<1> QED
  BY <1>1, <1>2

(* The frames below a call stay live, and so is the one it pushes.         *)
LEMMA PropagatedStackLive ==
  ASSUME IInv, NEW reg \in Reg, NEW b \in Block, NEW pred, NEW callers \in Seq(Frame),
         Propagated(reg, b, pred, callers), fn' = fn,
         \A k \in 1..Len(callers) : /\ callers[k].reg \in live_in[callers[k].block]
                                    /\ callers[k].todo \subseteq fn.preds[callers[k].block]
  PROVE  StackLive'
<1> SUFFICES ASSUME NEW k \in 1..Len(stack')
             PROVE  /\ stack'[k].reg \in live_in'[stack'[k].block]
                    /\ stack'[k].todo \subseteq fn.preds[stack'[k].block]
  BY DEF StackLive
<1>1. Len(callers) \in Nat /\ Len(stack') \in Nat /\ k \in Int /\ 1 =< k /\ k =< Len(stack')
  BY DEF Propagated
<1>2. CASE k =< Len(callers)
  <2>1. k \in 1..Len(callers) /\ stack'[k] = callers[k] /\ callers[k] \in Frame
    BY <1>1, <1>2 DEF Propagated
  <2>2. callers[k].block \in Block
    BY <2>1 DEF Frame
  <2> QED
    BY <2>1, <2>2 DEF Propagated
<1>3. CASE k > Len(callers)
  <2>1. reg \in live_in'[b] \ live_in[b]
    BY <1>1, <1>3 DEF Propagated
  <2>2. Len(stack') = Len(callers) + 1
    BY <2>1 DEF Propagated
  <2>3. k = Len(stack')
    BY <1>1, <1>3, <2>2
  <2>4. stack'[k] = [reg |-> reg, block |-> b, todo |-> Reached(b, pred)]
    BY <2>1, <2>3 DEF Propagated
  <2> QED
    BY <2>1, <2>4 DEF Reached
<1> QED
  BY <1>1, <1>2, <1>3

(* What leaves a block still enters a successor when live-in sets grow.    *)
LEMMA LiveOutOfGrows ==
  ASSUME IInv, fn' = fn, \A c \in Block : live_in[c] \subseteq live_in'[c]
  PROVE  \A p \in Block : LiveOutOf(fn, live_in, p) \subseteq LiveOutOf(fn, live_in, p)'
<1>1. DOMAIN fn.preds = Block
  BY DEF IInv, TypeOK, Function
<1> QED
  BY <1>1 DEF LiveOutOf

(* Handing a use to propagate_reg keeps the invariant.                     *)
LEMMA VisitKeeps == IInv /\ Visit => IInv'
<1> SUFFICES ASSUME IInv, Visit PROVE IInv'
  OBVIOUS
<1> DEFINE u == fn.visits[visited + 1]
<1>0. Len(fn.visits) \in Nat /\ visited \in Nat /\ visited + 1 \in 1..Len(fn.visits)
  <2>1. fn.visits \in Seq(Use)
    BY DEF IInv, TypeOK, Function
  <2> QED
    BY <2>1 DEF IInv, TypeOK, Visit
<1>1. u.reg \in Reg /\ u.block \in Block /\ u.pred \in Block \cup {NoPred}
  BY <1>0, UseType DEF IInv
<1>2. /\ Propagate(u.reg, u.block, u.pred, <<>>) /\ <<>> \in Seq(Frame)
      /\ fn' = fn /\ live_out' = live_out /\ visited' = visited + 1
      /\ stack = <<>>
  BY DEF Visit
<1> DEFINE none == <<>>
<1>2a. Propagate(u.reg, u.block, u.pred, none) /\ none \in Seq(Frame) /\ Len(none) = 0
  BY <1>2
<1> HIDE DEF u, none
<1>3. Propagated(u.reg, u.block, u.pred, none)
  BY <1>1, <1>2a, PropagateType DEF IInv
<1> USE DEF Propagated
<1>4. TypeOK'
  BY <1>0, <1>2, <1>3 DEF IInv, TypeOK
<1>5. LiveOutHasRange'
  BY <1>2, <1>3 DEF IInv, LiveOutHasRange
<1>6. UsesCovered'
  <2> SUFFICES ASSUME NEW k \in 1..(visited + 1)
               PROVE  fn.visits[k].reg \in live_in'[fn.visits[k].block] \cup fn.def[fn.visits[k].block]
    BY <1>2 DEF UsesCovered
  <2>1. CASE k = visited + 1
    BY <1>3, <2>1 DEF u
  <2>2. CASE k \in 1..visited
    <3>1. k \in 1..Len(fn.visits)
      BY <1>0, <2>2
    <3> QED
      BY <1>3, <2>2, <3>1, UseType DEF IInv, UsesCovered
  <2> QED
    BY <1>0, <2>1, <2>2
<1>7. \A r, b, p : ~PendingIn(stack, r, b, p)
  BY <1>2 DEF PendingIn
<1>8. FlowsBackOrPending'
  <2> SUFFICES ASSUME NEW b \in Block, NEW p \in Block, NEW r \in Reg,
                      p \in fn.preds[b], r \in live_in'[b], ~PhiUsed(r, b)'
               PROVE  r \in live_out[p] \/ PendingIn(stack', r, b, p)
    BY <1>2 DEF FlowsBackOrPending
  <2>1. \A j \in 1..visited+1 : ~(/\ fn.visits[j].reg = r /\ fn.visits[j].block = b
                                  /\ fn.visits[j].pred # NoPred)
    BY <1>2 DEF PhiUsed
  <2>2. CASE r \in live_in[b]
    <3>1. ~PhiUsed(r, b)
      BY <1>0, <2>1 DEF PhiUsed
    <3> QED
      BY <1>7, <2>2, <3>1 DEF IInv, FlowsBackOrPending
  <2>3. CASE r \notin live_in[b]
    <3>1. b = u.block /\ r = u.reg
      BY <1>3, <2>3
    <3>2. u.pred = NoPred
      BY <1>0, <2>1, <3>1 DEF u
    <3>3. p \in Reached(u.block, u.pred)
      BY <3>1, <3>2 DEF Reached
    <3> QED
      BY <1>2a, <1>3, <2>3, <3>1, <3>3 DEF PendingIn
  <2> QED
    BY <2>2, <2>3
<1>9. PhiInputOrPending'
  <2> SUFFICES ASSUME NEW k \in 1..(visited + 1), FirstPhiInput(k)
               PROVE  \/ fn.visits[k].reg \in live_out[fn.visits[k].pred]
                      \/ PendingIn(stack', fn.visits[k].reg, fn.visits[k].block, fn.visits[k].pred)
    BY <1>2 DEF PhiInputOrPending, FirstPhiInput
  <2>1. CASE k \in 1..visited
    BY <1>7, <2>1 DEF IInv, PhiInputOrPending
  <2>2. CASE k = visited + 1
    <3>1. u.pred \in fn.preds[u.block] /\ u.pred \in Block
      <4>1. u.pred \in fn.preds[u.block]
        BY <2>2 DEF FirstPhiInput, u
      <4> QED
        BY <1>1, <4>1 DEF IInv, TypeOK, Function
    <3>2. ~PhiUsed(u.reg, u.block)
      BY <1>0, <2>2 DEF FirstPhiInput, PhiUsed, u
    <3>3. CASE u.reg \in live_in[u.block]
      BY <1>1, <1>7, <2>2, <3>1, <3>2, <3>3 DEF IInv, FlowsBackOrPending, u
    <3>4. CASE u.reg \notin live_in[u.block]
      <4>1. u.reg \in live_in'[u.block] \ live_in[u.block]
        BY <1>3, <2>2, <3>4 DEF FirstPhiInput, u
      <4>2. u.pred \in Reached(u.block, u.pred)
        BY <3>1 DEF Reached
      <4>3. PendingIn(stack', u.reg, u.block, u.pred)
        BY <1>2a, <1>3, <4>1, <4>2 DEF PendingIn
      <4> QED
        BY <2>2, <4>3 DEF u
    <3> QED
      BY <3>3, <3>4
  <2> QED
    BY <1>0, <2>1, <2>2
<1>10. OnlyNeeded'
  <2>1. u.reg \in UsedIn(fn, u.block)
    <3>1. visited + 1 \in DOMAIN fn.visits
      BY <1>0 DEF IInv, TypeOK, Function
    <3> QED
      BY <3>1 DEF UsedIn, u
  <2>2. u.reg \notin fn.def[u.block] =>
          \A X \in SUBSET Block : LiveClosed(fn, u.reg, X) => u.block \in X
    <3>1. DOMAIN fn.preds = Block
      BY DEF IInv, TypeOK, Function
    <3> QED
      BY <1>1, <2>1, <3>1 DEF LiveClosed
  <2> HIDE DEF Propagated
  <2> QED
    BY <1>1, <1>2, <1>2a, <1>3, <2>1, <2>2, PropagatedNeeded
<1>11. LiveOutNeeded'
  BY <1>2, <1>3, LiveOutOfGrows DEF IInv, LiveOutNeeded
<1>12. StackLive'
  <2>1. 1..Len(none) = {}
    BY <1>2a
  <2> HIDE DEF Propagated
  <2> QED
    BY <1>1, <1>2, <1>2a, <1>3, <2>1, PropagatedStackLive
<1> QED
  BY <1>4, <1>5, <1>6, <1>8, <1>9, <1>10, <1>11, <1>12 DEF IInv

(* Returning from propagate_reg keeps it: nothing was left to do.          *)
LEMMA ReturnKeeps == IInv /\ Return => IInv'
<1> SUFFICES ASSUME IInv, Return PROVE IInv'
  OBVIOUS
<1>1. stack # <<>> /\ Top.todo = {} /\ stack' = Callers
      /\ UNCHANGED <<fn, live_in, live_out, visited>>
  BY DEF Return
<1>2. /\ Callers \in Seq(Frame) /\ Len(stack) \in Nat \ {0}
      /\ Len(Callers) = Len(stack) - 1
      /\ \A k \in 1..Len(Callers) : Callers[k] = stack[k]
  BY <1>1, TopType DEF IInv
<1>3. TypeOK' /\ LiveOutHasRange' /\ UsesCovered'
  BY <1>1, <1>2 DEF IInv, TypeOK, LiveOutHasRange, UsesCovered
<1>4. ASSUME NEW r \in Reg, NEW b \in Block, NEW p \in Block, PendingIn(stack, r, b, p)
      PROVE  PendingIn(stack', r, b, p)
  <2>1. PICK k \in 1..Len(stack) : stack[k].reg = r /\ stack[k].block = b /\ p \in stack[k].todo
    BY <1>4 DEF PendingIn
  <2>2. k # Len(stack)
    BY <1>1, <2>1 DEF Top
  <2>3. k \in 1..Len(Callers)
    BY <1>2, <2>1, <2>2
  <2> QED
    BY <1>1, <1>2, <2>1, <2>3 DEF PendingIn
<1>5. FlowsBackOrPending'
  BY <1>1, <1>4 DEF IInv, PhiUsed, FlowsBackOrPending
<1>6. PhiInputOrPending'
  <2> SUFFICES ASSUME NEW k \in 1..visited, FirstPhiInput(k)
               PROVE  \/ fn.visits[k].reg \in live_out[fn.visits[k].pred]
                      \/ PendingIn(stack', fn.visits[k].reg, fn.visits[k].block, fn.visits[k].pred)
    BY <1>1 DEF PhiInputOrPending, FirstPhiInput
  <2>1. fn.visits[k].reg \in Reg /\ fn.visits[k].block \in Block /\ fn.visits[k].pred \in Block
    BY FirstPhiInputType DEF IInv
  <2> QED
    BY <1>4, <2>1 DEF IInv, PhiInputOrPending
<1>7. OnlyNeeded' /\ LiveOutNeeded'
  BY <1>1 DEF IInv, OnlyNeeded, LiveOutNeeded
<1>8. StackLive'
  BY <1>1, <1>2 DEF IInv, StackLive
<1> QED
  BY <1>3, <1>5, <1>6, <1>7, <1>8 DEF IInv

(* Walking to a predecessor keeps it.                                      *)
LEMMA DescendKeeps == ASSUME NEW p \in Block, IInv, Descend(p) PROVE IInv'
<1> DEFINE t == Top
           top == [Top EXCEPT !.todo = @ \ {p}]
           rest == Append(Callers, top)
<1>1. /\ stack # <<>> /\ p \in t.todo /\ fn' = fn /\ visited' = visited
  BY DEF Descend
<1>2. /\ t \in Frame /\ Callers \in Seq(Frame) /\ Len(stack) \in Nat \ {0}
      /\ Len(Callers) = Len(stack) - 1
      /\ \A k \in 1..Len(Callers) : Callers[k] = stack[k]
      /\ t = stack[Len(stack)]
  BY <1>1, TopType DEF IInv, Top
<1>3. top \in Frame /\ top.reg = t.reg /\ top.block = t.block /\ top.todo = t.todo \ {p}
  BY <1>2 DEF Frame
<1> HIDE DEF t, top
<1>4. /\ rest \in Seq(Frame) /\ Len(rest) = Len(stack)
      /\ \A k \in 1..(Len(stack) - 1) : rest[k] = stack[k]
      /\ rest[Len(stack)] = top
  BY <1>2, <1>3
<1> HIDE DEF rest
(* In both branches the frames of rest stay and live_out[p] gets t.reg.    *)
<1>5. /\ live_out' = [live_out EXCEPT ![p] = @ \cup {t.reg}]
      /\ Propagated(t.reg, p, NoPred, rest)
  <2>1. CASE t.reg \in live_out[p]
    <3>1. stack' = rest /\ live_in' = live_in /\ live_out' = live_out
      BY <2>1 DEF Descend, t, rest, top
    <3>2. t.reg \in live_in[p] \cup fn.def[p]
      BY <2>1 DEF IInv, LiveOutHasRange
    <3>3. Len(rest) \in Nat
      BY <1>4
    <3> QED
      BY <1>2, <1>4, <2>1, <3>1, <3>2, <3>3 DEF IInv, TypeOK, Propagated
  <2>2. CASE t.reg \notin live_out[p]
    <3>1. Propagate(t.reg, p, NoPred, rest)
          /\ live_out' = [live_out EXCEPT ![p] = @ \cup {t.reg}]
      BY <2>2 DEF Descend, t, rest, top
    <3>2. t.reg \in Reg
      BY <1>2 DEF Frame
    <3> QED
      BY <1>4, <3>1, <3>2, PropagateType DEF IInv
  <2> QED
    BY <2>1, <2>2
<1> USE DEF Propagated
<1>6. \A c \in Block : live_out'[c] = IF c = p THEN live_out[p] \cup {t.reg} ELSE live_out[c]
  BY <1>5 DEF IInv, TypeOK
<1>7. TypeOK'
  BY <1>1, <1>2, <1>5 DEF IInv, TypeOK, Frame
<1>8. LiveOutHasRange'
  BY <1>1, <1>5, <1>6 DEF IInv, LiveOutHasRange
<1>9. UsesCovered'
  <2>1. \A k \in 1..visited : k \in 1..Len(fn.visits)
    <3>1. fn.visits \in Seq(Use)
      BY DEF IInv, TypeOK, Function
    <3> QED
      BY <3>1 DEF IInv, TypeOK
  <2> QED
    BY <1>1, <1>5, <2>1, UseType DEF IInv, UsesCovered
<1>10. ASSUME NEW r \in Reg, NEW b \in Block, NEW q \in Block, PendingIn(stack, r, b, q)
       PROVE  r \in live_out'[q] \/ PendingIn(stack', r, b, q)
  <2>1. PICK k \in 1..Len(stack) : stack[k].reg = r /\ stack[k].block = b /\ q \in stack[k].todo
    BY <1>10 DEF PendingIn
  <2>2. CASE k = Len(stack) /\ q = p
    BY <1>2, <1>6, <2>1, <2>2
  <2>3. CASE k = Len(stack) /\ q # p
    <3>1. q \in top.todo /\ top.reg = r /\ top.block = b
      BY <1>2, <1>3, <2>1, <2>3
    <3>2. k \in 1..Len(rest) /\ stack'[k] = top
      BY <1>2, <1>4, <1>5, <2>3
    <3>3. k \in 1..Len(stack')
      BY <1>4, <1>5, <3>2
    <3> QED
      BY <3>1, <3>2, <3>3 DEF PendingIn
  <2>4. CASE k # Len(stack)
    <3>1. k \in 1..Len(rest) /\ stack'[k] = stack[k]
      BY <1>2, <1>4, <1>5, <2>1, <2>4
    <3>2. k \in 1..Len(stack')
      BY <1>4, <1>5, <3>1
    <3> QED
      BY <2>1, <3>1, <3>2 DEF PendingIn
  <2> QED
    BY <2>2, <2>3, <2>4
<1>11. FlowsBackOrPending'
  <2> SUFFICES ASSUME NEW b \in Block, NEW q \in Block, NEW r \in Reg,
                      q \in fn.preds[b], r \in live_in'[b], ~PhiUsed(r, b)
               PROVE  r \in live_out'[q] \/ PendingIn(stack', r, b, q)
    BY <1>1 DEF FlowsBackOrPending, PhiUsed
  <2>1. CASE r \in live_in[b]
    <3>1. r \in live_out[q] \/ PendingIn(stack, r, b, q)
      BY <2>1 DEF IInv, FlowsBackOrPending
    <3> QED
      BY <1>6, <1>10, <3>1
  <2>2. CASE r \notin live_in[b]
    <3>1. b = p /\ r = t.reg
      BY <1>5, <2>2
    <3>2. q \in Reached(p, NoPred)
      BY <3>1 DEF Reached
    <3>3. Len(stack') \in 1..Len(stack')
      BY <1>2, <1>4, <1>5, <2>2, <3>1
    <3> QED
      BY <1>5, <2>2, <3>1, <3>2, <3>3 DEF PendingIn
  <2> QED
    BY <2>1, <2>2
<1>12. PhiInputOrPending'
  <2> SUFFICES ASSUME NEW k \in 1..visited, FirstPhiInput(k)
               PROVE  \/ fn.visits[k].reg \in live_out'[fn.visits[k].pred]
                      \/ PendingIn(stack', fn.visits[k].reg, fn.visits[k].block, fn.visits[k].pred)
    BY <1>1 DEF PhiInputOrPending, FirstPhiInput
  <2>1. fn.visits[k].reg \in Reg /\ fn.visits[k].block \in Block /\ fn.visits[k].pred \in Block
    BY FirstPhiInputType DEF IInv
  <2> QED
    BY <1>6, <1>10, <2>1 DEF IInv, PhiInputOrPending
(* The running activation works for a register that is live-in, so what it *)
(* enters on the way is needed.                                            *)
<1>13. /\ t.reg \in live_in[t.block] /\ t.todo \subseteq fn.preds[t.block]
       /\ t.reg \in Reg /\ t.block \in Block
  <2>1. Len(stack) \in 1..Len(stack)
    BY <1>2
  <2> QED
    BY <1>2, <2>1 DEF IInv, StackLive, Frame
<1>14. DOMAIN fn.preds = Block
  BY DEF IInv, TypeOK, Function
<1>15. OnlyNeeded'
  <2>1. /\ \E c \in Block : t.reg \in UsedIn(fn, c)
        /\ \A X \in SUBSET Block : LiveClosed(fn, t.reg, X) => t.block \in X
    BY <1>13 DEF IInv, OnlyNeeded
  <2>2. t.reg \notin fn.def[p] =>
          \A X \in SUBSET Block : LiveClosed(fn, t.reg, X) => p \in X
    BY <1>1, <1>13, <1>14, <2>1 DEF LiveClosed
  <2> HIDE DEF Propagated
  <2> QED
    BY <1>1, <1>4, <1>5, <1>13, <2>1, <2>2, PropagatedNeeded
<1>16. LiveOutNeeded'
  <2>1. t.reg \in LiveOutOf(fn, live_in, p)
    BY <1>1, <1>13, <1>14 DEF LiveOutOf
  <2>2. \A q \in Block : live_out'[q] \subseteq LiveOutOf(fn, live_in, q)
    BY <1>6, <2>1 DEF IInv, LiveOutNeeded
  <2> QED
    BY <1>1, <1>5, <2>2, LiveOutOfGrows DEF LiveOutNeeded
<1>17. StackLive'
  <2>1. \A k \in 1..Len(rest) : /\ rest[k].reg \in live_in[rest[k].block]
                                /\ rest[k].todo \subseteq fn.preds[rest[k].block]
    <3> SUFFICES ASSUME NEW k \in 1..Len(stack)
                 PROVE  /\ rest[k].reg \in live_in[rest[k].block]
                        /\ rest[k].todo \subseteq fn.preds[rest[k].block]
      BY <1>4
    <3>1. CASE k = Len(stack)
      BY <1>3, <1>4, <1>13, <3>1
    <3>2. CASE k # Len(stack)
      <4>1. k \in 1..(Len(stack) - 1)
        BY <1>2, <3>2
      <4> QED
        BY <1>4, <4>1 DEF IInv, StackLive
    <3> QED
      BY <3>1, <3>2
  <2> HIDE DEF Propagated
  <2> QED
    BY <1>1, <1>4, <1>5, <1>13, <2>1, PropagatedStackLive
<1> QED
  BY <1>7, <1>8, <1>9, <1>11, <1>12, <1>15, <1>16, <1>17 DEF IInv

(* The empty sets satisfy the invariant.                                   *)
LEMMA IInvInit == Init => IInv
<1> SUFFICES ASSUME Init PROVE IInv
  OBVIOUS
<1>1. fn \in Function
  BY LivenessAssumption DEF Init
<1>2. TypeOK
  BY <1>1 DEF Init, TypeOK, Function
<1>3. LiveOutHasRange /\ UsesCovered /\ FlowsBackOrPending
  BY DEF Init, LiveOutHasRange, UsesCovered, FlowsBackOrPending
<1>4. PhiInputOrPending /\ OnlyNeeded /\ LiveOutNeeded /\ StackLive
  BY DEF Init, PhiInputOrPending, OnlyNeeded, LiveOutNeeded, StackLive
<1> QED
  BY <1>2, <1>3, <1>4 DEF IInv

(* Every step of the analysis keeps the invariant.                         *)
LEMMA IInvStep == IInv /\ [Next]_vars => IInv'
<1> SUFFICES ASSUME IInv, [Next]_vars PROVE IInv'
  OBVIOUS
<1>1. CASE UNCHANGED vars
  <2>1. TypeOK' /\ LiveOutHasRange'
    BY <1>1 DEF vars, IInv, TypeOK, LiveOutHasRange
  <2>2. UsesCovered'
    BY <1>1 DEF vars, IInv, UsesCovered
  <2>3. FlowsBackOrPending'
    BY <1>1 DEF vars, IInv, FlowsBackOrPending, PendingIn, PhiUsed
  <2>4. PhiInputOrPending'
    BY <1>1 DEF vars, IInv, PhiInputOrPending, FirstPhiInput, PendingIn
  <2>5. OnlyNeeded' /\ LiveOutNeeded' /\ StackLive'
    BY <1>1 DEF vars, IInv, OnlyNeeded, LiveOutNeeded, StackLive
  <2> QED
    BY <2>1, <2>2, <2>3, <2>4, <2>5 DEF IInv
<1> QED
  BY <1>1, VisitKeeps, DescendKeeps, ReturnKeeps DEF Next, Finished

-----------------------------------------------------------------------------
(* The analysis state is well-typed in every reachable state.              *)
THEOREM LivenessTypeCorrect == Spec => []TypeOK
<1>1. IInv => TypeOK
  BY DEF IInv
<1> QED
  BY <1>1, IInvInit, IInvStep, PTL DEF Spec

(* No unwrap of compute_program_points on a live-out register fails: at    *)
(* any time a live-out register of a block is live-in or defined there.    *)
THEOREM LiveOutAlwaysHasRange == Spec => []LiveOutHasRange
<1>1. IInv => LiveOutHasRange
  BY DEF IInv
<1> QED
  BY <1>1, IInvInit, IInvStep, PTL DEF Spec

(* At the end nothing is left to do.                                       *)
LEMMA DoneFlowsBack == ASSUME IInv, Done, NoPhi PROVE FlowsBack
<1>1. \A r, b, p : ~PendingIn(stack, r, b, p)
  BY DEF Done, PendingIn
<1>2. \A r, b : ~PhiUsed(r, b)
  BY DEF Done, NoPhi, PhiUsed
<1> QED
  BY <1>1, <1>2 DEF IInv, TypeOK, FlowsBackOrPending, FlowsBack

(* When the analysis of a function without phis ends, its sets solve the   *)
(* dataflow inequations, so they contain every truly live register.        *)
THEOREM LivenessSound == Spec => []Sound
<1>1. IInv => Sound
  <2> SUFFICES ASSUME IInv, Done, NoPhi PROVE UsesCovered /\ FlowsBack /\ LiveOutHasRange
    BY DEF Sound
  <2>1. FlowsBack
    BY DoneFlowsBack
  <2> QED
    BY <2>1 DEF IInv
<1> QED
  BY <1>1, IInvInit, IInvStep, PTL DEF Spec

(* Every used and every live-out register is live-in or defined, and what  *)
(* is live-in has left every predecessor: the blocks that have r live-in   *)
(* are a solution, and by the invariant no solution lacks one of them.     *)
THEOREM LivenessExact == Spec => []Exact
<1>1. IInv => Exact
  <2> SUFFICES ASSUME IInv, Done, NoPhi
               PROVE  /\ live_in = LeastLiveIn(fn)
                      /\ \A p \in Block : live_out[p] = LiveOutOf(fn, live_in, p)
    BY DEF Exact
  <2>1. FlowsBack
    BY DoneFlowsBack
  <2>2. /\ DOMAIN fn.preds = Block /\ live_in \in [Block -> SUBSET Reg]
        /\ live_out \in [Block -> SUBSET Reg] /\ fn.visits \in Seq(Use)
    BY DEF IInv, TypeOK, Function
  <2>3. ASSUME NEW r PROVE LiveClosed(fn, r, {b \in Block : r \in live_in[b]})
    <3> SUFFICES ASSUME NEW b \in Block, r \notin fn.def[b],
                        \/ r \in UsedIn(fn, b)
                        \/ \E c \in Block : r \in live_in[c] /\ b \in fn.preds[c]
                 PROVE  r \in live_in[b]
      BY <2>2 DEF LiveClosed
    <3>1. CASE r \in UsedIn(fn, b)
      <4>1. PICK k \in DOMAIN fn.visits : fn.visits[k].reg = r /\ fn.visits[k].block = b
        BY <3>1 DEF UsedIn
      <4>2. k \in 1..visited
        BY <2>2, <4>1 DEF Done
      <4> QED
        BY <4>1, <4>2 DEF IInv, UsesCovered
    <3>2. CASE \E c \in Block : r \in live_in[c] /\ b \in fn.preds[c]
      BY <2>1, <3>2 DEF FlowsBack, IInv, LiveOutHasRange
    <3> QED
      BY <3>1, <3>2
  <2>4. ASSUME NEW b \in Block PROVE live_in[b] = LeastLiveIn(fn)[b]
    <3> DEFINE used == UNION {UsedIn(fn, c) : c \in DOMAIN fn.preds}
    <3>1. LeastLiveIn(fn)[b] =
            {r \in used : \A X \in SUBSET Block : LiveClosed(fn, r, X) => b \in X}
      BY <2>2 DEF LeastLiveIn
    <3>2. \A r \in live_in[b] : r \in LeastLiveIn(fn)[b]
      <4> TAKE r \in live_in[b]
      <4>1. r \in used
        BY <2>2 DEF IInv, OnlyNeeded
      <4> HIDE DEF used
      <4> QED
        BY <3>1, <4>1 DEF IInv, OnlyNeeded
    <3>3. \A r \in LeastLiveIn(fn)[b] : r \in live_in[b]
      <4> TAKE r \in LeastLiveIn(fn)[b]
      <4> DEFINE X == {c \in Block : r \in live_in[c]}
      <4>1. LiveClosed(fn, r, X) /\ X \in SUBSET Block
        BY <2>3
      <4> HIDE DEF X, used
      <4>2. b \in X
        BY <3>1, <4>1
      <4> QED
        BY <4>2 DEF X
    <3> QED
      BY <3>2, <3>3
  <2>5. live_in = LeastLiveIn(fn)
    BY <2>2, <2>4 DEF LeastLiveIn
  <2>6. ASSUME NEW p \in Block PROVE live_out[p] = LiveOutOf(fn, live_in, p)
    <3>1. LiveOutOf(fn, live_in, p) \subseteq live_out[p]
      BY <2>1, <2>2 DEF LiveOutOf, FlowsBack
    <3> QED
      BY <3>1 DEF IInv, LiveOutNeeded
  <2> QED
    BY <2>5, <2>6
<1> QED
  BY <1>1, IInvInit, IInvStep, PTL DEF Spec

(* Phi elimination puts the copy of an operand at the end of the           *)
(* predecessor it comes from.  The register is live-out there, for every   *)
(* function, unless propagate_reg was called before for another operand    *)
(* of the block that names it.                                             *)
THEOREM FirstPhiInputReachesPred == Spec => []FirstPhiInputLiveOut
<1>1. IInv => FirstPhiInputLiveOut
  <2> SUFFICES ASSUME IInv, Done, NEW k \in 1..Len(fn.visits), FirstPhiInput(k)
               PROVE  fn.visits[k].reg \in live_out[fn.visits[k].pred]
    BY DEF FirstPhiInputLiveOut, FirstPhiInput
  <2>1. \A r, b, p : ~PendingIn(stack, r, b, p)
    BY DEF Done, PendingIn
  <2>2. k \in 1..visited
    BY DEF Done
  <2> QED
    BY <2>1, <2>2 DEF IInv, PhiInputOrPending
<1> QED
  BY <1>1, IInvInit, IInvStep, PTL DEF Spec
=============================================================================
