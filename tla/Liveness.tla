------------------------------ MODULE Liveness ------------------------------
(***************************************************************************)
(* Live-in and live-out sets of a machine function: set_def, visit and the *)
(* recursive propagate_reg of the register allocator's liveness analysis.  *)
(* The recursion is an explicit stack with one frame per activation; the   *)
(* predecessors of a block are a hash set, so their order is arbitrary.    *)
(***************************************************************************)
EXTENDS Integers, Sequences, FiniteSets, SequencesExt, ProgramPoints

(* An operand flagged input; pred is the block operand that follows it in  *)
(* a phi, and none otherwise.                                              *)
Input(r, p) == [reg |-> r, pred |-> p]

(* set_def: the registers a block writes.                                  *)
DefSet(insts) == UNION {insts[k].outs : k \in DOMAIN insts}

(* visit: the inputs of a block in the order propagate_reg gets them.      *)
BlockVisits(b, insts) ==
  FlattenSeq([k \in DOMAIN insts |->
    [j \in DOMAIN insts[k].ins |->
      [reg |-> insts[k].ins[j].reg, block |-> b, pred |-> insts[k].ins[j].pred]]])

(* What the analysis of a function with blocks 1..n in layout order uses.  *)
Analysed(code, preds) ==
  [preds  |-> preds,
   def    |-> [b \in DOMAIN code |-> DefSet(code[b])],
   visits |-> FlattenSeq([b \in DOMAIN code |-> BlockVisits(b, code[b])])]

-----------------------------------------------------------------------------
CONSTANTS Block, Reg,
          NoPred,        \* a use that is not a phi operand: None
          Functions      \* the functions to analyse, see Analysed

Use == [reg : Reg, block : Block, pred : Block \cup {NoPred}]

Function == [preds  : [Block -> SUBSET Block],
             def    : [Block -> SUBSET Reg],
             visits : Seq(Use)]

ASSUME LivenessAssumption ==
  /\ NoPred \notin Block
  /\ Functions \subseteq Function

VARIABLES
  fn,                    \* the function: preds, def sets, uses in visit order
  live_in, live_out,     \* BlockData.live_in, .live_out
  visited,               \* how many uses visit has handed to propagate_reg
  stack                  \* activations of propagate_reg, the last is running

vars == <<fn, live_in, live_out, visited, stack>>

Frame == [reg : Reg, block : Block, todo : SUBSET Block]

(* The analysis enters registers and blocks of the function only.          *)
TypeOK ==
  /\ fn \in Function
  /\ live_in \in [Block -> SUBSET Reg]
  /\ live_out \in [Block -> SUBSET Reg]
  /\ visited \in 0..Len(fn.visits)
  /\ stack \in Seq(Frame)

Init ==
  /\ fn \in Functions
  /\ live_in = [b \in Block |-> {}]
  /\ live_out = [b \in Block |-> {}]
  /\ visited = 0
  /\ stack = <<>>

-----------------------------------------------------------------------------
(* Mutants: a self loop is left out; the test of phi_pred is inverted.     *)
ReachedNoSelf(b, pred) == {p \in fn.preds[b] \ {b} : pred = NoPred \/ p = pred}
ReachedOthers(b, pred) == {p \in fn.preds[b] : pred = NoPred \/ p # pred}

(* The predecessors the loop of propagate_reg does not skip.               *)
Reached(b, pred) == {p \in fn.preds[b] : pred = NoPred \/ p = pred}

(* Mutant: a definition in the block does not stop the propagation.        *)
PropagateThroughDef(reg, b, pred, callers) ==
  IF reg \in live_in[b]
  THEN stack' = callers /\ UNCHANGED live_in
  ELSE /\ live_in' = [live_in EXCEPT ![b] = @ \cup {reg}]
       /\ stack' = Append(callers, [reg |-> reg, block |-> b, todo |-> Reached(b, pred)])

(* A call of propagate_reg up to its loop over the predecessors; callers   *)
(* are the activations below it.                                           *)
Propagate(reg, b, pred, callers) ==
  IF reg \in fn.def[b] \cup live_in[b]
  THEN stack' = callers /\ UNCHANGED live_in
  ELSE /\ live_in' = [live_in EXCEPT ![b] = @ \cup {reg}]
       /\ stack' = Append(callers, [reg |-> reg, block |-> b, todo |-> Reached(b, pred)])

(* visit hands the next use to propagate_reg.                              *)
Visit ==
  /\ stack = <<>>
  /\ visited < Len(fn.visits)
  /\ visited' = visited + 1
  /\ LET u == fn.visits[visited + 1] IN Propagate(u.reg, u.block, u.pred, <<>>)
  /\ UNCHANGED <<fn, live_out>>

Top == stack[Len(stack)]

Callers == SubSeq(stack, 1, Len(stack) - 1)

(* Mutants: live_out is entered without the recursive call; the loop does  *)
(* not move on to the next predecessor.                                    *)
DescendNoCall(p) ==
  /\ stack # <<>>
  /\ p \in Top.todo
  /\ stack' = Append(Callers, [Top EXCEPT !.todo = @ \ {p}])
  /\ live_out' = [live_out EXCEPT ![p] = @ \cup {Top.reg}]
  /\ UNCHANGED <<fn, visited, live_in>>

DescendSamePred(p) ==
  /\ stack # <<>>
  /\ p \in Top.todo
  /\ IF Top.reg \in live_out[p]
     THEN UNCHANGED <<live_in, live_out, stack>>
     ELSE /\ live_out' = [live_out EXCEPT ![p] = @ \cup {Top.reg}]
          /\ Propagate(Top.reg, p, NoPred, stack)
  /\ UNCHANGED <<fn, visited>>

(* One iteration of the loop over the predecessors.                        *)
Descend(p) ==
  /\ stack # <<>>
  /\ p \in Top.todo
  /\ LET rest == Append(Callers, [Top EXCEPT !.todo = @ \ {p}]) IN
     IF Top.reg \in live_out[p]
     THEN stack' = rest /\ UNCHANGED <<live_in, live_out>>
     ELSE /\ live_out' = [live_out EXCEPT ![p] = @ \cup {Top.reg}]
          /\ Propagate(Top.reg, p, NoPred, rest)
  /\ UNCHANGED <<fn, visited>>

(* The loop ends and the activation returns.                               *)
Return ==
  /\ stack # <<>>
  /\ Top.todo = {}
  /\ stack' = Callers
  /\ UNCHANGED <<fn, live_in, live_out, visited>>

Done == stack = <<>> /\ visited = Len(fn.visits)

Finished == Done /\ UNCHANGED vars

Next ==
  \/ Visit
  \/ \E p \in Block : Descend(p)
  \/ Return
  \/ Finished

(* The analysis is a sequential loop: a step that can be taken is taken.   *)
Spec == Init /\ [][Next]_vars /\ WF_vars(Next)

-----------------------------------------------------------------------------
(* A register that leaves a block enters it or is defined in it: the       *)
(* unwraps of compute_program_points on live_out never fail.               *)
LiveOutHasRange ==
  \A b \in Block : live_out[b] \subseteq live_in[b] \cup fn.def[b]

(* The dataflow inequations: used registers and registers that leave a     *)
(* block are live-in or defined there, and what is live-in was live-out of *)
(* every predecessor.  Every solution of them contains the true live sets. *)
UsesCovered ==
  \A k \in 1..visited :
    LET u == fn.visits[k] IN u.reg \in live_in[u.block] \cup fn.def[u.block]

FlowsBack ==
  \A b \in Block, p \in Block :
    p \in fn.preds[b] => live_in[b] \subseteq live_out[p]

NoPhi == \A k \in 1..Len(fn.visits) : fn.visits[k].pred = NoPred

(* When the analysis of a function without phis ends, its sets solve the   *)
(* dataflow inequations.                                                   *)
Sound == Done /\ NoPhi => UsesCovered /\ FlowsBack /\ LiveOutHasRange

(* The sets are the least solution: nothing is live longer than needed,    *)
(* whatever the order in which the predecessors were walked.               *)
Exact ==
  Done /\ NoPhi =>
    /\ live_in = LeastLiveIn(fn)
    /\ \A p \in Block : live_out[p] = LiveOutOf(fn, live_in, p)

(* The operand a phi takes from a predecessor is live-out of it, where phi *)
(* elimination reads it in a copy: if it is not defined in the block of    *)
(* the phi and no earlier phi operand of that block names the register.    *)
FirstPhiInputLiveOut ==
  Done => \A k \in 1..Len(fn.visits) :
    LET u == fn.visits[k] IN
    /\ u.pred \in fn.preds[u.block]
    /\ u.reg \notin fn.def[u.block]
    /\ \A j \in 1..k-1 : fn.visits[j].reg = u.reg /\ fn.visits[j].block = u.block
                          => fn.visits[j].pred = NoPred
    => u.reg \in live_out[u.pred]

(* The recursion ends, also through loops of the control flow graph.       *)
Terminates == <>Done
=============================================================================
