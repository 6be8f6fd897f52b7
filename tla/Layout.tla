------------------------------- MODULE Layout -------------------------------
(***************************************************************************)
(* The layout of a machine function: a doubly linked list of basic blocks  *)
(* and, per block, a doubly linked list of instructions.  Lowering appends *)
(* to it; the spiller, phi elimination and the prologue/epilogue inserter  *)
(* insert into it; phi elimination, coalescing and the add peephole remove *)
(* from it.  The passes see it through block_iter and inst_iter only.      *)
(*                                                                         *)
(* Every operation stands for the arena allocation of a fresh id followed  *)
(* by the layout call, which is how all callers use it.                    *)
(***************************************************************************)
EXTENDS Naturals, Sequences, FiniteSets

CONSTANTS Block, Inst,
          None            \* the code's Option::None

(* An arena hands out finitely many ids.                                   *)
ASSUME LayoutAssumption ==
  /\ None \notin Block /\ None \notin Inst
  /\ IsFiniteSet(Block) /\ IsFiniteSet(Inst)

VARIABLES
  blocks,                 \* keys of Layout.basic_blocks
  first_block, last_block,
  next_block, prev_block, \* BasicBlockNode.next, ._prev
  first_inst, last_inst,  \* BasicBlockNode.first_inst, .last_inst
  insts,                  \* keys of Layout.instructions
  block_of,               \* InstructionNode.block
  prev, next              \* InstructionNode.prev, .next

blockVars == <<blocks, first_block, last_block, next_block, prev_block>>
instVars  == <<first_inst, last_inst, insts, block_of, prev, next>>
vars      == <<blockVars, instVars>>

OptBlock == Block \cup {None}
OptInst  == Inst \cup {None}

(* Every link is a known id or None, and only ids of the arenas have one.  *)
TypeOK ==
  /\ blocks \subseteq Block
  /\ insts \subseteq Inst
  /\ first_block \in OptBlock /\ last_block \in OptBlock
  /\ next_block \in [Block -> OptBlock] /\ prev_block \in [Block -> OptBlock]
  /\ first_inst \in [Block -> OptInst] /\ last_inst \in [Block -> OptInst]
  /\ block_of \in [Inst -> OptBlock]
  /\ prev \in [Inst -> OptInst] /\ next \in [Inst -> OptInst]

Init ==
  /\ blocks = {} /\ first_block = None /\ last_block = None
  /\ next_block = [b \in Block |-> None]
  /\ prev_block = [b \in Block |-> None]
  /\ first_inst = [b \in Block |-> None]
  /\ last_inst  = [b \in Block |-> None]
  /\ insts = {}
  /\ block_of = [i \in Inst |-> None]
  /\ prev = [i \in Inst |-> None]
  /\ next = [i \in Inst |-> None]

(* get_mut(&x).unwrap().field = v, skipped when x is None.                 *)
SetIfSome(f, x, v) == IF x = None THEN f ELSE [f EXCEPT ![x] = v]

-----------------------------------------------------------------------------
(* Mutant: the old last block does not learn of the new one.               *)
AppendBlockNoLink(b) ==
  /\ b \in Block \ blocks
  /\ blocks' = blocks \cup {b}
  /\ prev_block' = [prev_block EXCEPT ![b] = last_block]
  /\ last_block' = b
  /\ first_block' = IF first_block = None THEN b ELSE first_block
  /\ UNCHANGED <<instVars, next_block>>

AppendBlock(b) ==
  /\ b \in Block \ blocks
  /\ blocks' = blocks \cup {b}
  /\ prev_block' = [prev_block EXCEPT ![b] = last_block]
  /\ next_block' = SetIfSome(next_block, last_block, b)
  /\ last_block' = b
  /\ first_block' = IF first_block = None THEN b ELSE first_block
  /\ UNCHANGED instVars

(* A fresh node of block b is entered between p and n.                     *)
NewNode(i, b, p, n) ==
  /\ i \in Inst \ insts
  /\ insts' = insts \cup {i}
  /\ block_of' = [block_of EXCEPT ![i] = b]
  /\ prev' = SetIfSome([prev EXCEPT ![i] = p], n, i)
  /\ next' = SetIfSome([next EXCEPT ![i] = n], p, i)
  /\ UNCHANGED blockVars

AppendInst(i, b) ==
  /\ b \in blocks
  /\ NewNode(i, b, last_inst[b], None)
  /\ last_inst' = [last_inst EXCEPT ![b] = i]
  /\ first_inst' = IF first_inst[b] = None
                   THEN [first_inst EXCEPT ![b] = i] ELSE first_inst

InsertAtStart(i, b) ==
  /\ b \in blocks
  /\ NewNode(i, b, None, first_inst[b])
  /\ first_inst' = [first_inst EXCEPT ![b] = i]
  /\ last_inst' = IF last_inst[b] = None
                  THEN [last_inst EXCEPT ![b] = i] ELSE last_inst

(* Callers pass the block the anchor instruction lies in.                  *)
InsertBefore(before, i) ==
  LET b == block_of[before] IN
  /\ b # None
  /\ NewNode(i, b, prev[before], before)
  /\ first_inst' = IF first_inst[b] = before
                   THEN [first_inst EXCEPT ![b] = i] ELSE first_inst
  /\ UNCHANGED last_inst

(* insert_inst_after never moves last_inst: its one caller, the spiller,   *)
(* calls it only for an instruction that has a successor.                  *)
InsertAfter(after, i) ==
  LET b == block_of[after] IN
  /\ b # None
  /\ next[after] # None
  /\ NewNode(i, b, after, next[after])
  /\ UNCHANGED <<first_inst, last_inst>>

(* Mutant: last_inst keeps pointing at a removed instruction.              *)
RemoveInstKeepLast(i) ==
  LET b == block_of[i] IN
  /\ b # None
  /\ block_of' = [block_of EXCEPT ![i] = None]
  /\ next' = SetIfSome([next EXCEPT ![i] = None], prev[i], next[i])
  /\ prev' = SetIfSome([prev EXCEPT ![i] = None], next[i], prev[i])
  /\ first_inst' = IF prev[i] = None THEN [first_inst EXCEPT ![b] = next[i]]
                                    ELSE first_inst
  /\ UNCHANGED <<blockVars, insts, last_inst>>

RemoveInst(i) ==
  LET b == block_of[i]
      p == prev[i]
      n == next[i]
  IN
  /\ b # None
  /\ block_of' = [block_of EXCEPT ![i] = None]
  /\ next' = SetIfSome([next EXCEPT ![i] = None], p, n)
  /\ prev' = SetIfSome([prev EXCEPT ![i] = None], n, p)
  /\ first_inst' = IF p = None THEN [first_inst EXCEPT ![b] = n] ELSE first_inst
  /\ last_inst'  = IF n = None THEN [last_inst EXCEPT ![b] = p] ELSE last_inst
  /\ UNCHANGED <<blockVars, insts>>

Next ==
  \/ \E b \in Block : AppendBlock(b)
  \/ \E i \in Inst, b \in Block : AppendInst(i, b)
  \/ \E i \in Inst, b \in Block : InsertAtStart(i, b)
  \/ \E at \in Inst, i \in Inst : InsertBefore(at, i)
  \/ \E at \in Inst, i \in Inst : InsertAfter(at, i)
  \/ \E i \in Inst : RemoveInst(i)

Spec == Init /\ [][Next]_vars

-----------------------------------------------------------------------------
(* The iterators.  Each starts at an end of a list and runs until it has   *)
(* no current element; the number of steps is capped so that a cyclic list *)
(* shows up as a too long walk instead of an endless one.                  *)
Iter(first, step, most) ==
  LET cur[n \in Nat] ==
        IF n = 0 THEN first
        ELSE IF cur[n - 1] = None THEN None ELSE step[cur[n - 1]]
  IN  [n \in {k \in 1 .. most : \A m \in 1 .. k : cur[m - 1] # None} |-> cur[n - 1]]

BlockIter == Iter(first_block, next_block, Cardinality(Block) + 1)

(* InstructionIter::next: the walk also stops after last_inst.             *)
InstIterStep(b, i) == IF i = last_inst[b] THEN None ELSE next[i]

InstIter(b) ==
  Iter(first_inst[b], [i \in Inst |-> InstIterStep(b, i)], Cardinality(Inst) + 1)

-----------------------------------------------------------------------------
(* The links of a block agree in both directions, stay inside the block,   *)
(* and end exactly at first_inst and last_inst; a block is empty at one    *)
(* end iff it is empty at the other.                                       *)
ForwardLinks ==
  \A i \in Inst : next[i] # None =>
    /\ block_of[i] # None
    /\ block_of[next[i]] = block_of[i]
    /\ prev[next[i]] = i

BackwardLinks ==
  \A i \in Inst : prev[i] # None =>
    /\ block_of[i] # None
    /\ block_of[prev[i]] = block_of[i]
    /\ next[prev[i]] = i

EndsOfBlock ==
  \A i \in Inst, b \in Block : block_of[i] = b =>
    /\ (prev[i] = None) <=> (first_inst[b] = i)
    /\ (next[i] = None) <=> (last_inst[b] = i)

BlockEnds ==
  \A b \in Block :
    /\ first_inst[b] # None => block_of[first_inst[b]] = b
    /\ last_inst[b] # None => block_of[last_inst[b]] = b
    /\ (first_inst[b] = None) <=> (last_inst[b] = None)

(* Ids the layout has not seen, and blocks it has not seen, have no links. *)
FreshUnlinked ==
  /\ \A i \in Inst \ insts : block_of[i] = None
  /\ \A i \in Inst : block_of[i] # None => block_of[i] \in blocks

(* What append_*, insert_inst_* and remove_inst keep true of the pointers: *)
(* no operation leaves a neighbour or an end of a block pointing at the    *)
(* wrong instruction.                                                      *)
Linked ==
  /\ ForwardLinks
  /\ BackwardLinks
  /\ EndsOfBlock
  /\ BlockEnds
  /\ FreshUnlinked

(* The pointer structure implements the sequences of LayoutSeq.            *)
Abs == INSTANCE LayoutSeq WITH
         order <- BlockIter,
         code  <- [b \in Block |-> InstIter(b)],
         used  <- insts

ImplementsLayoutSeq == Abs!Spec
=============================================================================
