------------------------------ MODULE LayoutSeq ------------------------------
(***************************************************************************)
(* What a machine function's layout promises to the passes that use it: an *)
(* order of the basic blocks and, for every block, the sequence of its     *)
(* instructions.  The pointer structure that implements it is module       *)
(* Layout.                                                                 *)
(***************************************************************************)
EXTENDS Naturals, Sequences, SequencesExt

CONSTANTS Block,    \* ids handed out by the block arena
          Inst      \* ids handed out by the instruction arena

VARIABLES order,    \* the sequence block_iter yields
          code,     \* code[b]: the sequence inst_iter(b) yields
          used      \* instruction ids that were ever given to the layout

vars == <<order, code, used>>

Position(s, x) == CHOOSE k \in DOMAIN s : s[k] = x

Init ==
  /\ order = <<>>
  /\ code = [b \in Block |-> <<>>]
  /\ used = {}

AppendBlock(b) ==
  /\ b \notin ToSet(order)
  /\ order' = Append(order, b)
  /\ UNCHANGED <<code, used>>

(* A fresh instruction joins block b, which then reads s.                  *)
Place(i, b, s) ==
  /\ i \notin used
  /\ b \in ToSet(order)
  /\ code' = [code EXCEPT ![b] = s]
  /\ used' = used \cup {i}
  /\ UNCHANGED order

AppendInst(i, b) == Place(i, b, Append(code[b], i))

InsertAtStart(i, b) == Place(i, b, <<i>> \o code[b])

InsertBefore(before, i, b) ==
  /\ before \in ToSet(code[b])
  /\ Place(i, b, InsertAt(code[b], Position(code[b], before), i))

InsertAfter(after, i, b) ==
  /\ after \in ToSet(code[b])
  /\ Place(i, b, InsertAt(code[b], Position(code[b], after) + 1, i))

RemoveInst(i, b) ==
  /\ i \in ToSet(code[b])
  /\ code' = [code EXCEPT ![b] = RemoveAt(@, Position(@, i))]
  /\ UNCHANGED <<order, used>>

Next ==
  \E b \in Block :
    \/ AppendBlock(b)
    \/ \E i \in Inst :
         \/ AppendInst(i, b)
         \/ InsertAtStart(i, b)
         \/ RemoveInst(i, b)
         \/ \E at \in Inst : InsertBefore(at, i, b) \/ InsertAfter(at, i, b)

Spec == Init /\ [][Next]_vars
=============================================================================
