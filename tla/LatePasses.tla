----------------------------- MODULE LatePasses -----------------------------
(* The passes between register allocation and slot elimination             *)
(* (isa/ola/mod.rs): eliminate_phi, add_peephole, simple_reg_coalescing    *)
(* and add_peephole again, on a function whose operands are registers.     *)
EXTENDS OlaMachine

CONSTANTS Allocated,   \* functions as the register allocator leaves them
          Inputs,      \* words the argument registers take
          Fuel         \* bound on the instructions of a run

VARIABLES fn,      \* the function given to the passes
          code,    \* its blocks
          copies,  \* FxHashMap: output register -> <<[val, block], ...>>
          stage    \* the pass that runs next

vars == <<fn, code, copies, stage>>

IsPhi(i) == i.op = "phi"

(* The arguments of all phis, in layout order, by the register they write. *)
PhiArgs(blocks) ==
  LET insts == FlattenSeq(blocks)
      phis  == SelectSeq(insts, IsPhi)
      args(i) == [j \in DOMAIN i.s |-> [val |-> i.s[j], block |-> i.from[j]]]
  IN  [r \in {i.d : i \in Range(phis)} |->
         FlattenSeq([k \in DOMAIN phis |-> IF phis[k].d = r THEN args(phis[k]) ELSE <<>>])]

Init ==
  /\ fn \in Allocated
  /\ code = fn
  /\ copies = <<>>
  /\ stage = "collect"

Collect ==
  /\ stage = "collect"
  /\ copies' = PhiArgs(code)
  /\ stage' = "copy"
  /\ UNCHANGED <<fn, code>>

(* Mutant: the copy is placed at the start of the predecessor.             *)
InsertCopyFirst(block, copy) == <<copy>> \o block

(* The copy goes before the last instruction of the predecessor.           *)
InsertCopy(block, copy) == InsertAt(block, Len(block), copy)

(* The map is iterated in hash order: some register is next.               *)
CopyIn ==
  /\ stage = "copy"
  /\ \E r \in DOMAIN copies :
       /\ code' = FoldLeft(LAMBDA c, a : [c EXCEPT ![a.block] = InsertCopy(@, Ins("mov", r, <<a.val>>))],
                           code, copies[r])
       /\ copies' = [q \in DOMAIN copies \ {r} |-> copies[q]]
  /\ UNCHANGED <<fn, stage>>

RemovePhis ==
  /\ stage = "copy" /\ copies = <<>>
  /\ code' = [b \in DOMAIN code |-> SelectSeq(code[b], LAMBDA i : ~IsPhi(i))]
  /\ stage' = "peephole"
  /\ UNCHANGED <<fn, copies>>

(* add r r 0 is dropped, add r imm 0 becomes a move.                       *)
DeadAdd(i) == i.op = "add" /\ i.s[2] = I(0) /\ i.s[1] = i.d

AddOfZero(i) == i.op = "add" /\ i.s[2] = I(0) /\ i.s[1][1] = "i"

Peephole(blocks) ==
  [b \in DOMAIN blocks |->
     LET kept == SelectSeq(blocks[b], LAMBDA i : ~DeadAdd(i))
     IN  [k \in DOMAIN kept |-> IF AddOfZero(kept[k]) THEN Ins("mov", kept[k].d, <<kept[k].s[1]>>)
                                ELSE kept[k]]]

AddPeephole ==
  /\ stage \in {"peephole", "peephole2"}
  /\ code' = Peephole(code)
  /\ stage' = IF stage = "peephole" THEN "coalesce" ELSE "done"
  /\ UNCHANGED <<fn, copies>>

(* A move of a register to itself.                                         *)
SelfMove(i) == i.op = "mov" /\ i.s[1] = i.d

Coalesce ==
  /\ stage = "coalesce"
  /\ code' = [b \in DOMAIN code |-> SelectSeq(code[b], LAMBDA i : ~SelfMove(i))]
  /\ stage' = "peephole2"
  /\ UNCHANGED <<fn, copies>>

Next == Collect \/ CopyIn \/ RemovePhis \/ AddPeephole \/ Coalesce

Spec == Init /\ [][Next]_vars

-----------------------------------------------------------------------------
NoFrame == [slots |-> <<>>, call |-> FALSE]

Run(blocks, x, y) ==
  Observed(RunMachine(blocks, Start(R(1) :> x @@ R(2) :> y @@ R(3) :> 0), NoFrame, Fuel))

(* The program after the passes does what the allocated function, with its *)
(* phis read all at once on entry of their block, does: it returns the     *)
(* same words and calls and checks the same in the same order, whatever    *)
(* the hash order of the registers was.                                    *)
SameRuns ==
  stage = "done" => \A x, y \in Inputs : Run(code, x, y) = Run(fn, x, y)

(* a ** b is the b-th power of a (docs/ola-langugae.md): the code that the *)
(* passes leave of u32_power returns it.                                   *)
PowerComputed ==
  stage = "done" => \A x, y \in Inputs : Run(code, x, y).ret = <<(x ^ y) % P>>
=============================================================================
