-------------------------------- MODULE Frame --------------------------------
(* Frames at run time: functions whose slots were placed by eliminate_slot *)
(* and whose prologue and epilogue pro_epi_inserter wrote, calling each    *)
(* other on one memory.  A function is [slots, call, csr]: its slots (a    *)
(* slot of w words has size 4w), whether it contains a call, and how many  *)
(* callee-saved registers it uses.  A word of a slot is written and read   *)
(* through the operands the lowering emits for it.                         *)
EXTENDS FrameOps

CONSTANTS Code,      \* function name -> [slots, call, csr]
          Main,      \* the function that is entered first
          Val,       \* values stored in slots: tuples of one or four words
          MaxDepth   \* bound on the depth of calls

CodeOK ==
  /\ Main \in DOMAIN Code
  /\ \A f \in DOMAIN Code :
       Code[f].slots \in Seq(Slot) /\ Code[f].call \in BOOLEAN /\ Code[f].csr \in Nat
  /\ \A v \in Val : Len(v) \in {1, 4}

VARIABLES mem,    \* memory: a function from the addresses written so far
          fp,     \* r9
          stack,  \* the active functions, outermost first, with the frame
                  \* pointer each had after its prologue and the values its
                  \* slots hold
          landed  \* where the last return went: [pc, fp], or <<>>

vars == <<mem, fp, stack, landed>>

Base == 100
Top == stack[Len(stack)]

(* The function m, where g does not give another value.                    *)
Over(g, m) == [x \in DOMAIN g \cup DOMAIN m |-> IF x \in DOMAIN g THEN g[x] ELSE m[x]]
Written(m, a, v) == Over([x \in {a} |-> v], m)

SlotsOf(f) == WithCallSlots(Code[f].slots, Code[f].call)
Offset(f, s) == ComputedOffsets(SlotsOf(f))[s].offset
SlotWords(f, s) == Code[f].slots[s].size \div 4
Adj(f) == Adjustment(SlotsOf(f), Code[f].csr)

(* add r9 r9 adj; mstore [r9,-2] r9 when the function calls.               *)
Prologue(f, m, p) ==
  LET q == p + Adj(f)
  IN  [fp |-> q, mem |-> IF Code[f].call THEN Written(m, q - 2, q) ELSE m]

Entered(f, p) == [fn |-> f, fp |-> p, vals |-> <<>>]

Init ==
  LET e == Prologue(Main, <<>>, Base)
  IN  mem = e.mem /\ fp = e.fp /\ stack = <<Entered(Main, e.fp)>> /\ landed = <<>>

(* call: the machine stores the return address at [fp-1]; a number of the  *)
(* caller stands for it.  The callee runs its prologue.                    *)
Call(g) ==
  /\ Code[Top.fn].call
  /\ Len(stack) < MaxDepth
  /\ LET e == Prologue(g, Written(mem, fp - 1, Len(stack)), fp)
     IN  /\ mem' = e.mem
         /\ fp' = e.fp
         /\ stack' = Append(stack, Entered(g, e.fp))
  /\ landed' = <<>>

(* A value of w words stored to slot s, one mstore for each word.          *)
Store(s, v) ==
  LET f == Top.fn
      w == SlotWords(f, s)
      addr(i) == fp + MemImm(Offset(f, s), StoreImm(w, i).kind, StoreImm(w, i).imm, Code[f].call)
      words == [a \in {addr(i) : i \in 0 .. w - 1} |->
                  v[StoreImm(w, CHOOSE i \in 0 .. w - 1 : addr(i) = a).word]]
  IN  /\ Len(v) = w
      /\ mem' = Over(words, mem)
      /\ stack' = [stack EXCEPT ![Len(stack)].vals = Written(@, s, v)]
      /\ UNCHANGED <<fp, landed>>

(* add r9 r9 -adj; ret: the machine takes pc from [fp-1], fp from [fp-2].  *)
(* The outermost function ends the program instead.                        *)
Return ==
  LET p == fp - Adj(Top.fn)
  IN  /\ Len(stack) > 1
      /\ fp' = mem[p - 2]
      /\ landed' = [pc |-> mem[p - 1], fp |-> mem[p - 2]]
      /\ stack' = SubSeq(stack, 1, Len(stack) - 1)
      /\ UNCHANGED mem

Next ==
  \/ \E g \in DOMAIN Code : Call(g)
  \/ \E s \in DOMAIN Code[Top.fn].slots, v \in Val : Store(s, v)
  \/ Return

Spec == Init /\ [][Next]_vars

-----------------------------------------------------------------------------
(* What a load of word i of slot s reads in the frame of fr.               *)
Loaded(fr, s, i) ==
  LET w == SlotWords(fr.fn, s)
      o == LoadImm(w, i)
      a == fr.fp + MemImm(Offset(fr.fn, s), o.kind, o.imm, Code[fr.fn].call)
  IN  IF a \in DOMAIN mem THEN mem[a] ELSE <<"unwritten", a>>

(* In every active function the values are loaded as they were stored, and *)
(* the pointer that `add r r9 slot' makes finds the last word of the value *)
(* there too: no slot overlaps another one, the words kept for calls, or   *)
(* the frames of the functions called since, and the loads, the stores and *)
(* the addresses of a slot agree (eliminate_slot, pro_epi_inserter).       *)
SlotsKept ==
  \A k \in DOMAIN stack : \A s \in DOMAIN stack[k].vals :
    LET fr == stack[k]
        w  == SlotWords(fr.fn, s)
        p  == fr.fp + AddrImm(Offset(fr.fn, s), Code[fr.fn].call)
    IN  /\ \A i \in 0 .. w - 1 : Loaded(fr, s, i) = fr.vals[s][LoadImm(w, i).word]
        /\ p \in DOMAIN mem /\ mem[p] = fr.vals[s][w]

(* A return lands behind the call that entered the function, with the      *)
(* caller's frame pointer.                                                 *)
ReturnsHome ==
  /\ fp = Top.fp
  /\ landed # <<>> => landed = [pc |-> Len(stack), fp |-> Top.fp]
=============================================================================
