------------------------------ MODULE FrameOps ------------------------------
(* The arithmetic of the stack frame: offsets of the slots of a function   *)
(* (function/slot), the operands eliminate_slot replaces them by, and the  *)
(* size the prologue adds to the frame pointer r9.  A slot is a record     *)
(* [size, align] in bytes; a machine word is four of them.                 *)
EXTENDS Integers, Sequences

(* The integers, pointers, structures and arrays that alloca and the       *)
(* spiller place have a size and an alignment of whole words.              *)
Bytes == {n \in Nat : n % 4 = 0}
Slot  == [size : Bytes, align : Bytes \ {0}]

BitAnd[x \in Nat] ==
  [y \in Nat |->
     IF x = 0 \/ y = 0 THEN 0
     ELSE 2 * BitAnd[x \div 2][y \div 2] + ((x % 2) * (y % 2))]

IsAligned(align, offset) == offset % align = 0

(* (offset + align - 1) & !(align - 1), which rounds up only when align is *)
(* a power of two; arrays of structures have other alignments.             *)
AlignTo(offset, align) ==
  (offset + align - 1) - BitAnd[offset + align - 1][align - 1]

Aligned(offset, align) ==
  IF IsAligned(align, offset) THEN offset ELSE AlignTo(offset, align)

(* The loop over the slots: the offset and the largest alignment behind    *)
(* the first n of them.  The offset of a slot is where it ends: the frame  *)
(* grows downwards.                                                        *)
ComputedOffsets(slots) ==
  LET after[n \in 0 .. Len(slots)] ==
        IF n = 0 THEN [offset |-> 0, align |-> 1]
        ELSE LET slot   == slots[n]
                 before == after[n - 1]
             IN  [offset |-> Aligned(before.offset, slot.align) + slot.size,
                  align  |-> IF slot.align > before.align THEN slot.align ELSE before.align]
  IN  after

SlotsSize(slots) ==
  LET all == ComputedOffsets(slots)[Len(slots)] IN Aligned(all.offset, all.align)

(* Mutant: only the return address is reserved.                            *)
WithCallSlotsOne(slots, call) ==
  IF call THEN slots \o <<[size |-> 4, align |-> 4]>> ELSE slots

(* A function that calls others gets two more words for the return         *)
(* address and the frame pointer.                                          *)
WithCallSlots(slots, call) ==
  IF call THEN slots \o <<[size |-> 4, align |-> 4], [size |-> 4, align |-> 4]>>
  ELSE slots

(* Rust divides towards zero.                                              *)
Quot4(x) == IF x >= 0 THEN x \div 4 ELSE -((-x) \div 4)

Negative(size) == IF size > 0 THEN -size ELSE size

(* The immediate of `add addr r9 slot'.                                    *)
AddrImm(off, call) ==
  LET size == Quot4(off) IN Negative(IF call THEN -size - 2 ELSE size)

(* The immediate of a memory operand that names a slot, by the kind of the *)
(* immediate the lowering left in it.                                      *)
MemImm(off, kind, imm, call) ==
  LET bytes == CASE kind = "none" -> 0 - off
                 [] kind = "i32"  -> -imm - off
                 [] kind = "i64"  -> imm - off
  IN  Negative(Quot4(bytes) - (IF call THEN 2 ELSE 0))

(* What prologue and epilogue move r9 by: the saved registers are counted  *)
(* in and out again, the rounding is to multiples of one.                  *)
Adjustment(slots, csr) ==
  LET saved == 1 + csr
  IN  ((SlotsSize(slots) + saved + 1) - (saved + 1)) \div 4

(* Mutant: a value is stored in the order of its words.                    *)
StoreImmOrder(w, i) == [kind |-> "i64", imm |-> 4 * i, word |-> i + 1]

(* The immediates lower_load and lower_store use for word i (from 0) of a  *)
(* value of w words in a slot, and the word of the value they move.        *)
StoreImm(w, i) == [kind |-> "i64", imm |-> 4 * i, word |-> w - i]
LoadImm(w, i) ==
  IF w = 1 THEN [kind |-> "none", imm |-> 0, word |-> 1]
  ELSE [kind |-> "i64", imm |-> 12 - 4 * i, word |-> i + 1]
=============================================================================
