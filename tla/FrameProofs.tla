---------------------------- MODULE FrameProofs ----------------------------
(***************************************************************************)
(* For functions with any slots, calling each other to any depth: a return *)
(* lands behind its call, and what a slot holds is loaded as it was        *)
(* stored.  First, where ensure_computed_offsets puts the slots: its loop  *)
(* and align_to are recursive functions, so that they are well defined is  *)
(* itself shown by induction.  Then the invariant of the frames at run     *)
(* time.                                                                   *)
(***************************************************************************)
EXTENDS Frame, TLAPS, WellFoundedInduction

Less == OpToRel(<, Nat)

(* Course-of-values induction, for a set instead of a predicate.           *)
LEMMA NatInduct ==
  ASSUME NEW S, \A n \in Nat : (\A m \in 0 .. n - 1 : m \in S) => n \in S
  PROVE  Nat \subseteq S
<1> DEFINE T == {n \in Nat : n \notin S}
<1> SUFFICES ASSUME T # {} PROVE FALSE
  OBVIOUS
<1>1. IsWellFoundedOn(Less, Nat)
  BY NatLessThanWellFounded DEF Less
<1>2. PICK n \in T : \A m \in T : ~ (<<m, n>> \in Less)
  <2>1. T \subseteq Nat
    OBVIOUS
  <2> HIDE DEF T
  <2> QED BY <1>1, <2>1, WFMin
<1>3. \A m \in 0 .. n - 1 : m \in S
  <2> TAKE m \in 0 .. n - 1
  <2>1. m \in Nat /\ n \in Nat /\ m < n
    BY <1>2
  <2>2. <<m, n>> \in Less
    BY <2>1 DEF Less, OpToRel
  <2> QED BY <1>2, <2>1, <2>2
<1> QED
  BY <1>2, <1>3

-----------------------------------------------------------------------------
(* The equation of BitAnd has solutions up to every bound, they agree, and *)
(* so it has one on Nat.                                                   *)
AndStep(g, x) ==
  [y \in Nat |->
     IF x = 0 \/ y = 0 THEN 0
     ELSE 2 * g[x \div 2][y \div 2] + ((x % 2) * (y % 2))]

AndUpTo(g, n) == g = [x \in 0 .. n |-> AndStep(g, x)]

(* The step for x looks at x div 2 only.                                   *)
LEMMA AndStepBelow ==
  ASSUME NEW g, NEW h, NEW x \in Nat, x > 0 => g[x \div 2] = h[x \div 2]
  PROVE  AndStep(g, x) = AndStep(h, x)
BY DEF AndStep

(* A solution up to n satisfies the equation at every x up to n.           *)
LEMMA AndAt ==
  ASSUME NEW g, NEW n, AndUpTo(g, n), NEW x \in 0 .. n
  PROVE  g[x] = AndStep(g, x)
<1> DEFINE G == [z \in 0 .. n |-> AndStep(g, z)]
<1>1. g = G
  BY DEF AndUpTo
<1>2. G[x] = AndStep(g, x)
  OBVIOUS
<1> HIDE DEF G
<1> QED
  BY <1>1, <1>2, Zenon

(* Half of a positive number is a smaller number.                          *)
LEMMA Half ==
  ASSUME NEW x \in Nat
  PROVE  x \div 2 \in Nat /\ (x > 0 => x \div 2 \in 0 .. x - 1)
OBVIOUS

(* Two solutions agree where both are solutions.                           *)
LEMMA AndUnique ==
  ASSUME NEW m \in Nat, NEW n \in Nat, m <= n, NEW g, NEW h, AndUpTo(g, m), AndUpTo(h, n)
  PROVE  \A x \in 0 .. m : g[x] = h[x]
<1> DEFINE S == {x \in Nat : x <= m => g[x] = h[x]}
<1>1. ASSUME NEW x \in Nat, \A y \in 0 .. x - 1 : y \in S
      PROVE  x \in S
  <2> SUFFICES ASSUME x <= m PROVE g[x] = h[x]
    OBVIOUS
  <2>1. x > 0 => g[x \div 2] = h[x \div 2]
    BY <1>1, Half
  <2>2. g[x] = AndStep(g, x) /\ h[x] = AndStep(h, x)
    <3>1. x \in 0 .. m /\ x \in 0 .. n
      OBVIOUS
    <3> QED BY <3>1, AndAt
  <2> QED BY <2>1, <2>2, AndStepBelow
<1> HIDE DEF S
<1>2. Nat \subseteq S
  BY <1>1, NatInduct
<1> QED
  BY <1>2 DEF S

(* There is a solution up to every n.                                      *)
LEMMA AndExists ==
  ASSUME NEW n \in Nat PROVE \E g : AndUpTo(g, n)
<1> DEFINE S == {m \in Nat : \E g : AndUpTo(g, m)}
<1>1. ASSUME NEW m \in Nat, \A k \in 0 .. m - 1 : k \in S
      PROVE  m \in S
  <2>1. CASE m = 0
    <3> DEFINE g == [x \in 0 .. m |-> [y \in Nat |-> 0]]
    <3>1. \A x \in 0 .. m : AndStep(g, x) = [y \in Nat |-> 0]
      BY <2>1 DEF AndStep
    <3>2. AndUpTo(g, m)
      BY <3>1, Zenon DEF AndUpTo
    <3> QED BY <3>2
  <2>2. CASE m > 0
    <3>1. m - 1 \in 0 .. m - 1
      BY <2>2
    <3>2. PICK h : AndUpTo(h, m - 1)
      BY <1>1, <3>1
    <3> DEFINE g == [x \in 0 .. m |-> AndStep(h, x)]
    <3>3. \A x \in 0 .. m - 1 : g[x] = h[x]
      BY <2>2, <3>2 DEF AndUpTo
    <3>4. \A x \in 0 .. m : AndStep(g, x) = AndStep(h, x)
      <4> TAKE x \in 0 .. m
      <4>1. x \in Nat /\ (x > 0 => x \div 2 \in 0 .. m - 1)
        BY Half
      <4>2. x > 0 => g[x \div 2] = h[x \div 2]
        BY <4>1, <3>3
      <4> HIDE DEF g
      <4> QED BY <4>1, <4>2, AndStepBelow
    <3>5. AndUpTo(g, m)
      BY <3>4, Zenon DEF AndUpTo
    <3> QED BY <3>5
  <2> QED BY <2>1, <2>2
<1> HIDE DEF S
<1>2. Nat \subseteq S
  BY <1>1, NatInduct
<1> QED
  BY <1>2 DEF S

(* BitAnd satisfies its equation.                                          *)
LEMMA BitAndIs == \A x \in Nat : BitAnd[x] = AndStep(BitAnd, x)
<1> DEFINE H == [n \in Nat |-> CHOOSE g : AndUpTo(g, n)]
           F == [x \in Nat |-> H[x][x]]
<1>1. \A n \in Nat : AndUpTo(H[n], n)
  BY AndExists, Zenon
<1> HIDE DEF H
<1>2. \A x \in Nat : F[x] = AndStep(F, x)
  <2> TAKE x \in Nat
  <2>1. F[x] = AndStep(H[x], x)
    <3>1. x \in 0 .. x /\ AndUpTo(H[x], x)
      BY <1>1
    <3> QED BY <3>1, AndAt
  <2>2. x > 0 => H[x][x \div 2] = F[x \div 2]
    <3> SUFFICES ASSUME x > 0 PROVE H[x][x \div 2] = F[x \div 2]
      OBVIOUS
    <3> DEFINE z == x \div 2
    <3>1. z \in Nat /\ z <= x /\ z \in 0 .. z
      BY Half
    <3> HIDE DEF z
    <3>2. AndUpTo(H[z], z) /\ AndUpTo(H[x], x)
      BY <1>1, <3>1
    <3>3. H[z][z] = H[x][z]
      BY <3>1, <3>2, AndUnique
    <3>4. H[x][z] = F[z]
      BY <3>1, <3>3
    <3> QED BY <3>4 DEF z
  <2> HIDE DEF F
  <2> QED BY <2>1, <2>2, AndStepBelow
<1>3. F = [x \in Nat |-> AndStep(F, x)]
  BY <1>2
<1> HIDE DEF F
<1>4. BitAnd = [x \in Nat |-> AndStep(BitAnd, x)]
  BY <1>3, Zenon DEF BitAnd, AndStep
<1> QED
  BY <1>4

(* The equation, digit by digit.                                           *)
LEMMA BitAndAt ==
  ASSUME NEW x \in Nat, NEW y \in Nat
  PROVE  BitAnd[x][y] = IF x = 0 \/ y = 0 THEN 0
                        ELSE 2 * BitAnd[x \div 2][y \div 2] + ((x % 2) * (y % 2))
BY BitAndIs, Zenon DEF AndStep

(* x & y is at most y.                                                     *)
LEMMA BitAndBound ==
  \A x \in Nat : \A y \in Nat : BitAnd[x][y] \in Nat /\ BitAnd[x][y] <= y
<1> DEFINE S == {x \in Nat : \A y \in Nat : BitAnd[x][y] \in Nat /\ BitAnd[x][y] <= y}
<1>1. ASSUME NEW x \in Nat, \A z \in 0 .. x - 1 : z \in S
      PROVE  x \in S
  <2> SUFFICES ASSUME NEW y \in Nat
               PROVE  BitAnd[x][y] \in Nat /\ BitAnd[x][y] <= y
    OBVIOUS
  <2>1. BitAnd[x][y] = IF x = 0 \/ y = 0 THEN 0
                       ELSE 2 * BitAnd[x \div 2][y \div 2] + ((x % 2) * (y % 2))
    BY BitAndAt
  <2>2. CASE x = 0 \/ y = 0
    BY <2>1, <2>2
  <2>3. CASE x > 0 /\ y > 0
    <3> DEFINE b == BitAnd[x \div 2][y \div 2]
    <3>1. b \in Nat /\ b <= y \div 2
      BY <1>1, <2>3, Half
    <3>2. BitAnd[x][y] = 2 * b + ((x % 2) * (y % 2))
      BY <2>1, <2>3
    <3> HIDE DEF b
    <3>3. x % 2 \in {0, 1} /\ y % 2 \in {0, 1} /\ y = 2 * (y \div 2) + (y % 2)
      OBVIOUS
    <3>4. (x % 2) * (y % 2) \in Nat /\ (x % 2) * (y % 2) <= y % 2
      BY <3>3
    <3> DEFINE h == y \div 2
               l == y % 2
               p == (x % 2) * (y % 2)
    <3>5. /\ b \in Nat /\ b <= h /\ h \in Nat /\ y = 2 * h + l /\ BitAnd[x][y] = 2 * b + p
          /\ l \in Nat /\ p \in Nat /\ p <= l
      BY <3>1, <3>2, <3>3, <3>4
    <3> HIDE DEF h, l, p
    <3> QED BY <3>5
  <2> QED BY <2>2, <2>3
<1> HIDE DEF S
<1>2. Nat \subseteq S
  BY <1>1, NatInduct
<1> QED
  BY <1>2 DEF S

(* The low bits of y select themselves: clearing them in x leaves a        *)
(* multiple of four.                                                       *)
LEMMA BitAndLow ==
  ASSUME NEW x \in Nat, NEW y \in Nat, y % 4 = 3
  PROVE  (x - BitAnd[x][y]) % 4 = 0
<1>1. \A u, v \in Nat : v % 2 = 1 => BitAnd[u][v] = 2 * BitAnd[u \div 2][v \div 2] + (u % 2)
  <2> TAKE u, v \in Nat
  <2> HAVE v % 2 = 1
  <2>1. v # 0
    OBVIOUS
  <2>2. CASE u = 0
    <3>1. u \div 2 = 0 /\ u % 2 = 0 /\ v \div 2 \in Nat
      BY <2>2
    <3>2. BitAnd[u][v] = 0 /\ BitAnd[u \div 2][v \div 2] = 0
      BY <2>2, <3>1, BitAndAt
    <3> QED BY <3>1, <3>2
  <2>3. CASE u # 0
    <3>1. (u % 2) * (v % 2) = u % 2
      OBVIOUS
    <3> QED BY <2>1, <2>3, <3>1, BitAndAt
  <2> QED BY <2>2, <2>3
<1> DEFINE b == BitAnd[(x \div 2) \div 2][(y \div 2) \div 2]
<1>2. /\ x \div 2 \in Nat /\ (x \div 2) \div 2 \in Nat
      /\ y \div 2 \in Nat /\ (y \div 2) \div 2 \in Nat
      /\ y % 2 = 1 /\ (y \div 2) % 2 = 1
  OBVIOUS
<1>3. b \in Nat
  BY <1>2, BitAndBound
<1>4. BitAnd[x][y] = 2 * (2 * b + ((x \div 2) % 2)) + (x % 2)
  BY <1>1, <1>2
<1> HIDE DEF b
<1>5. x = 2 * (2 * ((x \div 2) \div 2) + ((x \div 2) % 2)) + (x % 2)
  OBVIOUS
<1>6. x - BitAnd[x][y] = 4 * (((x \div 2) \div 2) - b)
  BY <1>2, <1>3, <1>4, <1>5
<1>7. \A k \in Int : (4 * k) % 4 = 0
  OBVIOUS
<1> QED
  BY <1>2, <1>3, <1>6, <1>7

(* What align_to promises for the alignments there are, powers of two or   *)
(* not: the offset does not shrink, and words stay on word boundaries.     *)
LEMMA AlignedIs ==
  ASSUME NEW o \in Nat, NEW a \in Nat \ {0}
  PROVE  /\ Aligned(o, a) \in Nat /\ Aligned(o, a) >= o
         /\ o % 4 = 0 /\ a % 4 = 0 => Aligned(o, a) % 4 = 0
<1>1. CASE IsAligned(a, o)
  BY <1>1 DEF Aligned
<1>2. CASE ~ IsAligned(a, o)
  <2> DEFINE x == o + a - 1
             y == a - 1
             b == BitAnd[x][y]
  <2>1. x \in Nat /\ y \in Nat /\ x = o + y
    OBVIOUS
  <2>2. Aligned(o, a) = x - b
    BY <1>2 DEF Aligned, AlignTo
  <2>3. a % 4 = 0 => y % 4 = 3
    OBVIOUS
  <2> HIDE DEF x, y
  <2>4. b \in Nat /\ b <= y
    BY <2>1, BitAndBound
  <2>5. a % 4 = 0 => (x - b) % 4 = 0
    BY <2>1, <2>3, BitAndLow
  <2> HIDE DEF b
  <2> QED BY <2>1, <2>2, <2>4, <2>5
<1> QED BY <1>1, <1>2

-----------------------------------------------------------------------------
(* The loop of ensure_computed_offsets, in the same way.                   *)
OffsetStep(g, slots, n) ==
  IF n = 0 THEN [offset |-> 0, align |-> 1]
  ELSE LET slot   == slots[n]
           before == g[n - 1]
       IN  [offset |-> Aligned(before.offset, slot.align) + slot.size,
            align  |-> IF slot.align > before.align THEN slot.align ELSE before.align]

OffsetsUpTo(g, slots, n) == g = [m \in 0 .. n |-> OffsetStep(g, slots, m)]

(* The step for n slots looks at n - 1 slots only.                         *)
LEMMA OffsetStepBelow ==
  ASSUME NEW g, NEW h, NEW slots, NEW n \in Nat, n > 0 => g[n - 1] = h[n - 1]
  PROVE  OffsetStep(g, slots, n) = OffsetStep(h, slots, n)
<1>1. CASE n = 0
  BY <1>1 DEF OffsetStep
<1>2. CASE n > 0
  <2>1. g[n - 1] = h[n - 1] /\ n # 0
    BY <1>2
  <2> QED BY <2>1, Zenon DEF OffsetStep
<1> QED BY <1>1, <1>2

(* The loop has a result behind every number of slots.                     *)
LEMMA OffsetsExist ==
  ASSUME NEW slots, NEW n \in Nat PROVE \E g : OffsetsUpTo(g, slots, n)
<1> DEFINE S == {m \in Nat : \E g : OffsetsUpTo(g, slots, m)}
<1>1. ASSUME NEW m \in Nat, \A k \in 0 .. m - 1 : k \in S
      PROVE  m \in S
  <2>1. CASE m = 0
    <3> DEFINE g == [x \in 0 .. m |-> [offset |-> 0, align |-> 1]]
    <3>1. \A x \in 0 .. m : OffsetStep(g, slots, x) = [offset |-> 0, align |-> 1]
      BY <2>1 DEF OffsetStep
    <3>2. OffsetsUpTo(g, slots, m)
      BY <3>1, Zenon DEF OffsetsUpTo
    <3> QED BY <3>2
  <2>2. CASE m > 0
    <3>1. m - 1 \in 0 .. m - 1
      BY <2>2
    <3>2. PICK h : OffsetsUpTo(h, slots, m - 1)
      BY <1>1, <3>1
    <3> DEFINE H == [x \in 0 .. m - 1 |-> OffsetStep(h, slots, x)]
               g == [x \in 0 .. m |-> OffsetStep(h, slots, x)]
    <3>3. h = H
      BY <3>2 DEF OffsetsUpTo
    <3>4. \A x \in 0 .. m - 1 : g[x] = H[x]
      OBVIOUS
    <3> HIDE DEF H
    <3>5. \A x \in 0 .. m - 1 : g[x] = h[x]
      BY <3>3, <3>4, Zenon
    <3>6. \A x \in 0 .. m : OffsetStep(g, slots, x) = OffsetStep(h, slots, x)
      <4> TAKE x \in 0 .. m
      <4>1. x \in Nat /\ (x > 0 => x - 1 \in 0 .. m - 1)
        OBVIOUS
      <4>2. x > 0 => g[x - 1] = h[x - 1]
        BY <4>1, <3>5
      <4> HIDE DEF g
      <4> QED BY <4>1, <4>2, OffsetStepBelow
    <3>7. OffsetsUpTo(g, slots, m)
      BY <3>6, Zenon DEF OffsetsUpTo
    <3> QED BY <3>7
  <2> QED BY <2>1, <2>2
<1> HIDE DEF S
<1>2. Nat \subseteq S
  BY <1>1, NatInduct
<1> QED
  BY <1>2 DEF S

(* ComputedOffsets satisfies its equation.                                 *)
LEMMA ComputedOffsetsIs ==
  ASSUME NEW slots, Len(slots) \in Nat, NEW n \in 0 .. Len(slots)
  PROVE  ComputedOffsets(slots)[n] = OffsetStep(ComputedOffsets(slots), slots, n)
<1>1. \E g : g = [m \in 0 .. Len(slots) |-> OffsetStep(g, slots, m)]
  BY OffsetsExist, Zenon DEF OffsetsUpTo
<1> DEFINE c == ComputedOffsets(slots)
           C == [m \in 0 .. Len(slots) |-> OffsetStep(c, slots, m)]
<1>2. c = C
  BY <1>1, Zenon DEF ComputedOffsets, OffsetStep
<1>3. C[n] = OffsetStep(c, slots, n)
  OBVIOUS
<1> HIDE DEF C
<1> QED
  BY <1>2, <1>3, Zenon

(* Before the first slot the offset is 0.                                  *)
LEMMA OffsetsFirst ==
  ASSUME NEW slots, Len(slots) \in Nat
  PROVE  /\ ComputedOffsets(slots)[0].offset = 0
         /\ ComputedOffsets(slots)[0].align = 1
<1>1. 0 \in 0 .. Len(slots)
  OBVIOUS
<1>2. ComputedOffsets(slots)[0] = [offset |-> 0, align |-> 1]
  BY <1>1, ComputedOffsetsIs, Zenon DEF OffsetStep
<1> QED
  BY <1>2

(* What one round of ensure_computed_offsets adds.                         *)
LEMMA OffsetsNext ==
  ASSUME NEW slots, Len(slots) \in Nat, NEW n \in 1 .. Len(slots)
  PROVE  LET c == ComputedOffsets(slots)
         IN  /\ c[n].offset = Aligned(c[n - 1].offset, slots[n].align) + slots[n].size
             /\ c[n].align = IF slots[n].align > c[n - 1].align THEN slots[n].align
                             ELSE c[n - 1].align
<1> DEFINE c == ComputedOffsets(slots)
           o == Aligned(c[n - 1].offset, slots[n].align) + slots[n].size
           a == IF slots[n].align > c[n - 1].align THEN slots[n].align ELSE c[n - 1].align
<1>1. n \in 0 .. Len(slots) /\ n # 0
  OBVIOUS
<1>2. c[n] = [offset |-> o, align |-> a]
  BY <1>1, ComputedOffsetsIs, Zenon DEF OffsetStep
<1> HIDE DEF o, a
<1>3. c[n].offset = o /\ c[n].align = a
  BY <1>2
<1> QED
  BY <1>3, Zenon DEF o, a

-----------------------------------------------------------------------------
(* The size and the alignment of a slot are whole words.                   *)
LEMMA SlotAt ==
  ASSUME NEW slots \in Seq(Slot), NEW n \in 1 .. Len(slots)
  PROVE  /\ slots[n].size \in Nat /\ slots[n].size % 4 = 0
         /\ slots[n].align \in Nat \ {0} /\ slots[n].align % 4 = 0
<1>1. slots[n] \in Slot
  OBVIOUS
<1>2. slots[n].size \in Bytes /\ slots[n].align \in Bytes \ {0}
  BY <1>1 DEF Slot
<1> QED
  BY <1>2 DEF Bytes

(* Every slot ends on a word boundary, and behind its predecessors by its  *)
(* own size at least.                                                      *)
LEMMA OffsetsApart ==
  ASSUME NEW slots \in Seq(Slot), NEW n \in 0 .. Len(slots)
  PROVE  LET c == ComputedOffsets(slots)
         IN  /\ c[n].offset \in Nat /\ c[n].offset % 4 = 0 /\ c[n].align \in Nat \ {0}
             /\ \A m \in 0 .. n - 1 : c[m].offset + slots[n].size <= c[n].offset
<1> DEFINE c == ComputedOffsets(slots)
           Good(k) == /\ c[k].offset \in Nat /\ c[k].offset % 4 = 0
                      /\ c[k].align \in Nat \ {0}
                      /\ \A m \in 0 .. k - 1 : c[m].offset + slots[k].size <= c[k].offset
           S == {k \in Nat : k <= Len(slots) => Good(k)}
<1>0. /\ c[0].offset = 0 /\ c[0].align = 1
      /\ \A k \in 1 .. Len(slots) :
            /\ c[k].offset = Aligned(c[k - 1].offset, slots[k].align) + slots[k].size
            /\ c[k].align = IF slots[k].align > c[k - 1].align THEN slots[k].align
                            ELSE c[k - 1].align
  BY OffsetsFirst, OffsetsNext
<1> HIDE DEF c
<1>1. ASSUME NEW k \in Nat, \A j \in 0 .. k - 1 : j \in S
      PROVE  k \in S
  <2> SUFFICES ASSUME k <= Len(slots) PROVE Good(k)
    OBVIOUS
  <2>1. CASE k = 0
    BY <1>0, <2>1
  <2>2. CASE k > 0
    <3> DEFINE p == c[k - 1]
               a == Aligned(p.offset, slots[k].align)
    <3>1. k - 1 \in 0 .. k - 1 /\ k - 1 <= Len(slots) /\ k \in 1 .. Len(slots)
      BY <2>2
    <3>2. /\ p.offset \in Nat /\ p.offset % 4 = 0 /\ p.align \in Nat \ {0}
          /\ \A m \in 0 .. k - 2 : c[m].offset + slots[k - 1].size <= p.offset
      <4>1. Good(k - 1)
        BY <1>1, <3>1
      <4>2. (k - 1) - 1 = k - 2
        OBVIOUS
      <4> QED BY <4>1, <4>2
    <3>3. /\ slots[k].size \in Nat /\ slots[k].size % 4 = 0
          /\ slots[k].align \in Nat \ {0} /\ slots[k].align % 4 = 0
      BY <3>1, SlotAt
    <3>4. /\ c[k].offset = a + slots[k].size
          /\ c[k].align = IF slots[k].align > p.align THEN slots[k].align ELSE p.align
      BY <1>0, <3>1
    <3>5. a \in Nat /\ a >= p.offset /\ a % 4 = 0
      BY <3>2, <3>3, AlignedIs
    <3> HIDE DEF a, p
    <3>6. \A m \in 0 .. k - 1 : c[m].offset \in Nat /\ c[m].offset <= p.offset
      <4> TAKE m \in 0 .. k - 1
      <4>1. CASE m = k - 1
        BY <4>1, <3>2 DEF p
      <4>2. CASE m # k - 1
        <5>1. m \in 0 .. k - 2 /\ m <= Len(slots) /\ k - 1 \in 1 .. Len(slots)
          BY <4>2
        <5>2. c[m].offset \in Nat
          BY <1>1, <5>1
        <5>3. slots[k - 1].size \in Nat
          BY <5>1, SlotAt
        <5>4. c[m].offset + slots[k - 1].size <= p.offset
          BY <3>2, <5>1
        <5> QED BY <5>2, <5>3, <5>4, <3>2
      <4> QED BY <4>1, <4>2
    <3>7. \A m \in 0 .. k - 1 : c[m].offset + slots[k].size <= c[k].offset
      BY <3>2, <3>3, <3>4, <3>5, <3>6, SMTT(20)
    <3>8. c[k].offset \in Nat /\ c[k].offset % 4 = 0
      <4>1. \A x, y \in Nat : x % 4 = 0 /\ y % 4 = 0 => x + y \in Nat /\ (x + y) % 4 = 0
        OBVIOUS
      <4> QED BY <3>3, <3>4, <3>5, <4>1
    <3>9. c[k].align \in Nat \ {0}
      BY <3>2, <3>3, <3>4
    <3> QED BY <3>7, <3>8, <3>9
  <2> QED BY <2>1, <2>2
<1> HIDE DEF S
<1>2. Nat \subseteq S
  BY <1>1, NatInduct
<1>3. n \in S
  BY <1>2
<1>4. Good(n)
  BY <1>3 DEF S
<1> QED
  BY <1>4 DEF c

-----------------------------------------------------------------------------
(* The frame of a function, in words: where a slot ends below the frame    *)
(* pointer, and the words kept for calls.                                  *)
Kept(f) == IF Code[f].call THEN 2 ELSE 0
Ends(f, s) == Offset(f, s) \div 4

(* The slots of a function are its own and, if it calls, two words.        *)
LEMMA SlotsOfIs ==
  ASSUME CodeOK, NEW f \in DOMAIN Code
  PROVE  /\ SlotsOf(f) \in Seq(Slot)
         /\ Len(Code[f].slots) \in Nat /\ Len(SlotsOf(f)) = Len(Code[f].slots) + Kept(f)
         /\ \A s \in 1 .. Len(Code[f].slots) : SlotsOf(f)[s] = Code[f].slots[s]
         /\ Code[f].call =>
              /\ SlotsOf(f)[Len(Code[f].slots) + 1].size = 4
              /\ SlotsOf(f)[Len(Code[f].slots) + 2].size = 4
<1> DEFINE sl == Code[f].slots
           w  == [size |-> 4, align |-> 4]
<1>1. sl \in Seq(Slot) /\ Code[f].call \in BOOLEAN
  BY DEF CodeOK
<1>2. w \in Slot
  BY DEF Slot, Bytes
<1>3. w.size = 4
  OBVIOUS
<1> HIDE DEF w, sl
<1>4. CASE Code[f].call
  <2>1. SlotsOf(f) = sl \o <<w, w>>
    BY <1>4 DEF SlotsOf, WithCallSlots, sl, w
  <2>2. /\ sl \o <<w, w>> \in Seq(Slot) /\ Len(sl) \in Nat
        /\ Len(sl \o <<w, w>>) = Len(sl) + 2
        /\ \A s \in 1 .. Len(sl) : (sl \o <<w, w>>)[s] = sl[s]
        /\ (sl \o <<w, w>>)[Len(sl) + 1] = w
        /\ (sl \o <<w, w>>)[Len(sl) + 2] = w
    BY <1>1, <1>2
  <2> QED BY <1>3, <1>4, <2>1, <2>2 DEF sl, Kept
<1>5. CASE ~ Code[f].call
  <2>1. SlotsOf(f) = sl
    BY <1>5 DEF SlotsOf, WithCallSlots, sl
  <2> QED BY <1>1, <1>5, <2>1 DEF sl, Kept
<1> QED
  BY <1>4, <1>5

(* Where the slots of a function end, in words: on the frame, each behind  *)
(* its predecessors, and below the two words kept for calls.               *)
LEMMA Placement ==
  ASSUME CodeOK, NEW f \in DOMAIN Code
  PROVE  /\ Adj(f) \in Nat /\ Kept(f) \in {0, 2} /\ Kept(f) <= Adj(f)
         /\ \A s \in DOMAIN Code[f].slots :
              /\ Offset(f, s) \in Nat /\ Ends(f, s) \in Nat /\ Offset(f, s) = 4 * Ends(f, s)
              /\ SlotWords(f, s) \in Nat /\ SlotWords(f, s) <= Ends(f, s)
              /\ Ends(f, s) + Kept(f) <= Adj(f)
         /\ \A s, t \in DOMAIN Code[f].slots :
              s < t => Ends(f, s) + SlotWords(f, t) <= Ends(f, t)
<1> DEFINE slots == SlotsOf(f)
           c == ComputedOffsets(slots)
           L == Len(Code[f].slots)
           N == Len(slots)
<1>k. /\ Kept(f) \in {0, 2} /\ Kept(f) \in Nat /\ (Kept(f) = 0 \/ Kept(f) = 2)
      /\ Kept(f) = 2 <=> Code[f].call
  BY DEF Kept
<1>d. DOMAIN Code[f].slots = 1 .. L /\ Code[f].csr \in Nat
  BY DEF CodeOK
<1>1. /\ slots \in Seq(Slot) /\ L \in Nat /\ N = L + Kept(f) /\ N \in Nat
      /\ \A s \in 1 .. L : slots[s] = Code[f].slots[s]
      /\ Code[f].call => slots[L + 1].size = 4 /\ slots[L + 2].size = 4
  BY SlotsOfIs, <1>k
<1>2. \A n \in 0 .. N :
        /\ c[n].offset \in Nat /\ c[n].offset % 4 = 0 /\ c[n].align \in Nat \ {0}
        /\ \A m \in 0 .. n - 1 : c[m].offset + slots[n].size <= c[n].offset
  BY <1>1, OffsetsApart
<1>3. \A n \in 1 .. N : slots[n].size \in Nat /\ slots[n].size % 4 = 0
  BY <1>1, SlotAt
<1>4. \A s \in 1 .. L : Offset(f, s) = c[s].offset /\ SlotWords(f, s) = slots[s].size \div 4
  BY <1>1 DEF Offset, SlotWords
<1>5. Adj(f) \in Nat /\ c[N].offset \div 4 <= Adj(f)
  <2> DEFINE z == SlotsSize(slots)
  <2>1. z \in Nat /\ z >= c[N].offset
    <3>1. c[N].offset \in Nat /\ c[N].align \in Nat \ {0}
      BY <1>1, <1>2
    <3>2. z = Aligned(c[N].offset, c[N].align)
      BY DEF SlotsSize
    <3> HIDE DEF z, c, N
    <3> QED BY <3>1, <3>2, AlignedIs
  <2>2. Adj(f) = ((z + (1 + Code[f].csr) + 1) - ((1 + Code[f].csr) + 1)) \div 4
    BY DEF Adj, Adjustment
  <2> HIDE DEF z, c
  <2>3. Adj(f) = z \div 4
    BY <1>d, <2>1, <2>2
  <2>4. c[N].offset \in Nat
    BY <1>1, <1>2
  <2> QED BY <2>1, <2>3, <2>4
<1> HIDE DEF slots, c, N, L
<1>6. Kept(f) = 2 => \A n \in 0 .. L : c[n].offset + 8 <= c[N].offset
  <2> SUFFICES ASSUME Kept(f) = 2, NEW n \in 0 .. L PROVE c[n].offset + 8 <= c[N].offset
    OBVIOUS
  <2>1. /\ N = L + 2 /\ L + 1 \in 0 .. N /\ N \in 0 .. N /\ n \in 0 .. N
        /\ n \in 0 .. (L + 1) - 1 /\ L + 1 \in 0 .. N - 1
        /\ slots[L + 1].size = 4 /\ slots[N].size = 4
    BY <1>1, <1>k
  <2>2. c[n].offset + 4 <= c[L + 1].offset /\ c[L + 1].offset + 4 <= c[N].offset
    BY <1>2, <2>1
  <2> QED BY <1>2, <2>1, <2>2
<1>7. \A n \in 0 .. L : c[n].offset <= c[N].offset
  <2> TAKE n \in 0 .. L
  <2>1. CASE n = N
    BY <1>2, <2>1
  <2>2. CASE n # N
    <3>1. n \in 0 .. N - 1 /\ N \in 1 .. N /\ N \in 0 .. N /\ n \in 0 .. N
      BY <1>1, <1>k, <2>2
    <3> QED BY <1>2, <1>3, <3>1
  <2> QED BY <2>1, <2>2
<1>8. ASSUME NEW s \in 1 .. L
      PROVE  /\ Offset(f, s) \in Nat /\ Ends(f, s) \in Nat /\ Offset(f, s) = 4 * Ends(f, s)
             /\ SlotWords(f, s) \in Nat /\ SlotWords(f, s) <= Ends(f, s)
             /\ Ends(f, s) + Kept(f) <= Adj(f)
  <2>1. s \in 0 .. N /\ s \in 1 .. N /\ 0 \in 0 .. s - 1 /\ 0 \in 0 .. N /\ s \in 0 .. L
    BY <1>1, <1>k
  <2> DEFINE o == c[s].offset
             e == c[N].offset
             z == slots[s].size
  <2>2. o \in Nat /\ o % 4 = 0 /\ z \in Nat /\ z % 4 = 0 /\ z <= o /\ e \in Nat
    <3>1. c[0].offset \in Nat /\ c[0].offset + z <= o /\ N \in 0 .. N
      BY <1>1, <1>2, <2>1
    <3> QED BY <1>2, <1>3, <2>1, <3>1
  <2>3. o <= e /\ (Kept(f) = 2 => o + 8 <= e)
    BY <1>6, <1>7, <2>1
  <2>4. Offset(f, s) = o /\ Ends(f, s) = o \div 4 /\ SlotWords(f, s) = z \div 4
    BY <1>4 DEF Ends
  <2>5. e \div 4 <= Adj(f) /\ Adj(f) \in Nat
    BY <1>5
  <2> HIDE DEF o, e, z
  <2>6. o \div 4 \in Nat /\ o = 4 * (o \div 4) /\ z \div 4 \in Nat /\ z \div 4 <= o \div 4
    BY <2>2
  <2>7. (o \div 4) + Kept(f) <= Adj(f)
    <3>1. CASE Kept(f) = 0
      BY <2>2, <2>3, <2>5, <3>1
    <3>2. CASE Kept(f) = 2
      BY <2>2, <2>3, <2>5, <3>2
    <3> QED BY <1>k, <3>1, <3>2
  <2> QED BY <2>2, <2>4, <2>6, <2>7
<1>9. ASSUME NEW s \in 1 .. L, NEW t \in 1 .. L, s < t
      PROVE  Ends(f, s) + SlotWords(f, t) <= Ends(f, t)
  <2>1. s \in 0 .. N /\ t \in 0 .. N /\ s \in 0 .. t - 1 /\ t \in 1 .. N
    BY <1>1, <1>k, <1>9
  <2> DEFINE o == c[s].offset
             e == c[t].offset
             z == slots[t].size
  <2>2. o \in Nat /\ o % 4 = 0 /\ e \in Nat /\ e % 4 = 0 /\ z \in Nat /\ z % 4 = 0 /\ o + z <= e
    BY <1>2, <1>3, <2>1
  <2>3. Ends(f, s) = o \div 4 /\ SlotWords(f, t) = z \div 4 /\ Ends(f, t) = e \div 4
    BY <1>4 DEF Ends
  <2> HIDE DEF o, e, z
  <2>4. (o \div 4) + (z \div 4) <= e \div 4
    BY <2>2
  <2> QED BY <2>3, <2>4
<1>10. Kept(f) <= Adj(f)
  <2>1. c[0].offset \in Nat /\ c[N].offset \in Nat /\ 0 \in 0 .. L
    BY <1>1, <1>2
  <2>2. Kept(f) = 2 => 8 <= c[N].offset
    BY <1>6, <2>1
  <2>3. CASE Kept(f) = 2
    BY <1>5, <2>1, <2>2, <2>3
  <2>4. CASE Kept(f) = 0
    BY <1>5, <2>4
  <2> QED BY <1>k, <2>3, <2>4
<1> QED
  BY <1>k, <1>d, <1>5, <1>8, <1>9, <1>10

-----------------------------------------------------------------------------
(* The address of word i of a slot, relative to the frame pointer: stores, *)
(* loads and `add r r9 slot' agree on it.                                  *)
Word(f, s, i) == i - Ends(f, s) - Kept(f)

(* Truncation plays no part for multiples of four.                         *)
LEMMA Quot4Is ==
  ASSUME NEW k \in Nat \ {0} PROVE Quot4(4 * k) = k /\ Quot4(-(4 * k)) = -k
BY DEF Quot4

(* A memory operand whose immediate is 4i bytes.                           *)
LEMMA MemImmIs ==
  ASSUME CodeOK, NEW f \in DOMAIN Code, NEW s \in DOMAIN Code[f].slots,
         NEW i \in 0 .. SlotWords(f, s) - 1
  PROVE  /\ MemImm(Offset(f, s), "i64", 4 * i, Code[f].call) = Word(f, s, i)
         /\ i = 0 => /\ MemImm(Offset(f, s), "none", 0, Code[f].call) = Word(f, s, 0)
                     /\ AddrImm(Offset(f, s), Code[f].call) = Word(f, s, 0)
<1> DEFINE o == Offset(f, s)
           e == Ends(f, s)
           k == Kept(f)
           call == Code[f].call
<1>1. /\ o \in Nat /\ e \in Nat /\ o = 4 * e /\ k \in {0, 2} /\ i \in Nat /\ i < e
      /\ call \in BOOLEAN /\ k = IF call THEN 2 ELSE 0
  BY Placement DEF Kept, CodeOK
<1>2. Word(f, s, i) = i - e - k /\ Word(f, s, 0) = 0 - e - k
  BY DEF Word
<1> HIDE DEF o, e, k, call
<1>3. Quot4(4 * i - o) = -(e - i)
  <2>1. e - i \in Nat \ {0} /\ 4 * i - o = -(4 * (e - i))
    BY <1>1
  <2> QED BY <2>1, Quot4Is
<1>4. Quot4(0 - o) = -e /\ Quot4(o) = e
  <2>1. e \in Nat \ {0} /\ 0 - o = -(4 * e)
    BY <1>1
  <2> QED BY <1>1, <2>1, Quot4Is
<1>5. MemImm(o, "i64", 4 * i, call) = i - e - k
  <2>1. MemImm(o, "i64", 4 * i, call) = Negative(Quot4(4 * i - o) - (IF call THEN 2 ELSE 0))
    BY DEF MemImm
  <2> QED BY <1>1, <1>3, <2>1 DEF Negative
<1>6. ASSUME i = 0
      PROVE  MemImm(o, "none", 0, call) = 0 - e - k /\ AddrImm(o, call) = 0 - e - k
  <2>1. MemImm(o, "none", 0, call) = Negative(Quot4(0 - o) - (IF call THEN 2 ELSE 0))
    BY DEF MemImm
  <2>2. MemImm(o, "none", 0, call) = 0 - e - k
    BY <1>1, <1>4, <2>1 DEF Negative
  <2>3. AddrImm(o, call) = 0 - e - k
    <3>1. AddrImm(o, call) = Negative(IF call THEN -e - 2 ELSE e)
      BY <1>4 DEF AddrImm
    <3> QED BY <1>1, <1>6, <3>1 DEF Negative
  <2> QED BY <2>2, <2>3
<1> QED
  BY <1>2, <1>5, <1>6 DEF o, call

(* The words of the slots are in the frame, below what is kept for calls,  *)
(* and no two of them coincide.                                            *)
LEMMA WordsApart ==
  ASSUME CodeOK, NEW f \in DOMAIN Code, NEW s \in DOMAIN Code[f].slots,
         NEW i \in 0 .. SlotWords(f, s) - 1
  PROVE  /\ Word(f, s, i) \in Int /\ -Adj(f) <= Word(f, s, i)
         /\ Word(f, s, i) < -Kept(f)
         /\ \A t \in DOMAIN Code[f].slots : \A j \in 0 .. SlotWords(f, t) - 1 :
              Word(f, s, i) = Word(f, t, j) => s = t /\ i = j
<1>1. /\ Adj(f) \in Nat /\ Kept(f) \in Nat
      /\ Ends(f, s) \in Nat /\ SlotWords(f, s) \in Nat /\ SlotWords(f, s) <= Ends(f, s)
      /\ Ends(f, s) + Kept(f) <= Adj(f)
  BY Placement
<1>2. Word(f, s, i) \in Int /\ -Adj(f) <= Word(f, s, i) /\ Word(f, s, i) < -Kept(f)
  BY <1>1 DEF Word
<1>3. ASSUME NEW t \in DOMAIN Code[f].slots, NEW j \in 0 .. SlotWords(f, t) - 1,
             Word(f, s, i) = Word(f, t, j)
      PROVE  s = t /\ i = j
  <2>1. /\ Ends(f, t) \in Nat /\ SlotWords(f, t) \in Nat
        /\ s < t => Ends(f, s) + SlotWords(f, t) <= Ends(f, t)
        /\ t < s => Ends(f, t) + SlotWords(f, s) <= Ends(f, s)
    BY Placement
  <2>2. i - Ends(f, s) = j - Ends(f, t)
    BY <1>1, <1>3, <2>1 DEF Word
  <2>3. ~ (s < t) /\ ~ (t < s)
    BY <1>1, <2>1, <2>2
  <2>4. s \in Nat /\ t \in Nat
    BY DEF CodeOK
  <2>5. s = t
    BY <2>3, <2>4
  <2> QED BY <1>1, <2>2, <2>5
<1> QED
  BY <1>2, <1>3

-----------------------------------------------------------------------------
(* The invariant of the frames: each begins where its caller's ends and    *)
(* lies above all frames before it; every function that calls finds its    *)
(* frame pointer and, once it has called, its return address; and every    *)
(* value stored in a slot is in the words of the slot.                     *)
Holds(m, a, v) == a \in DOMAIN m /\ m[a] = v

Vals   == UNION {[D -> Val] : D \in SUBSET Nat}
Frames == [fn : DOMAIN Code, fp : Nat, vals : Vals]

Stacked ==
  /\ stack \in Seq(Frames)
  /\ stack # <<>>
  /\ \A k \in 1 .. Len(stack) - 1 :
       /\ Code[stack[k].fn].call
       /\ stack[k].fp = stack[k + 1].fp - Adj(stack[k + 1].fn)
  /\ \A j, k \in 1 .. Len(stack) :
       j < k => stack[j].fp <= stack[k].fp - Adj(stack[k].fn)

Saved ==
  /\ \A k \in 1 .. Len(stack) :
       Code[stack[k].fn].call => Holds(mem, stack[k].fp - 2, stack[k].fp)
  /\ \A k \in 1 .. Len(stack) - 1 : Holds(mem, stack[k].fp - 1, k)

Stored ==
  \A k \in 1 .. Len(stack) : \A s \in DOMAIN stack[k].vals :
    /\ s \in DOMAIN Code[stack[k].fn].slots
    /\ SlotWords(stack[k].fn, s) \in {1, 4}
    /\ \A i \in 0 .. SlotWords(stack[k].fn, s) - 1 :
         Holds(mem, stack[k].fp + Word(stack[k].fn, s, i),
               stack[k].vals[s][SlotWords(stack[k].fn, s) - i])

FrameInv == Stacked /\ Saved /\ Stored /\ ReturnsHome

(* What Over reads.                                                        *)
LEMMA OverIs ==
  ASSUME NEW g, NEW m, NEW a
  PROVE  /\ a \in DOMAIN Over(g, m) <=> a \in DOMAIN g \/ a \in DOMAIN m
         /\ a \in DOMAIN g => Over(g, m)[a] = g[a]
         /\ a \notin DOMAIN g /\ a \in DOMAIN m => Over(g, m)[a] = m[a]
BY DEF Over

(* What Written reads.                                                     *)
LEMMA WrittenIs ==
  ASSUME NEW m, NEW b, NEW v, NEW a
  PROVE  /\ a \in DOMAIN Written(m, b, v) <=> a = b \/ a \in DOMAIN m
         /\ a = b => Written(m, b, v)[a] = v
         /\ a # b /\ a \in DOMAIN m => Written(m, b, v)[a] = m[a]
<1> DEFINE g == [x \in {b} |-> v]
<1>1. DOMAIN g = {b} /\ g[b] = v
  OBVIOUS
<1>2. Written(m, b, v) = Over(g, m)
  BY DEF Written
<1> HIDE DEF g
<1> QED
  BY <1>1, <1>2, OverIs

(* The types of a frame.                                                   *)
LEMMA FrameAt ==
  ASSUME CodeOK, Stacked, NEW k \in 1 .. Len(stack)
  PROVE  /\ stack[k].fn \in DOMAIN Code /\ stack[k].fp \in Nat
         /\ Adj(stack[k].fn) \in Nat /\ Kept(stack[k].fn) <= Adj(stack[k].fn)
         /\ stack[k].vals \in Vals
<1>1. stack[k] \in Frames
  BY DEF Stacked
<1>2. stack[k].fn \in DOMAIN Code /\ stack[k].fp \in Nat /\ stack[k].vals \in Vals
  BY <1>1 DEF Frames
<1> QED
  BY <1>2, Placement

(* A function that was just entered holds no values.                       *)
LEMMA NoVals == <<>> \in Vals /\ DOMAIN <<>> = {}
<1>1. <<>> \in [{} -> Val]
  OBVIOUS
<1>2. {} \in SUBSET Nat
  OBVIOUS
<1> QED
  BY <1>1, <1>2 DEF Vals

(* The outermost function starts with the invariant.                       *)
LEMMA InitFrame == CodeOK /\ Init => FrameInv
<1> SUFFICES ASSUME CodeOK, Init PROVE FrameInv
  OBVIOUS
<1> DEFINE q == Base + Adj(Main)
<1>1. Main \in DOMAIN Code /\ Adj(Main) \in Nat /\ q \in Nat
  BY Placement DEF CodeOK, Base
<1>2. /\ fp = q /\ landed = <<>>
      /\ stack = <<[fn |-> Main, fp |-> q, vals |-> <<>>]>>
      /\ Code[Main].call => mem = Written(<<>>, q - 2, q)
  BY DEF Init, Prologue, Entered
<1> HIDE DEF q
<1>3. <<>> \in Vals
  BY NoVals
<1>4. /\ Len(stack) = 1 /\ stack[1].fn = Main /\ stack[1].fp = q
      /\ stack[1].vals = <<>> /\ stack # <<>>
  BY <1>2
<1>5. Stacked
  <2>1. [fn |-> Main, fp |-> q, vals |-> <<>>] \in Frames
    BY <1>1, <1>3 DEF Frames
  <2>2. stack \in Seq(Frames)
    BY <1>2, <2>1
  <2> QED BY <1>4, <2>2 DEF Stacked
<1>6. Saved
  <2>1. Code[Main].call => Holds(mem, q - 2, q)
    BY <1>2, WrittenIs DEF Holds
  <2> QED BY <1>4, <2>1 DEF Saved
<1>7. Stored
  <2>1. DOMAIN stack[1].vals = {}
    BY <1>4
  <2> QED BY <1>4, <2>1 DEF Stored
<1>8. ReturnsHome
  BY <1>2, <1>4 DEF ReturnsHome, Top
<1> QED
  BY <1>5, <1>6, <1>7, <1>8 DEF FrameInv

(* A call writes the return address and the callee's frame pointer, above  *)
(* everything the frames hold.                                             *)
LEMMA CallFrame ==
  ASSUME CodeOK, FrameInv, NEW g \in DOMAIN Code, Call(g)
  PROVE  FrameInv'
<1> DEFINE L == Len(stack)
           q == fp + Adj(g)
           E == [fn |-> g, fp |-> q, vals |-> <<>>]
           m == Written(mem, fp - 1, L)
<1>1. /\ Stacked /\ Saved /\ Stored /\ fp = stack[L].fp
      /\ stack \in Seq(Frames) /\ L \in Nat /\ L >= 1
  BY DEF FrameInv, ReturnsHome, Top, Stacked
<1>2. /\ Code[stack[L].fn].call /\ stack' = Append(stack, E) /\ fp' = q /\ landed' = <<>>
      /\ mem' = IF Code[g].call THEN Written(m, q - 2, q) ELSE m
  BY DEF Call, Prologue, Entered, Top
<1>3. /\ stack[L].fn \in DOMAIN Code /\ fp \in Nat /\ Adj(stack[L].fn) \in Nat
      /\ Adj(stack[L].fn) >= 2
  <2>1. L \in 1 .. Len(stack)
    BY <1>1
  <2>2. Kept(stack[L].fn) = 2
    BY <1>2 DEF Kept
  <2> QED BY <1>1, <2>1, <2>2, FrameAt
<1>4. Adj(g) \in Nat /\ q \in Nat /\ (Code[g].call => q - 2 >= fp)
  <2>1. Adj(g) \in Nat /\ (Code[g].call => Adj(g) >= 2)
    BY Placement DEF Kept
  <2> QED BY <1>3, <2>1
<1> HIDE DEF q
<1>5. ASSUME NEW a \in Int, NEW v, Holds(mem, a, v), a < fp - 1
      PROVE  Holds(mem', a, v)
  <2>1. a # fp - 1 /\ (Code[g].call => a # q - 2)
    BY <1>3, <1>4, <1>5
  <2>2. a \in DOMAIN m /\ m[a] = v
    BY <1>5, <2>1, WrittenIs DEF Holds
  <2> HIDE DEF m
  <2> QED BY <1>2, <2>1, <2>2, WrittenIs DEF Holds
<1>6. Holds(mem', fp - 1, L)
  <2>1. fp - 1 \in DOMAIN m /\ m[fp - 1] = L
    BY WrittenIs
  <2>2. Code[g].call => fp - 1 # q - 2
    BY <1>3, <1>4
  <2> HIDE DEF m
  <2> QED BY <1>2, <2>1, <2>2, WrittenIs DEF Holds
<1>7. Code[g].call => Holds(mem', q - 2, q)
  BY <1>2, WrittenIs DEF Holds
<1>8. /\ stack' \in Seq(Frames) /\ Len(stack') = L + 1 /\ stack' # <<>>
      /\ \A k \in 1 .. L : stack'[k] = stack[k]
      /\ stack'[L + 1] = E
  <2>1. E \in Frames
    BY <1>4, NoVals DEF Frames
  <2> HIDE DEF E
  <2> QED BY <1>1, <1>2, <2>1
<1>9. E.fn = g /\ E.fp = q /\ E.vals = <<>>
  OBVIOUS
<1> HIDE DEF E, m
(* Where the frames end, and that the caller's is the last.                *)
<1>10. \A k \in 1 .. L :
         /\ stack[k].fp \in Nat /\ stack[k].fp <= fp
         /\ k < L => stack[k].fp <= fp - 2
  <2> TAKE k \in 1 .. L
  <2>1. stack[k].fp \in Nat
    BY <1>1, FrameAt
  <2>2. k < L => stack[k].fp <= stack[L].fp - Adj(stack[L].fn)
    BY <1>1 DEF Stacked
  <2>3. k < L \/ k = L
    BY <1>1
  <2> QED BY <1>1, <1>3, <2>1, <2>2, <2>3
<1>11. Stacked'
  <2>1. \A k \in 1 .. Len(stack') - 1 :
          /\ Code[stack'[k].fn].call
          /\ stack'[k].fp = stack'[k + 1].fp - Adj(stack'[k + 1].fn)
    <3> TAKE k \in 1 .. Len(stack') - 1
    <3>1. CASE k = L
      <4>1. stack'[k] = stack[L] /\ stack'[k + 1] = E
        BY <1>1, <1>8, <3>1
      <4>2. fp = q - Adj(g)
        BY <1>3, <1>4 DEF q
      <4> QED BY <1>1, <1>2, <1>9, <4>1, <4>2
    <3>2. CASE k # L
      <4>1. k \in 1 .. L - 1 /\ k \in 1 .. L /\ k + 1 \in 1 .. L
        BY <1>1, <1>8, <3>2
      <4>2. stack'[k] = stack[k] /\ stack'[k + 1] = stack[k + 1]
        BY <1>8, <4>1
      <4> QED BY <1>1, <4>1, <4>2 DEF Stacked
    <3> QED BY <3>1, <3>2
  <2>2. \A j, k \in 1 .. Len(stack') :
          j < k => stack'[j].fp <= stack'[k].fp - Adj(stack'[k].fn)
    <3> TAKE j, k \in 1 .. Len(stack')
    <3> HAVE j < k
    <3>1. CASE k = L + 1
      <4>1. j \in 1 .. L /\ stack'[k] = E
        BY <1>1, <1>8, <3>1
      <4>2. stack'[j] = stack[j] /\ stack[j].fp <= fp
        BY <1>8, <1>10, <4>1
      <4>3. fp = q - Adj(g)
        BY <1>3, <1>4 DEF q
      <4> QED BY <1>9, <4>1, <4>2, <4>3
    <3>2. CASE k # L + 1
      <4>1. j \in 1 .. L /\ k \in 1 .. L
        BY <1>1, <1>8, <3>2
      <4>2. stack'[j] = stack[j] /\ stack'[k] = stack[k]
        BY <1>8, <4>1
      <4> QED BY <1>1, <4>1, <4>2 DEF Stacked
    <3> QED BY <3>1, <3>2
  <2> QED BY <1>8, <2>1, <2>2 DEF Stacked
<1>12. Saved'
  <2>1. \A k \in 1 .. Len(stack') :
          Code[stack'[k].fn].call => Holds(mem', stack'[k].fp - 2, stack'[k].fp)
    <3> TAKE k \in 1 .. Len(stack')
    <3>1. CASE k = L + 1
      BY <1>7, <1>8, <1>9, <3>1
    <3>2. CASE k # L + 1
      <4>1. k \in 1 .. L /\ stack'[k] = stack[k]
        BY <1>1, <1>8, <3>2
      <4>2. Code[stack[k].fn].call => Holds(mem, stack[k].fp - 2, stack[k].fp)
        BY <1>1, <4>1 DEF Saved
      <4>3. stack[k].fp - 2 \in Int /\ stack[k].fp - 2 < fp - 1
        BY <1>3, <1>10, <4>1
      <4> QED BY <1>5, <4>1, <4>2, <4>3
    <3> QED BY <3>1, <3>2
  <2>2. \A k \in 1 .. Len(stack') - 1 : Holds(mem', stack'[k].fp - 1, k)
    <3> TAKE k \in 1 .. Len(stack') - 1
    <3>1. CASE k = L
      <4>1. stack'[k] = stack[L]
        BY <1>1, <1>8, <3>1
      <4> QED BY <1>1, <1>6, <3>1, <4>1
    <3>2. CASE k # L
      <4>1. k \in 1 .. L /\ k \in 1 .. L - 1 /\ k < L /\ stack'[k] = stack[k]
        BY <1>1, <1>8, <3>2
      <4>2. Holds(mem, stack[k].fp - 1, k)
        BY <1>1, <4>1 DEF Saved
      <4>3. stack[k].fp - 1 \in Int /\ stack[k].fp - 1 < fp - 1
        BY <1>3, <1>10, <4>1
      <4> QED BY <1>5, <4>1, <4>2, <4>3
    <3> QED BY <3>1, <3>2
  <2> QED BY <2>1, <2>2 DEF Saved
<1>13. Stored'
  <2> SUFFICES ASSUME NEW k \in 1 .. Len(stack'), NEW s \in DOMAIN stack'[k].vals
               PROVE  /\ s \in DOMAIN Code[stack'[k].fn].slots
                      /\ SlotWords(stack'[k].fn, s) \in {1, 4}
                      /\ \A i \in 0 .. SlotWords(stack'[k].fn, s) - 1 :
                           Holds(mem', stack'[k].fp + Word(stack'[k].fn, s, i),
                                 stack'[k].vals[s][SlotWords(stack'[k].fn, s) - i])
    BY DEF Stored
  <2>1. k # L + 1
    BY <1>8, <1>9, NoVals
  <2>2. k \in 1 .. L /\ stack'[k] = stack[k]
    BY <1>1, <1>8, <2>1
  <2> DEFINE f == stack[k].fn
             w == SlotWords(f, s)
  <2>3. /\ s \in DOMAIN Code[f].slots /\ w \in {1, 4}
        /\ \A i \in 0 .. w - 1 : Holds(mem, stack[k].fp + Word(f, s, i), stack[k].vals[s][w - i])
    BY <1>1, <2>2 DEF Stored
  <2>4. f \in DOMAIN Code
    BY <1>1, <2>2, FrameAt
  <2>5. ASSUME NEW i \in 0 .. w - 1
        PROVE  stack[k].fp + Word(f, s, i) \in Int /\ stack[k].fp + Word(f, s, i) < fp - 1
    <3>1. Word(f, s, i) \in Int /\ Word(f, s, i) < -Kept(f)
      BY <2>3, <2>4, WordsApart
    <3>2. Kept(f) \in {0, 2} /\ (k = L => Kept(f) = 2)
      BY <1>2 DEF Kept
    <3>3. k = L \/ k < L
      BY <1>1, <2>2
    <3>4. CASE k = L
      <4>1. stack[k].fp = fp
        BY <1>1, <3>4
      <4> QED BY <1>3, <3>1, <3>2, <3>4, <4>1
    <3>5. CASE k < L
      <4>1. stack[k].fp \in Nat /\ stack[k].fp <= fp - 2
        BY <1>10, <2>2, <3>5
      <4>2. Word(f, s, i) < 0
        BY <3>1, <3>2
      <4> QED BY <1>3, <3>1, <4>1, <4>2
    <3> QED BY <3>3, <3>4, <3>5
  <2> HIDE DEF f, w
  <2>6. \A i \in 0 .. w - 1 : Holds(mem', stack[k].fp + Word(f, s, i), stack[k].vals[s][w - i])
    BY <1>5, <2>3, <2>5
  <2> QED BY <2>2, <2>3, <2>6 DEF f, w
<1>14. ReturnsHome'
  <2>1. Top' = E
    BY <1>8 DEF Top
  <2> QED BY <1>2, <1>9, <2>1 DEF ReturnsHome
<1> QED
  BY <1>11, <1>12, <1>13, <1>14 DEF FrameInv

(* The words a store writes, and nothing else.                             *)
LEMMA StoreWrites ==
  ASSUME CodeOK, FrameInv, NEW s \in DOMAIN Code[Top.fn].slots, NEW v \in Val, Store(s, v)
  PROVE  LET f == Top.fn
             w == SlotWords(f, s)
         IN  /\ Len(v) = w /\ w \in {1, 4}
             /\ \A i \in 0 .. w - 1 : Holds(mem', fp + Word(f, s, i), v[w - i])
             /\ \A a, x : /\ Holds(mem, a, x)
                          /\ \A i \in 0 .. w - 1 : a # fp + Word(f, s, i)
                          => Holds(mem', a, x)
             /\ stack' = [stack EXCEPT ![Len(stack)].vals = Written(@, s, v)]
             /\ fp' = fp /\ landed' = landed
<1> DEFINE f == Top.fn
           w == SlotWords(f, s)
           addr(i) == fp + MemImm(Offset(f, s), StoreImm(w, i).kind, StoreImm(w, i).imm, Code[f].call)
           A == {addr(i) : i \in 0 .. w - 1}
           g == [a \in A |-> v[StoreImm(w, CHOOSE i \in 0 .. w - 1 : addr(i) = a).word]]
<1>1. /\ Len(v) = w /\ mem' = Over(g, mem)
      /\ stack' = [stack EXCEPT ![Len(stack)].vals = Written(@, s, v)]
      /\ fp' = fp /\ landed' = landed
  BY Zenon DEF Store
<1>2. w \in {1, 4}
  BY <1>1 DEF CodeOK
<1>3. f \in DOMAIN Code /\ fp \in Nat
  <2>1. Stacked /\ Len(stack) \in 1 .. Len(stack) /\ fp = Top.fp
    BY DEF FrameInv, Stacked, ReturnsHome
  <2> QED BY <2>1, FrameAt DEF Top
<1>4. \A i \in 0 .. w - 1 : addr(i) = fp + Word(f, s, i) /\ StoreImm(w, i).word = w - i
  <2> TAKE i \in 0 .. w - 1
  <2>1. StoreImm(w, i).kind = "i64" /\ StoreImm(w, i).imm = 4 * i /\ StoreImm(w, i).word = w - i
    BY DEF StoreImm
  <2>2. MemImm(Offset(f, s), "i64", 4 * i, Code[f].call) = Word(f, s, i)
    BY <1>3, MemImmIs
  <2> QED BY <2>1, <2>2
<1>5. \A i, j \in 0 .. w - 1 : addr(i) = addr(j) => i = j
  <2> TAKE i, j \in 0 .. w - 1
  <2> HAVE addr(i) = addr(j)
  <2>1. fp + Word(f, s, i) = fp + Word(f, s, j)
    BY <1>4
  <2>2. Word(f, s, i) \in Int /\ Word(f, s, j) \in Int
    BY <1>3, WordsApart
  <2>3. Word(f, s, i) = Word(f, s, j)
    BY <1>3, <2>1, <2>2
  <2> QED BY <1>3, <2>3, WordsApart
<1> HIDE DEF addr, w, f
<1>6. \A i \in 0 .. w - 1 : addr(i) \in DOMAIN g /\ g[addr(i)] = v[w - i]
  <2> TAKE i \in 0 .. w - 1
  <2>1. addr(i) \in A
    OBVIOUS
  <2>2. (CHOOSE j \in 0 .. w - 1 : addr(j) = addr(i)) = i
    BY <1>5
  <2>3. g[addr(i)] = v[StoreImm(w, i).word]
    BY <2>1, <2>2
  <2> QED BY <1>4, <2>1, <2>3
<1>7. DOMAIN g = A
  OBVIOUS
<1> HIDE DEF g
<1>8. \A i \in 0 .. w - 1 : Holds(mem', fp + Word(f, s, i), v[w - i])
  BY <1>1, <1>4, <1>6, OverIs DEF Holds
<1>9. ASSUME NEW a, NEW x, Holds(mem, a, x), \A i \in 0 .. w - 1 : a # fp + Word(f, s, i)
      PROVE  Holds(mem', a, x)
  <2>1. a \notin A
    BY <1>4, <1>9
  <2> QED BY <1>1, <1>7, <1>9, <2>1, OverIs DEF Holds
<1> QED
  BY <1>1, <1>2, <1>8, <1>9 DEF f, w

(* A store keeps the invariant: the words of other slots and of other      *)
(* frames lie elsewhere.                                                   *)
LEMMA StoreFrame ==
  ASSUME CodeOK, FrameInv, NEW s \in DOMAIN Code[Top.fn].slots, NEW v \in Val, Store(s, v)
  PROVE  FrameInv'
<1> DEFINE L == Len(stack)
           f == stack[L].fn
           w == SlotWords(f, s)
           b == stack[L].vals
           E == [stack[L] EXCEPT !.vals = Written(b, s, v)]
<1>1. /\ Stacked /\ Saved /\ Stored /\ fp = stack[L].fp
      /\ stack \in Seq(Frames) /\ L \in Nat /\ L >= 1 /\ L \in 1 .. L
  BY DEF FrameInv, ReturnsHome, Top, Stacked
<1>2. /\ s \in DOMAIN Code[f].slots /\ Len(v) = w /\ w \in {1, 4}
      /\ \A i \in 0 .. w - 1 : Holds(mem', fp + Word(f, s, i), v[w - i])
      /\ \A a, x : /\ Holds(mem, a, x)
                   /\ \A i \in 0 .. w - 1 : a # fp + Word(f, s, i)
                   => Holds(mem', a, x)
      /\ stack' = [stack EXCEPT ![L].vals = Written(@, s, v)]
      /\ fp' = fp /\ landed' = landed
  BY StoreWrites DEF Top
<1>3. /\ f \in DOMAIN Code /\ fp \in Nat /\ Adj(f) \in Nat /\ b \in Vals
  BY <1>1, FrameAt
<1>4. s \in Nat
  BY <1>2, <1>3 DEF CodeOK
<1>5. Written(b, s, v) \in Vals
  <2>1. PICK D \in SUBSET Nat : b \in [D -> Val]
    BY <1>3 DEF Vals
  <2>2. D \cup {s} \in SUBSET Nat
    BY <1>4
  <2>3. Written(b, s, v) \in [D \cup {s} -> Val]
    BY <2>1 DEF Written, Over
  <2> QED BY <2>2, <2>3 DEF Vals
<1>6. E \in Frames /\ E.fn = f /\ E.fp = fp /\ E.vals = Written(b, s, v)
  <2>1. stack[L] \in Frames
    BY <1>1
  <2> QED BY <1>1, <1>5, <2>1 DEF Frames
<1>7. /\ stack' = [stack EXCEPT ![L] = E] /\ stack' \in Seq(Frames) /\ Len(stack') = L
      /\ stack' # <<>> /\ stack'[L] = E
      /\ \A k \in 1 .. L : k # L => stack'[k] = stack[k]
  <2>1. stack' = [stack EXCEPT ![L] = E]
    BY <1>2
  <2> HIDE DEF E
  <2> QED BY <1>1, <1>6, <2>1
<1> HIDE DEF E
<1>8. \A k \in 1 .. L : stack'[k].fn = stack[k].fn /\ stack'[k].fp = stack[k].fp
  BY <1>1, <1>6, <1>7
<1>9. \A k \in 1 .. L : k < L => stack[k].fp \in Nat /\ stack[k].fp <= fp - Adj(f)
  BY <1>1, FrameAt DEF Stacked
<1>10. \A i \in 0 .. w - 1 :
         /\ Word(f, s, i) \in Int /\ -Adj(f) <= Word(f, s, i) /\ Word(f, s, i) < -Kept(f)
         /\ \A t \in DOMAIN Code[f].slots : \A j \in 0 .. SlotWords(f, t) - 1 :
              Word(f, s, i) = Word(f, t, j) => s = t /\ i = j
  BY <1>2, <1>3, WordsApart
<1> HIDE DEF f, w, b
(* What lies below the frame of the running function is not touched.       *)
<1>11. ASSUME NEW a \in Int, NEW x, Holds(mem, a, x), a < fp - Adj(f)
       PROVE  Holds(mem', a, x)
  <2>1. \A i \in 0 .. w - 1 : a # fp + Word(f, s, i)
    BY <1>3, <1>10, <1>11
  <2> QED BY <1>2, <1>11, <2>1
<1>12. Stacked'
  <2>1. \A k \in 1 .. L - 1 : k \in 1 .. L /\ k + 1 \in 1 .. L
    BY <1>1
  <2>2. \A k \in 1 .. L - 1 :
          /\ Code[stack'[k].fn].call
          /\ stack'[k].fp = stack'[k + 1].fp - Adj(stack'[k + 1].fn)
    BY <1>1, <1>8, <2>1 DEF Stacked
  <2>3. \A j, k \in 1 .. L :
          j < k => stack'[j].fp <= stack'[k].fp - Adj(stack'[k].fn)
    BY <1>1, <1>8 DEF Stacked
  <2> QED BY <1>7, <2>2, <2>3 DEF Stacked
<1>13. Saved'
  <2>1. \A k \in 1 .. L :
          Code[stack[k].fn].call => Holds(mem', stack[k].fp - 2, stack[k].fp)
    <3> SUFFICES ASSUME NEW k \in 1 .. L, Code[stack[k].fn].call
                 PROVE  Holds(mem', stack[k].fp - 2, stack[k].fp)
      OBVIOUS
    <3>1. Holds(mem, stack[k].fp - 2, stack[k].fp)
      BY <1>1 DEF Saved
    <3>2. CASE k = L
      <4>1. Kept(f) = 2 /\ stack[k].fp = fp
        BY <1>1, <3>2 DEF Kept, f
      <4>2. \A i \in 0 .. w - 1 : fp - 2 # fp + Word(f, s, i)
        BY <1>3, <1>10, <4>1
      <4> QED BY <1>2, <3>1, <4>1, <4>2
    <3>3. CASE k # L
      <4>1. stack[k].fp - 2 \in Int /\ stack[k].fp - 2 < fp - Adj(f)
        BY <1>1, <1>3, <1>9, <3>3
      <4> QED BY <1>11, <3>1, <4>1
    <3> QED BY <3>2, <3>3
  <2>2. \A k \in 1 .. L - 1 : Holds(mem', stack[k].fp - 1, k)
    <3> TAKE k \in 1 .. L - 1
    <3>1. Holds(mem, stack[k].fp - 1, k)
      BY <1>1 DEF Saved
    <3>2. k \in 1 .. L /\ k < L
      BY <1>1
    <3>3. stack[k].fp - 1 \in Int /\ stack[k].fp - 1 < fp - Adj(f)
      BY <1>3, <1>9, <3>2
    <3> QED BY <1>11, <3>1, <3>3
  <2>3. \A k \in 1 .. L - 1 : k \in 1 .. L
    BY <1>1
  <2> QED BY <1>7, <1>8, <2>1, <2>2, <2>3 DEF Saved
<1>14. Stored'
  <2> SUFFICES ASSUME NEW k \in 1 .. L, NEW t \in DOMAIN stack'[k].vals
               PROVE  /\ t \in DOMAIN Code[stack'[k].fn].slots
                      /\ SlotWords(stack'[k].fn, t) \in {1, 4}
                      /\ \A i \in 0 .. SlotWords(stack'[k].fn, t) - 1 :
                           Holds(mem', stack'[k].fp + Word(stack'[k].fn, t, i),
                                 stack'[k].vals[t][SlotWords(stack'[k].fn, t) - i])
    BY <1>7 DEF Stored
  <2>1. CASE k # L
    <3> DEFINE h == stack[k].fn
               z == SlotWords(h, t)
    <3>1. stack'[k] = stack[k]
      BY <1>7, <2>1
    <3>2. /\ t \in DOMAIN Code[h].slots /\ z \in {1, 4}
          /\ \A i \in 0 .. z - 1 : Holds(mem, stack[k].fp + Word(h, t, i), stack[k].vals[t][z - i])
      BY <1>1, <3>1 DEF Stored
    <3>3. h \in DOMAIN Code /\ Kept(h) \in {0, 2}
      BY <1>1, FrameAt DEF Kept
    <3>4. stack[k].fp \in Nat /\ stack[k].fp <= fp - Adj(f)
      BY <1>1, <1>9, <2>1
    <3>5. ASSUME NEW i \in 0 .. z - 1
          PROVE  stack[k].fp + Word(h, t, i) \in Int /\ stack[k].fp + Word(h, t, i) < fp - Adj(f)
      <4>1. Word(h, t, i) \in Int /\ Word(h, t, i) < -Kept(h)
        BY <3>2, <3>3, WordsApart
      <4>2. Word(h, t, i) < 0
        BY <3>3, <4>1
      <4> QED BY <1>3, <3>4, <4>1, <4>2
    <3> HIDE DEF h, z
    <3>6. \A i \in 0 .. z - 1 : Holds(mem', stack[k].fp + Word(h, t, i), stack[k].vals[t][z - i])
      BY <1>11, <3>2, <3>5
    <3> QED BY <3>1, <3>2, <3>6 DEF h, z
  <2>2. CASE k = L
    <3>1. stack'[k].fn = f /\ stack'[k].fp = fp /\ stack'[k].vals = Written(b, s, v)
      BY <1>6, <1>7, <2>2
    <3>2. CASE t = s
      <4>1. stack'[k].vals[t] = v
        BY <3>1, <3>2, WrittenIs
      <4> QED BY <1>2, <3>1, <3>2, <4>1 DEF w, f
    <3>3. CASE t # s
      <4>1. t \in DOMAIN b /\ stack'[k].vals[t] = b[t]
        BY <3>1, <3>3, WrittenIs
      <4> DEFINE z == SlotWords(f, t)
      <4>2. /\ t \in DOMAIN Code[f].slots /\ z \in {1, 4}
            /\ \A i \in 0 .. z - 1 : Holds(mem, fp + Word(f, t, i), b[t][z - i])
        BY <1>1, <4>1 DEF Stored, f, b
      <4>3. ASSUME NEW i \in 0 .. z - 1, NEW j \in 0 .. w - 1
            PROVE  fp + Word(f, t, i) # fp + Word(f, s, j)
        <5>1. Word(f, t, i) \in Int /\ Word(f, s, j) \in Int
          BY <1>3, <1>10, <4>2, WordsApart
        <5>2. Word(f, s, j) # Word(f, t, i)
          BY <1>10, <3>3, <4>2
        <5> QED BY <1>3, <5>1, <5>2
      <4> HIDE DEF z
      <4>4. \A i \in 0 .. z - 1 : Holds(mem', fp + Word(f, t, i), b[t][z - i])
        BY <1>2, <4>2, <4>3
      <4> QED BY <3>1, <4>1, <4>2, <4>4 DEF z
    <3> QED BY <3>2, <3>3
  <2> QED BY <2>1, <2>2
<1>15. ReturnsHome'
  <2>1. Top'.fp = fp /\ Len(stack') = Len(stack)
    BY <1>6, <1>7 DEF Top
  <2>2. landed # <<>> => landed = [pc |-> Len(stack), fp |-> fp]
    BY DEF FrameInv, ReturnsHome
  <2> QED BY <1>2, <2>1, <2>2 DEF ReturnsHome
<1> QED
  BY <1>12, <1>13, <1>14, <1>15 DEF FrameInv

(* What is left of the stack after a return.                               *)
LEMMA PrefixIs ==
  ASSUME NEW S, NEW q \in Seq(S), Len(q) > 1
  PROVE  LET r == SubSeq(q, 1, Len(q) - 1)
         IN  /\ r \in Seq(S) /\ Len(r) = Len(q) - 1 /\ r # <<>>
             /\ \A k \in 1 .. Len(q) - 1 : r[k] = q[k]
<1> DEFINE n == Len(q) - 1
           r == SubSeq(q, 1, n)
<1>1. n \in Nat /\ n >= 1 /\ n <= Len(q)
  OBVIOUS
<1>2. r = [k \in 1 .. n |-> q[k]]
  BY <1>1
<1> HIDE DEF n, r
<1>3. \A k \in 1 .. n : q[k] \in S
  BY <1>1
<1>4. r \in Seq(S) /\ Len(r) = n
  BY <1>1, <1>2, <1>3
<1>5. r # <<>>
  BY <1>1, <1>4
<1>6. \A k \in 1 .. n : r[k] = q[k]
  BY <1>2
<1> QED
  BY <1>4, <1>5, <1>6 DEF n, r

(* A return finds what the call and the caller's prologue left.            *)
LEMMA ReturnFrame ==
  ASSUME CodeOK, FrameInv, Return
  PROVE  FrameInv'
<1> DEFINE L == Len(stack)
           p == fp - Adj(Top.fn)
<1>1. /\ Stacked /\ Saved /\ Stored /\ fp = stack[L].fp /\ Top = stack[L]
      /\ stack \in Seq(Frames) /\ L \in Nat
  BY DEF FrameInv, ReturnsHome, Top, Stacked
<1>2. /\ L > 1 /\ fp' = mem[p - 2] /\ landed' = [pc |-> mem[p - 1], fp |-> mem[p - 2]]
      /\ stack' = SubSeq(stack, 1, L - 1) /\ mem' = mem
  BY DEF Return
<1>3. /\ L - 1 \in 1 .. L - 1 /\ L - 1 \in 1 .. L /\ (L - 1) + 1 = L
  BY <1>1, <1>2
<1>4. p = stack[L - 1].fp /\ Code[stack[L - 1].fn].call
  BY <1>1, <1>3 DEF Stacked
<1> HIDE DEF p
<1>5. mem[p - 2] = p /\ mem[p - 1] = L - 1
  BY <1>1, <1>3, <1>4 DEF Saved, Holds
<1>6. /\ stack' \in Seq(Frames) /\ Len(stack') = L - 1 /\ stack' # <<>>
      /\ \A k \in 1 .. L - 1 : stack'[k] = stack[k]
  BY <1>1, <1>2, PrefixIs
<1>7. /\ \A k \in 1 .. L - 1 : k \in 1 .. L
      /\ \A k \in 1 .. (L - 1) - 1 : k \in 1 .. L - 1 /\ k + 1 \in 1 .. L - 1
  BY <1>1, <1>2
<1>8. Stacked'
  BY <1>1, <1>6, <1>7 DEF Stacked
<1>9. Saved'
  BY <1>1, <1>2, <1>6, <1>7 DEF Saved
<1>10. Stored'
  BY <1>1, <1>2, <1>6, <1>7 DEF Stored
<1>11. ReturnsHome'
  <2>1. Top' = stack[L - 1]
    BY <1>3, <1>6 DEF Top
  <2> QED BY <1>2, <1>4, <1>5, <1>6, <2>1 DEF ReturnsHome
<1> QED
  BY <1>8, <1>9, <1>10, <1>11 DEF FrameInv

(* Every step keeps the invariant.                                         *)
LEMMA StepFrame == CodeOK /\ FrameInv /\ [Next]_vars => FrameInv'
<1> SUFFICES ASSUME CodeOK, FrameInv, [Next]_vars PROVE FrameInv'
  OBVIOUS
<1>1. CASE \E g \in DOMAIN Code : Call(g)
  BY <1>1, CallFrame
<1>2. CASE \E s \in DOMAIN Code[Top.fn].slots, v \in Val : Store(s, v)
  BY <1>2, StoreFrame
<1>3. CASE Return
  BY <1>3, ReturnFrame
<1>4. CASE UNCHANGED vars
  <2>1. mem' = mem /\ fp' = fp /\ stack' = stack /\ landed' = landed
    BY <1>4 DEF vars
  <2> QED BY <2>1 DEF FrameInv, Stacked, Saved, Stored, ReturnsHome, Top
<1> QED
  BY <1>1, <1>2, <1>3, <1>4 DEF Next

(* The loads of a slot and the pointer to it read the words that Stored    *)
(* speaks of.                                                              *)
LEMMA InvKept == CodeOK /\ FrameInv => SlotsKept
<1> SUFFICES ASSUME CodeOK, FrameInv PROVE SlotsKept
  OBVIOUS
<1> SUFFICES ASSUME NEW k \in DOMAIN stack, NEW s \in DOMAIN stack[k].vals
             PROVE  LET fr == stack[k]
                        w  == SlotWords(fr.fn, s)
                        p  == fr.fp + AddrImm(Offset(fr.fn, s), Code[fr.fn].call)
                    IN  /\ \A i \in 0 .. w - 1 : Loaded(fr, s, i) = fr.vals[s][LoadImm(w, i).word]
                        /\ p \in DOMAIN mem /\ mem[p] = fr.vals[s][w]
  BY DEF SlotsKept
<1> DEFINE fr == stack[k]
           f == fr.fn
           w == SlotWords(f, s)
           call == Code[f].call
<1>1. Stacked /\ Stored /\ k \in 1 .. Len(stack)
  BY DEF FrameInv, Stacked
<1>2. /\ s \in DOMAIN Code[f].slots /\ w \in {1, 4}
      /\ \A i \in 0 .. w - 1 : Holds(mem, fr.fp + Word(f, s, i), fr.vals[s][w - i])
  BY <1>1 DEF Stored
<1>3. f \in DOMAIN Code
  BY <1>1, FrameAt
<1>4. 0 \in 0 .. w - 1 /\ w - 0 = w
  BY <1>2
<1>5. AddrImm(Offset(f, s), call) = Word(f, s, 0)
  BY <1>2, <1>3, <1>4, MemImmIs
<1>6. /\ fr.fp + AddrImm(Offset(f, s), call) \in DOMAIN mem
      /\ mem[fr.fp + AddrImm(Offset(f, s), call)] = fr.vals[s][w]
  BY <1>2, <1>4, <1>5 DEF Holds
<1>7. ASSUME NEW i \in 0 .. w - 1
      PROVE  Loaded(fr, s, i) = fr.vals[s][LoadImm(w, i).word]
  <2> DEFINE o == LoadImm(w, i)
             j == w - o.word
  <2>1. /\ j \in 0 .. w - 1 /\ w - j = o.word
        /\ MemImm(Offset(f, s), o.kind, o.imm, call) = Word(f, s, j)
    <3>1. CASE w = 1
      <4>1. o.kind = "none" /\ o.imm = 0 /\ o.word = 1
        BY <3>1 DEF LoadImm
      <4>2. j = 0
        BY <3>1, <4>1
      <4>3. MemImm(Offset(f, s), "none", 0, call) = Word(f, s, 0)
        BY <1>2, <1>3, <1>4, MemImmIs
      <4> QED BY <3>1, <4>1, <4>2, <4>3
    <3>2. CASE w = 4
      <4>1. o.kind = "i64" /\ o.imm = 12 - 4 * i /\ o.word = i + 1
        BY <3>2 DEF LoadImm
      <4>2. j = 3 - i /\ j \in 0 .. w - 1 /\ o.imm = 4 * j /\ w - j = o.word
        BY <3>2, <4>1
      <4> HIDE DEF j, o
      <4>3. MemImm(Offset(f, s), "i64", 4 * j, call) = Word(f, s, j)
        BY <1>2, <1>3, <4>2, MemImmIs
      <4> QED BY <4>1, <4>2, <4>3
    <3> QED BY <1>2, <3>1, <3>2
  <2>2. Holds(mem, fr.fp + Word(f, s, j), fr.vals[s][o.word])
    <3> HIDE DEF j, w, f, o
    <3> QED BY <1>2, <2>1
  <2> HIDE DEF o, j
  <2>3. Loaded(fr, s, i) = IF fr.fp + MemImm(Offset(f, s), o.kind, o.imm, call) \in DOMAIN mem
                           THEN mem[fr.fp + MemImm(Offset(f, s), o.kind, o.imm, call)]
                           ELSE <<"unwritten", fr.fp + MemImm(Offset(f, s), o.kind, o.imm, call)>>
    BY Zenon DEF Loaded, o
  <2>4. Loaded(fr, s, i) = fr.vals[s][o.word]
    BY <2>1, <2>2, <2>3 DEF Holds
  <2> QED BY <2>4 DEF o
<1> QED
  BY <1>6, <1>7

-----------------------------------------------------------------------------
(* For every program of functions with word-sized slots, in every nesting  *)
(* of calls: a return lands behind the call that entered the function,     *)
(* with the caller's frame pointer (pro_epi_inserter).                     *)
THEOREM FrameReturnsHome ==
  ASSUME CodeOK PROVE Spec => []ReturnsHome
<1>1. Init => FrameInv
  BY InitFrame
<1>2. FrameInv /\ [Next]_vars => FrameInv'
  BY StepFrame
<1>3. FrameInv => ReturnsHome
  BY DEF FrameInv
<1> QED
  BY <1>1, <1>2, <1>3, PTL DEF Spec

(* For the same programs: what is stored in a slot is loaded from it, and  *)
(* found through the pointer to it, until the function returns, whatever   *)
(* else is stored or called; no slot overlaps another one, the words kept  *)
(* for calls or another frame (ensure_computed_offsets, eliminate_slot).   *)
THEOREM FrameSlotsKept ==
  ASSUME CodeOK PROVE Spec => []SlotsKept
<1>1. Init => FrameInv
  BY InitFrame
<1>2. FrameInv /\ [Next]_vars => FrameInv'
  BY StepFrame
<1>3. FrameInv => SlotsKept
  BY InvKept
<1> QED
  BY <1>1, <1>2, <1>3, PTL DEF Spec
=============================================================================
