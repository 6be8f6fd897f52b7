---------------------------- MODULE CoreMemProofs ----------------------------
(***************************************************************************)
(* For every program and heaps of any size: an object holds what its       *)
(* expression stands for as long as the program runs.                      *)
(*                                                                         *)
(* The values of a nested literal come first: the indices a number         *)
(* decomposes into lead back to the word of that number.  Then the heap:   *)
(* each function of the runtime leaves the words below the new object      *)
(* alone.  The invariant says where the words of an object are, which      *)
(* Contents alone does not: an object that ends behind the heap would be   *)
(* overwritten by the next one.                                            *)
(***************************************************************************)
EXTENDS CoreMem, U32ArithProofs, SequenceTheorems

(* The sizes of the dimensions: the product of those further in.           *)
SizeLoop(s, dims) ==
  s = [k \in 0 .. Len(dims) |-> IF k = 0 THEN 1 ELSE s[k - 1] * dims[k]]

LEMMA SizeAt ==
  ASSUME NEW dims \in Seq(Nat \ {0})
  PROVE  /\ Size(dims)[0] = 1
         /\ \A k \in 1 .. Len(dims) : Size(dims)[k] = Size(dims)[k - 1] * dims[k]
         /\ \A k \in 0 .. Len(dims) : Size(dims)[k] \in Nat \ {0}
<1> DEFINE G == [i \in Nat |-> [v \in Nat \ {0} |->
                   IF i \in 1 .. Len(dims) THEN v * dims[i] ELSE v]]
           n == Len(dims)
<1>1. n \in Nat /\ \A i \in 1 .. n : dims[i] \in Nat \ {0}
  OBVIOUS
<1>2. G \in [Nat -> [Nat \ {0} -> Nat \ {0}]]
  <2>1. ASSUME NEW i \in Nat, NEW v \in Nat \ {0}
        PROVE  (IF i \in 1 .. Len(dims) THEN v * dims[i] ELSE v) \in Nat \ {0}
    <3>1. CASE i \in 1 .. Len(dims)
      <4>1. dims[i] \in Nat \ {0}
        BY <3>1
      <4>2. \A a, b \in Nat \ {0} : a * b \in Nat \ {0}
        OBVIOUS
      <4> QED BY <3>1, <4>1, <4>2
    <3> QED BY <3>1
  <2> QED BY <2>1
<1>3. \A i \in 1 .. n, v \in Nat \ {0} : G[i][v] = v * dims[i]
  OBVIOUS
<1> HIDE DEF G
<1>4. PICK f \in [0 .. n -> Nat \ {0}] : IsLoop(f, n, 1, G)
  <2>1. 1 \in Nat \ {0}
    OBVIOUS
  <2> QED BY <1>1, <1>2, <2>1, LoopExists
<1>5. SizeLoop(f, dims)
  <2>1. ASSUME NEW i \in 0 .. n
        PROVE  f[i] = IF i = 0 THEN 1 ELSE f[i - 1] * dims[i]
    <3>1. f[i] = IF i = 0 THEN 1 ELSE G[i][f[i - 1]]
      BY <1>4 DEF IsLoop
    <3>2. i # 0 => i \in 1 .. n /\ f[i - 1] \in Nat \ {0}
      <4>1. n \in Nat
        BY <1>1
      <4> HIDE DEF n
      <4>2. i # 0 => i \in 1 .. n /\ i - 1 \in 0 .. n
        BY <4>1
      <4> QED BY <4>2
    <3>3. i # 0 => G[i][f[i - 1]] = f[i - 1] * dims[i]
      BY <1>3, <3>2
    <3> QED BY <3>1, <3>3
  <2> QED BY <2>1 DEF SizeLoop
<1> DEFINE p == CHOOSE q : SizeLoop(q, dims)
<1>6. SizeLoop(p, dims)
  BY <1>5, Zenon
<1>7. Size(dims) = p
  BY Zenon DEF Size, SizeLoop
<1> HIDE DEF p
<1>8. \A i \in 0 .. n : p[i] = IF i = 0 THEN 1 ELSE p[i - 1] * dims[i]
  <2> DEFINE q == [i \in 0 .. n |-> IF i = 0 THEN 1 ELSE p[i - 1] * dims[i]]
  <2>1. p = q
    BY <1>6 DEF SizeLoop
  <2>2. \A i \in 0 .. n : q[i] = IF i = 0 THEN 1 ELSE p[i - 1] * dims[i]
    OBVIOUS
  <2> HIDE DEF q
  <2> QED BY <2>1, <2>2
<1> DEFINE T == {i \in Nat : i <= n => p[i] \in Nat \ {0}}
<1>9. Nat \subseteq T
  <2>1. 0 \in T
    BY <1>8
  <2>2. ASSUME NEW i \in Nat, i \in T PROVE i + 1 \in T
    <3> SUFFICES ASSUME i + 1 <= n PROVE p[i + 1] \in Nat \ {0}
      OBVIOUS
    <3>1. p[i + 1] = p[i] * dims[i + 1] /\ p[i] \in Nat \ {0} /\ dims[i + 1] \in Nat \ {0}
      <4>1. i + 1 \in 1 .. n /\ i + 1 \in 0 .. n /\ i + 1 # 0 /\ (i + 1) - 1 = i
        BY <1>1
      <4> QED BY <1>1, <1>8, <2>2, <4>1
    <3>2. \A a, b \in Nat \ {0} : a * b \in Nat \ {0}
      OBVIOUS
    <3> QED BY <3>1, <3>2
  <2> HIDE DEF T
  <2> QED BY <2>1, <2>2, Ascend
<1>10. \A i \in 0 .. n : p[i] \in Nat \ {0}
  BY <1>9
<1>11. 0 \in 0 .. n /\ \A k \in 1 .. n : k \in 0 .. n /\ k # 0
  BY <1>1
<1> QED
  BY <1>7, <1>8, <1>10, <1>11

(* One digit more of a number in a mixed radix.                            *)
LEMMA MixedRadix ==
  ASSUME NEW s \in Nat \ {0}, NEW d \in Nat \ {0}, NEW e \in Nat
  PROVE  e % (s * d) = (e % s) + ((e \div s) % d) * s
<1> DEFINE q == e \div s
           r == e % s
           u == q \div d
           v == q % d
<1>1. q \in Int /\ r \in 0 .. s - 1 /\ e = s * q + r
  BY DivMod
<1>2. u \in Int /\ v \in 0 .. d - 1 /\ q = d * u + v
  BY <1>1, DivMod
<1> HIDE DEF q, r, u, v
<1>3. s * d \in Nat \ {0}
  OBVIOUS
<1>4. s * v + r \in 0 .. s * d - 1
  <2>1. s * v \in Nat /\ s * v <= s * (d - 1) /\ s * (d - 1) = s * d - s
    BY <1>2
  <2> QED BY <1>1, <1>3, <2>1
<1>5. e = (s * d) * u + (s * v + r)
  <2>1. s * q = s * (d * u) + s * v
    BY <1>1, <1>2
  <2>2. s * (d * u) = (s * d) * u
    BY <1>2
  <2> QED BY <1>1, <1>2, <2>1, <2>2
<1>6. e % (s * d) = s * v + r
  BY <1>2, <1>3, <1>4, <1>5, ModUnique
<1>7. s * v + r = r + v * s
  BY <1>1, <1>2
<1> QED
  BY <1>6, <1>7 DEF q, r, u, v

(* Adding the digits up gives the number back: the generated getelementptr *)
(* of value e of a nested literal is word e.                               *)
GepLoop(g, dims, ind) ==
  g = [k \in 0 .. Len(dims) |->
         IF k = 0 THEN 0 ELSE g[k - 1] + ind[k] * Size(dims)[k - 1]]

LEMMA GepIs ==
  ASSUME NEW dims \in Seq(Nat \ {0}), NEW e \in Nat
  PROVE  Gep(dims, Indices(dims, e)) = e % Size(dims)[Len(dims)]
<1> DEFINE n == Len(dims)
           s == Size(dims)
           ind == Indices(dims, e)
           f == [k \in 0 .. n |-> e % s[k]]
<1>1. /\ n \in Nat /\ \A k \in 1 .. n : dims[k] \in Nat \ {0}
      /\ s[0] = 1 /\ \A k \in 1 .. n : s[k] = s[k - 1] * dims[k]
      /\ \A k \in 0 .. n : s[k] \in Nat \ {0}
  BY SizeAt
<1>2. e \in Nat
  OBVIOUS
<1>3. \A k \in 1 .. n : ind[k] = (e \div s[k - 1]) % dims[k]
  BY DEF Indices
<1> HIDE DEF s, ind
<1>4. ASSUME NEW k \in 1 .. n
      PROVE  e % s[k] = (e % s[k - 1]) + ind[k] * s[k - 1]
  <2>1. k - 1 \in 0 .. n /\ s[k - 1] \in Nat \ {0} /\ dims[k] \in Nat \ {0}
    BY <1>1
  <2>2. e % (s[k - 1] * dims[k])
          = (e % s[k - 1]) + ((e \div s[k - 1]) % dims[k]) * s[k - 1]
    BY <1>2, <2>1, MixedRadix
  <2>3. s[k] = s[k - 1] * dims[k] /\ ind[k] = (e \div s[k - 1]) % dims[k]
    BY <1>1, <1>3
  <2> QED BY <2>2, <2>3, Zenon
<1>5. e % 1 = 0
  BY <1>2
<1>6. ASSUME NEW k \in 0 .. n
      PROVE  f[k] = IF k = 0 THEN 0 ELSE f[k - 1] + ind[k] * s[k - 1]
  <2>1. CASE k = 0
    BY <1>1, <1>5, <2>1
  <2>2. CASE k # 0
    <3>1. k \in 1 .. n /\ k - 1 \in 0 .. n
      BY <1>1, <2>2
    <3>2. f[k] = e % s[k] /\ f[k - 1] = e % s[k - 1]
      BY <3>1
    <3> QED BY <1>4, <2>2, <3>1, <3>2
  <2> QED BY <2>1, <2>2
<1>7. GepLoop(f, dims, ind)
  <2> DEFINE q == [k \in 0 .. n |-> IF k = 0 THEN 0 ELSE f[k - 1] + ind[k] * s[k - 1]]
  <2>1. f = q
    BY <1>6
  <2> QED BY <2>1 DEF GepLoop, s
<1> DEFINE p == CHOOSE g : GepLoop(g, dims, ind)
<1>8. GepLoop(p, dims, ind)
  BY <1>7, Zenon
<1>9. Gep(dims, ind) = p[n]
  BY Zenon DEF Gep, GepLoop
<1> HIDE DEF p
<1>10. \A k \in 0 .. n : p[k] = IF k = 0 THEN 0 ELSE p[k - 1] + ind[k] * s[k - 1]
  <2> DEFINE q == [k \in 0 .. n |-> IF k = 0 THEN 0 ELSE p[k - 1] + ind[k] * s[k - 1]]
  <2>1. p = q
    BY <1>8 DEF GepLoop, s
  <2>2. \A k \in 0 .. n : q[k] = IF k = 0 THEN 0 ELSE p[k - 1] + ind[k] * s[k - 1]
    OBVIOUS
  <2> HIDE DEF q
  <2> QED BY <2>1, <2>2
<1> HIDE DEF f
<1> DEFINE T == {k \in Nat : k <= n => p[k] = f[k]}
<1>11. Nat \subseteq T
  <2>1. 0 \in T
    BY <1>1, <1>6, <1>10
  <2>2. ASSUME NEW k \in Nat, k \in T PROVE k + 1 \in T
    <3> SUFFICES ASSUME k + 1 <= n PROVE p[k + 1] = f[k + 1]
      OBVIOUS
    <3>1. k + 1 \in 0 .. n /\ k + 1 # 0 /\ (k + 1) - 1 = k /\ p[k] = f[k]
      BY <1>1, <2>2
    <3> QED BY <1>6, <1>10, <3>1
  <2> HIDE DEF T
  <2> QED BY <2>1, <2>2, Ascend
<1>12. p[n] = e % s[n]
  <2>1. n \in 0 .. n /\ n <= n
    BY <1>1
  <2> QED BY <1>1, <1>11, <2>1 DEF f
<1> QED
  BY <1>9, <1>12 DEF ind, s

-----------------------------------------------------------------------------
(* The heap: want stands in h from word a on, or as a vector at a.         *)
Block(h, a, want) ==
  /\ a \in Nat \ {0} /\ a + Len(want) - 1 <= Len(h)
  /\ \A i \in 1 .. Len(want) : h[a + i - 1] = want[i]

VecAt(h, a, want) == a \in 1 .. Len(h) /\ h[a] = Len(want) /\ Block(h, a + 1, want)

(* h has all the words of g. *)
Extends(g, h) == Len(g) <= Len(h) /\ \A a \in 1 .. Len(g) : h[a] = g[a]

LEMMA ExtendsTwice ==
  ASSUME NEW f \in Seq(Nat), NEW g \in Seq(Nat), NEW h \in Seq(Nat),
         Extends(f, g), Extends(g, h)
  PROVE  Extends(f, h)
BY DEF Extends

LEMMA BlockKept ==
  ASSUME NEW g \in Seq(Nat), NEW h \in Seq(Nat), Extends(g, h),
         NEW a, NEW want \in Seq(Nat), Block(g, a, want)
  PROVE  Block(h, a, want)
<1>1. a \in Nat \ {0} /\ a + Len(want) - 1 <= Len(g) /\ Len(want) \in Nat
  BY DEF Block
<1>2. ASSUME NEW i \in 1 .. Len(want)
      PROVE  h[a + i - 1] = want[i]
  <2>1. a + i - 1 \in 1 .. Len(g)
    BY <1>1
  <2> QED BY <2>1 DEF Block, Extends
<1> QED
  BY <1>1, <1>2 DEF Block, Extends

LEMMA VecKept ==
  ASSUME NEW g \in Seq(Nat), NEW h \in Seq(Nat), Extends(g, h),
         NEW a, NEW want \in Seq(Nat), VecAt(g, a, want)
  PROVE  VecAt(h, a, want)
<1>1. Block(h, a + 1, want)
  BY BlockKept DEF VecAt
<1> QED
  BY <1>1 DEF VecAt, Extends

(* A function on the words of a heap is a heap of that length. *)
LEMMA IsHeap ==
  ASSUME NEW n \in Nat, NEW f \in [1 .. n -> Nat]
  PROVE  f \in Seq(Nat) /\ Len(f) = n
OBVIOUS

LEMMA IsFunction ==
  ASSUME NEW s \in Seq(Nat)
  PROVE  s = [i \in 1 .. Len(s) |-> s[i]]
OBVIOUS

LEMMA Inside ==
  ASSUME NEW a \in Nat \ {0}, NEW n \in Nat, NEW N \in Nat, a + n - 1 <= N, NEW i \in 1 .. n
  PROVE  a + i - 1 \in 1 .. N
OBVIOUS

LEMMA WordOf ==
  ASSUME NEW h \in Seq(Nat), NEW a \in Nat, NEW s \in Seq(Nat), Block(h, a, s),
         NEW i \in 1 .. Len(s)
  PROVE  a + i - 1 \in 1 .. Len(h) /\ h[a + i - 1] = s[i]
<1> DEFINE n == Len(s)
           N == Len(h)
<1>1. n \in Nat /\ N \in Nat
  OBVIOUS
<1>2. a \in Nat \ {0} /\ a + n - 1 <= N
  BY Zenon DEF Block
<1>3. h[a + i - 1] = s[i]
  BY Zenon DEF Block
<1>4. i \in 1 .. n
  OBVIOUS
<1> HIDE DEF n, N
<1>5. a + i - 1 \in 1 .. N
  BY <1>1, <1>2, <1>4, Inside
<1> QED
  BY <1>3, <1>5 DEF N

(* A vector of n elements behind the m words there are. *)
LEMMA VectorPlaces ==
  ASSUME NEW m \in Nat, NEW n \in Nat, NEW N, N = m + 1 + n, NEW a, a = m + 1
  PROVE  /\ a \in 1 .. N /\ a + 1 \in Nat /\ m < a + 1 /\ a < a + 1
         /\ (a + 1) + n - 1 <= N
OBVIOUS

LEMMA AtIs ==
  ASSUME NEW h \in Seq(Nat), NEW a
  PROVE  At(h, a) \in Nat /\ (a \in 1 .. Len(h) => At(h, a) = h[a])
BY DEF At, Unset

LEMMA MallocIs ==
  ASSUME NEW h \in Seq(Nat), NEW n \in Nat
  PROVE  /\ Malloc(h, n) \in Seq(Nat) /\ Len(Malloc(h, n)) = Len(h) + n
         /\ Extends(h, Malloc(h, n))
<1> DEFINE u == [i \in 1 .. n |-> Unset]
<1>1. u \in Seq(Nat) /\ Len(u) = n
  BY IsHeap DEF Unset
<1> HIDE DEF u
<1>2. /\ h \o u \in Seq(Nat) /\ Len(h \o u) = Len(h) + n
      /\ \A a \in 1 .. Len(h) : (h \o u)[a] = h[a]
  <2>1. /\ h \o u \in Seq(Nat) /\ Len(h \o u) = Len(h) + Len(u)
        /\ \A a \in 1 .. Len(h) + Len(u) : (h \o u)[a] =
              IF a <= Len(h) THEN h[a] ELSE u[a - Len(h)]
    BY <1>1, ConcatProperties
  <2>2. Len(h) \in Nat
    OBVIOUS
  <2>3. \A a \in 1 .. Len(h) : a \in 1 .. Len(h) + Len(u) /\ a <= Len(h)
    BY <1>1, <2>2
  <2> QED BY <1>1, <2>1, <2>3
<1>3. Malloc(h, n) = h \o u
  BY DEF Malloc, u
<1> QED
  BY <1>1, <1>2, <1>3 DEF Extends

LEMMA VectorNewIs ==
  ASSUME NEW h \in Seq(Nat), NEW n \in Nat
  PROVE  /\ VectorNew(h, n) \in Seq(Nat) /\ Len(VectorNew(h, n)) = Len(h) + 1 + n
         /\ Extends(h, VectorNew(h, n)) /\ VectorNew(h, n)[Top(h)] = n
<1> DEFINE g == Append(h, n)
<1>1. /\ g \in Seq(Nat) /\ Len(g) = Len(h) + 1 /\ g[Len(h) + 1] = n
      /\ Extends(h, g)
  BY DEF Extends
<1> HIDE DEF g
<1>2. /\ Malloc(g, n) \in Seq(Nat) /\ Len(Malloc(g, n)) = Len(g) + n
      /\ Extends(g, Malloc(g, n))
  BY <1>1, MallocIs
<1>3. VectorNew(h, n) = Malloc(g, n)
  BY DEF VectorNew, g
<1>4. Malloc(g, n)[Len(h) + 1] = n
  BY <1>1, <1>2 DEF Extends
<1> QED
  BY <1>1, <1>2, <1>3, <1>4, ExtendsTwice DEF Top

(* Storing a block above g. *)
LEMMA PutIs ==
  ASSUME NEW g \in Seq(Nat), NEW h \in Seq(Nat), Extends(g, h),
         NEW s \in Seq(Nat), NEW dst \in Nat, Len(g) < dst, dst + Len(s) - 1 <= Len(h)
  PROVE  /\ Put(h, dst, s) \in Seq(Nat) /\ Len(Put(h, dst, s)) = Len(h)
         /\ Extends(g, Put(h, dst, s)) /\ Block(Put(h, dst, s), dst, s)
<1> DEFINE p == Put(h, dst, s)
<1>1. DOMAIN h = 1 .. Len(h) /\ Len(h) \in Nat /\ Len(g) \in Nat /\ Len(s) \in Nat
  OBVIOUS
<1>a. Len(g) <= Len(h) /\ \A a \in 1 .. Len(g) : h[a] = g[a]
  BY DEF Extends
<1>2. p = [a \in 1 .. Len(h) |-> IF a \in dst .. dst + Len(s) - 1
                                 THEN s[a - dst + 1] ELSE h[a]]
  BY <1>1 DEF Put
<1>3. ASSUME NEW a \in 1 .. Len(h)
      PROVE  /\ p[a] \in Nat
             /\ a \in dst .. dst + Len(s) - 1 => p[a] = s[a - dst + 1]
             /\ a \notin dst .. dst + Len(s) - 1 => p[a] = h[a]
  <2>1. h[a] \in Nat
    OBVIOUS
  <2>2. ASSUME a \in dst .. dst + Len(s) - 1 PROVE s[a - dst + 1] \in Nat
    <3> DEFINE n == Len(s)
               k == a - dst + 1
    <3>1. n \in Nat /\ a \in dst .. dst + n - 1 /\ \A j \in 1 .. n : s[j] \in Nat
      BY <2>2
    <3> HIDE DEF n
    <3>2. k \in 1 .. n
      BY <3>1
    <3> HIDE DEF k
    <3>3. s[k] \in Nat
      BY <3>1, <3>2
    <3> QED BY <3>3 DEF k
  <2> QED BY <1>2, <2>1, <2>2
<1>4. p \in [1 .. Len(h) -> Nat]
  BY <1>2, <1>3
<1> HIDE DEF p
<1>5. p \in Seq(Nat) /\ Len(p) = Len(h)
  BY <1>1, <1>4, IsHeap
<1>6. Extends(g, p)
  <2>1. ASSUME NEW a \in 1 .. Len(g)
        PROVE  p[a] = g[a]
    <3>1. a \in 1 .. Len(h) /\ a \notin dst .. dst + Len(s) - 1 /\ h[a] = g[a]
      BY <1>1, <1>a
    <3> QED BY <1>3, <3>1
  <2> QED BY <1>5, <2>1 DEF Extends
<1>7. Block(p, dst, s)
  <2>1. ASSUME NEW i \in 1 .. Len(s)
        PROVE  p[dst + i - 1] = s[i]
    <3>1. /\ dst + i - 1 \in 1 .. Len(h) /\ dst + i - 1 \in dst .. dst + Len(s) - 1
          /\ (dst + i - 1) - dst + 1 = i
      BY <1>1
    <3> QED BY <1>3, <3>1
  <2> QED BY <1>1, <1>5, <2>1 DEF Block
<1> QED
  BY <1>5, <1>6, <1>7 DEF p

LEMMA PutOne ==
  ASSUME NEW g \in Seq(Nat), NEW h \in Seq(Nat), Extends(g, h),
         NEW dst \in Nat, Len(g) < dst, dst <= Len(h), NEW w \in Nat
  PROVE  LET p == Put(h, dst, <<w>>)
         IN  p \in Seq(Nat) /\ Len(p) = Len(h) /\ Extends(g, p)
<1> DEFINE v == <<w>>
<1>1. v \in Seq(Nat) /\ Len(v) = 1 /\ Len(h) \in Nat
  OBVIOUS
<1> HIDE DEF v
<1>2. dst + Len(v) - 1 <= Len(h)
  BY <1>1
<1>3. /\ Put(h, dst, v) \in Seq(Nat) /\ Len(Put(h, dst, v)) = Len(h)
      /\ Extends(g, Put(h, dst, v)) /\ Block(Put(h, dst, v), dst, v)
  <2>1. v \in Seq(Nat) /\ Len(g) < dst
    BY <1>1
  <2> QED BY <1>2, <2>1, PutIs
<1> QED
  BY <1>3 DEF v

LEMMA PutBelow ==
  ASSUME NEW h \in Seq(Nat), NEW s, NEW dst \in Nat, NEW a \in 1 .. Len(h), a < dst
  PROVE  Put(h, dst, s)[a] = h[a]
<1>1. DOMAIN h = 1 .. Len(h) /\ a \notin dst .. dst + Len(s) - 1
  OBVIOUS
<1> QED
  BY <1>1 DEF Put

LEMMA Places ==
  ASSUME NEW src \in Nat, NEW dst \in Nat, NEW n \in Nat, NEW i \in 1 .. n,
         NEW M \in Nat, NEW N \in Nat,
         0 < src, src + n - 1 <= M, M < dst, dst + n - 1 <= N, M <= N
  PROVE  /\ dst + i - 1 \in 1 .. N /\ dst + i - 1 \in dst .. dst + n - 1
         /\ src + (dst + i - 1) - dst = src + i - 1
         /\ src + i - 1 \in 1 .. M /\ src + i - 1 \in 1 .. N
OBVIOUS

(* A copy leaves the words below it alone. *)
LEMMA MemcpyBelow ==
  ASSUME NEW h \in Seq(Nat), NEW src, NEW dst \in Nat, NEW n \in Nat,
         NEW a \in 1 .. Len(h), a < dst
  PROVE  Memcpy(h, src, dst, n)[a] = h[a]
<1>1. DOMAIN h = 1 .. Len(h) /\ a \notin dst .. dst + n - 1
  OBVIOUS
<1> QED
  BY <1>1 DEF Memcpy

(* Copying n words to a place above g leaves g alone.                      *)
LEMMA MemcpyIs ==
  ASSUME NEW g \in Seq(Nat), NEW h \in Seq(Nat), Extends(g, h), NEW src,
         NEW dst \in Nat, NEW n \in Nat, Len(g) < dst
  PROVE  LET p == Memcpy(h, src, dst, n)
         IN  p \in Seq(Nat) /\ Len(p) = Len(h) /\ Extends(g, p)
<1> DEFINE p == Memcpy(h, src, dst, n)
<1>1. DOMAIN h = 1 .. Len(h) /\ Len(h) \in Nat /\ Len(g) \in Nat
  OBVIOUS
<1>2. Len(g) <= Len(h) /\ \A a \in 1 .. Len(g) : h[a] = g[a]
  BY DEF Extends
<1>3. p = [a \in 1 .. Len(h) |-> IF a \in dst .. dst + n - 1
                                 THEN At(h, src + a - dst) ELSE h[a]]
  BY <1>1 DEF Memcpy
<1>4. ASSUME NEW a \in 1 .. Len(h)
      PROVE  /\ p[a] \in Nat
             /\ a \notin dst .. dst + n - 1 => p[a] = h[a]
  <2>1. h[a] \in Nat /\ At(h, src + a - dst) \in Nat
    BY AtIs
  <2> QED BY <1>3, <2>1
<1>5. p \in [1 .. Len(h) -> Nat]
  BY <1>3, <1>4
<1> HIDE DEF p
<1>6. p \in Seq(Nat) /\ Len(p) = Len(h)
  BY <1>1, <1>5, IsHeap
<1>7. Extends(g, p)
  <2>1. ASSUME NEW a \in 1 .. Len(g)
        PROVE  p[a] = g[a]
    <3>1. a \in 1 .. Len(h) /\ a \notin dst .. dst + n - 1 /\ h[a] = g[a]
      BY <1>1, <1>2
    <3> QED BY <1>4, <3>1
  <2> QED BY <1>6, <2>1 DEF Extends
<1> QED
  BY <1>6, <1>7 DEF p

LEMMA BlockStays ==
  ASSUME NEW g \in Seq(Nat), NEW h \in Seq(Nat), Len(g) = Len(h),
         NEW a, NEW want \in Seq(Nat), Block(g, a, want),
         \A i \in 1 .. Len(want) : h[a + i - 1] = g[a + i - 1]
  PROVE  Block(h, a, want)
BY DEF Block

(* A block and one behind it. *)
LEMMA BlocksJoin ==
  ASSUME NEW h \in Seq(Nat), NEW a, NEW s \in Seq(Nat), NEW t \in Seq(Nat),
         Block(h, a, s), Block(h, a + Len(s), t)
  PROVE  Block(h, a, s \o t)
<1>1. /\ s \o t \in Seq(Nat) /\ Len(s \o t) = Len(s) + Len(t)
      /\ \A i \in 1 .. Len(s) + Len(t) :
            (s \o t)[i] = IF i <= Len(s) THEN s[i] ELSE t[i - Len(s)]
  BY ConcatProperties
<1>2. a \in Nat \ {0} /\ Len(s) \in Nat /\ Len(t) \in Nat /\ a + Len(s) + Len(t) - 1 <= Len(h)
  BY DEF Block
<1>3. ASSUME NEW i \in 1 .. Len(s) + Len(t)
      PROVE  h[a + i - 1] = (s \o t)[i]
  <2>1. CASE i <= Len(s)
    <3>1. i \in 1 .. Len(s)
      BY <1>2, <2>1
    <3>2. h[a + i - 1] = s[i]
      BY <3>1 DEF Block
    <3> QED BY <1>1, <2>1, <3>2
  <2>2. CASE ~ (i <= Len(s))
    <3>1. i - Len(s) \in 1 .. Len(t) /\ (a + Len(s)) + (i - Len(s)) - 1 = a + i - 1
      BY <1>2, <2>2
    <3>2. h[(a + Len(s)) + (i - Len(s)) - 1] = t[i - Len(s)]
      BY <3>1 DEF Block
    <3> QED BY <1>1, <2>2, <3>1, <3>2
  <2> QED BY <2>1, <2>2
<1>4. a + Len(s \o t) - 1 <= Len(h)
  BY <1>1, <1>2
<1> QED
  BY <1>1, <1>2, <1>3, <1>4 DEF Block

(* The part of a block a slice takes. *)
LEMMA BlockPart ==
  ASSUME NEW h \in Seq(Nat), NEW a, NEW s \in Seq(Nat), Block(h, a, s),
         NEW m \in Nat, NEW n \in Nat, m <= n, n <= Len(s)
  PROVE  /\ SubSeq(s, m + 1, n) \in Seq(Nat) /\ Len(SubSeq(s, m + 1, n)) = n - m
         /\ Block(h, a + m, SubSeq(s, m + 1, n))
<1> DEFINE t == SubSeq(s, m + 1, n)
<1>1. \A i \in m + 1 .. n : s[i] \in Nat
  <2>1. \A i \in m + 1 .. n : i \in 1 .. Len(s)
    OBVIOUS
  <2> QED BY <2>1
<1>2. /\ t \in Seq(Nat) /\ Len(t) = (IF m + 1 <= n THEN n - (m + 1) + 1 ELSE 0)
      /\ \A i \in 1 .. n - (m + 1) + 1 : t[i] = s[(m + 1) + i - 1]
  <2>1. m + 1 \in Int /\ n \in Int
    OBVIOUS
  <2> QED BY <1>1, <2>1, SubSeqProperties
<1> HIDE DEF t
<1>3. \A i \in 1 .. n - m : t[i] = s[i + m]
  <2>1. \A i \in 1 .. n - m : i \in 1 .. n - (m + 1) + 1 /\ (m + 1) + i - 1 = i + m
    OBVIOUS
  <2> QED BY <1>2, <2>1
<1>4. Len(t) = n - m
  BY <1>2
<1>5. t \in Seq(Nat)
  BY <1>2
<1>6. a \in Nat \ {0} /\ a + Len(s) - 1 <= Len(h)
  BY DEF Block
<1>7. ASSUME NEW i \in 1 .. Len(t)
      PROVE  h[(a + m) + i - 1] = t[i]
  <2>1. i \in 1 .. n - m /\ (a + m) + i - 1 = a + (i + m) - 1 /\ i + m \in 1 .. Len(s)
    BY <1>4, <1>6
  <2>2. h[a + (i + m) - 1] = s[i + m]
    BY <2>1 DEF Block
  <2> QED BY <1>3, <2>1, <2>2
<1>8. a + m \in Nat \ {0} /\ (a + m) + Len(t) - 1 <= Len(h)
  BY <1>4, <1>6
<1>9. Block(h, a + m, t)
  BY <1>7, <1>8 DEF Block
<1> QED
  BY <1>4, <1>5, <1>9 DEF t

(* What is copied from words that are there to a place above arrives. *)
LEMMA CopyFirst ==
  ASSUME NEW g \in Seq(Nat), NEW h \in Seq(Nat), Extends(g, h), NEW src,
         NEW dst \in Nat, Len(g) < dst, NEW t \in Seq(Nat),
         Block(g, src, t), dst + Len(t) - 1 <= Len(h)
  PROVE  LET p == Memcpy(h, src, dst, Len(t))
         IN  p \in Seq(Nat) /\ Len(p) = Len(h) /\ Extends(g, p) /\ Block(p, dst, t)
<1> DEFINE n == Len(t)
           p == Memcpy(h, src, dst, n)
<1>1. n \in Nat /\ Len(h) \in Nat /\ Len(g) \in Nat /\ Len(g) <= Len(h)
  BY DEF Extends
<1>2. src \in Nat /\ 0 < src /\ src + n - 1 <= Len(g) /\ dst + n - 1 <= Len(h)
  BY DEF Block
<1>3. \A a \in 1 .. Len(h) : a \in dst .. dst + n - 1 => p[a] = At(h, src + a - dst)
  BY DEF Memcpy
<1> HIDE DEF n
<1>4. p \in Seq(Nat) /\ Len(p) = Len(h) /\ Extends(g, p)
  <2> HIDE DEF p
  <2>1. LET z == Memcpy(h, src, dst, n)
        IN  z \in Seq(Nat) /\ Len(z) = Len(h) /\ Extends(g, z)
    BY <1>1, MemcpyIs
  <2> QED BY <2>1 DEF p
<1> HIDE DEF p
<1>5. ASSUME NEW i \in 1 .. n
      PROVE  p[dst + i - 1] = t[i]
  <2>1. /\ dst + i - 1 \in 1 .. Len(h) /\ dst + i - 1 \in dst .. dst + n - 1
        /\ src + (dst + i - 1) - dst = src + i - 1
        /\ src + i - 1 \in 1 .. Len(g) /\ src + i - 1 \in 1 .. Len(h)
    BY <1>1, <1>2, Places
  <2>2. p[dst + i - 1] = At(h, src + i - 1)
    BY <1>3, <2>1
  <2>3. h[src + i - 1] = g[src + i - 1] /\ g[src + i - 1] = t[i]
    BY <2>1 DEF Block, Extends, n
  <2> QED BY <2>1, <2>2, <2>3, AtIs
<1>6. dst \in Nat \ {0} /\ dst + n - 1 <= Len(p)
  BY <1>1, <1>2, <1>4
<1>7. Block(p, dst, t)
  BY <1>5, <1>6 DEF Block, n
<1> QED
  BY <1>4, <1>7 DEF p, n

(* Copying a block of g behind what has been copied already. *)
LEMMA CopyBehind ==
  ASSUME NEW g \in Seq(Nat), NEW h \in Seq(Nat), Extends(g, h), NEW src,
         NEW dst \in Nat, Len(g) < dst, NEW s \in Seq(Nat), NEW t \in Seq(Nat),
         Block(h, dst, s), Block(g, src, t), dst + Len(s) + Len(t) - 1 <= Len(h)
  PROVE  LET p == Memcpy(h, src, dst + Len(s), Len(t))
         IN  /\ p \in Seq(Nat) /\ Len(p) = Len(h) /\ Extends(g, p)
             /\ Block(p, dst, s \o t)
<1> DEFINE d == dst + Len(s)
           p == Memcpy(h, src, d, Len(t))
<1>1. d \in Nat /\ Len(g) < d /\ Len(t) \in Nat /\ Len(g) \in Nat /\ Len(s) \in Nat
  OBVIOUS
<1>2. d + Len(t) - 1 <= Len(h)
  OBVIOUS
<1>3. /\ p \in Seq(Nat) /\ Len(p) = Len(h) /\ Extends(g, p)
      /\ Block(p, d, t)
  <2> HIDE DEF d, p
  <2>1. LET z == Memcpy(h, src, d, Len(t))
        IN  z \in Seq(Nat) /\ Len(z) = Len(h) /\ Extends(g, z) /\ Block(z, d, t)
    BY <1>1, <1>2, CopyFirst
  <2> QED BY <2>1 DEF p
<1>4. ASSUME NEW i \in 1 .. Len(s)
      PROVE  p[dst + i - 1] = h[dst + i - 1]
  <2> DEFINE a == dst + i - 1
             k == Len(t)
  <2>1. a \in 1 .. Len(h) /\ a < d /\ d \in Nat /\ k \in Nat
    BY <1>1, <1>2
  <2> HIDE DEF a, d, k
  <2>2. DOMAIN h = 1 .. Len(h) /\ a \notin d .. d + k - 1
    BY <2>1
  <2>3. Memcpy(h, src, d, k)[a] = h[a]
    BY <2>1, <2>2 DEF Memcpy
  <2> QED BY <2>3 DEF a, k
<1> HIDE DEF p
<1>5. Block(p, dst, s)
  BY <1>3, <1>4, BlockStays
<1>6. Block(p, dst, s \o t)
  BY <1>3, <1>5, BlocksJoin DEF d
<1> QED
  BY <1>3, <1>6 DEF p, d

(* The loop that stores the values of a nested literal is one store.       *)
StoreLoop(g, h, dst, dims, values) ==
  g = [i \in 0 .. Len(values) |->
         IF i = 0 THEN h
         ELSE Put(g[i - 1], dst + Gep(dims, Indices(dims, i - 1)), <<values[i]>>)]

LEMMA StoreValuesIs ==
  ASSUME NEW h \in Seq(Nat), NEW dst \in Nat, NEW dims \in Seq(Nat \ {0}),
         NEW values \in Seq(Nat), Len(values) = Size(dims)[Len(dims)]
  PROVE  StoreValues(h, dst, dims, values) = Put(h, dst, values)
<1> DEFINE n == Len(values)
           Is(i) == [a \in 1 .. Len(h) |-> IF a \in dst .. dst + i - 1
                                           THEN values[a - dst + 1] ELSE h[a]]
           f == [i \in 0 .. n |-> Is(i)]
<1>1. n \in Nat /\ DOMAIN h = 1 .. Len(h) /\ Len(h) \in Nat
  OBVIOUS
<1>2. Is(0) = h
  <2>1. ASSUME NEW a \in 1 .. Len(h) PROVE a \notin dst .. dst + 0 - 1
    OBVIOUS
  <2>2. Is(0) = [a \in 1 .. Len(h) |-> h[a]]
    BY <2>1
  <2>3. h = [a \in 1 .. Len(h) |-> h[a]]
    BY <1>1
  <2> QED BY <2>2, <2>3
<1>3. ASSUME NEW i \in 1 .. n
      PROVE  Put(Is(i - 1), dst + Gep(dims, Indices(dims, i - 1)), <<values[i]>>) = Is(i)
  <2> DEFINE d == dst + (i - 1)
             v == values[i]
  <2>1. Gep(dims, Indices(dims, i - 1)) = i - 1
    <3>1. i - 1 \in Nat /\ i - 1 \in 0 .. Size(dims)[Len(dims)] - 1
      BY <1>1
    <3>2. Gep(dims, Indices(dims, i - 1)) = (i - 1) % Size(dims)[Len(dims)]
      BY <3>1, GepIs
    <3>3. Size(dims)[Len(dims)] \in Nat
      BY <1>1
    <3> QED BY <3>1, <3>2, <3>3, ModSmall
  <2>2. DOMAIN Is(i - 1) = 1 .. Len(h)
    OBVIOUS
  <2>3. Len(<<v>>) = 1 /\ <<v>>[1] = v
    OBVIOUS
  <2>4. Put(Is(i - 1), d, <<v>>)
          = [a \in 1 .. Len(h) |-> IF a \in d .. d + 1 - 1 THEN <<v>>[a - d + 1]
                                   ELSE Is(i - 1)[a]]
    <3> HIDE DEF Is, d, v
    <3> QED BY <2>2, <2>3 DEF Put
  <2>5. ASSUME NEW a \in 1 .. Len(h)
        PROVE  (IF a \in d .. d + 1 - 1 THEN <<v>>[a - d + 1] ELSE Is(i - 1)[a])
                 = (IF a \in dst .. dst + i - 1 THEN values[a - dst + 1] ELSE h[a])
    <3>1. CASE a = d
      <4>1. /\ a \in d .. d + 1 - 1 /\ a - d + 1 = 1
            /\ a \in dst .. dst + i - 1 /\ a - dst + 1 = i
        BY <3>1
      <4> HIDE DEF Is, d, v
      <4>2. (IF a \in d .. d + 1 - 1 THEN <<v>>[a - d + 1] ELSE Is(i - 1)[a]) = v
        BY <2>3, <4>1
      <4> QED BY <4>1, <4>2 DEF v
    <3>2. CASE a # d
      <4>1. /\ a \notin d .. d + 1 - 1
            /\ a \in dst .. dst + (i - 1) - 1 <=> a \in dst .. dst + i - 1
        BY <3>2
      <4>2. Is(i - 1)[a] = IF a \in dst .. dst + (i - 1) - 1
                           THEN values[a - dst + 1] ELSE h[a]
        OBVIOUS
      <4> HIDE DEF Is, d, v
      <4> QED BY <4>1, <4>2
    <3> QED BY <3>1, <3>2
  <2>6. Put(Is(i - 1), d, <<v>>) = Is(i)
    <3>1. Put(Is(i - 1), d, <<v>>)
          = [a \in 1 .. Len(h) |-> IF a \in dst .. dst + i - 1
                                   THEN values[a - dst + 1] ELSE h[a]]
      BY <2>4, <2>5
    <3> QED BY <3>1
  <2> HIDE DEF Is
  <2> QED BY <2>1, <2>6
<1> HIDE DEF Is
<1>4. ASSUME NEW i \in 0 .. n
      PROVE  f[i] = IF i = 0 THEN h
                    ELSE Put(f[i - 1], dst + Gep(dims, Indices(dims, i - 1)), <<values[i]>>)
  <2>1. CASE i = 0
    BY <1>2, <2>1
  <2>2. CASE i # 0
    <3>1. i \in 1 .. n /\ i - 1 \in 0 .. n
      BY <1>1, <2>2
    <3>2. f[i] = Is(i) /\ f[i - 1] = Is(i - 1)
      BY <3>1
    <3> QED BY <1>3, <2>2, <3>1, <3>2
  <2> QED BY <2>1, <2>2
<1>5. StoreLoop(f, h, dst, dims, values)
  <2> DEFINE q == [i \in 0 .. n |-> IF i = 0 THEN h
                    ELSE Put(f[i - 1], dst + Gep(dims, Indices(dims, i - 1)), <<values[i]>>)]
  <2>1. f = q
    BY <1>4
  <2> QED BY <2>1 DEF StoreLoop
<1> DEFINE p == CHOOSE g : StoreLoop(g, h, dst, dims, values)
<1>6. StoreLoop(p, h, dst, dims, values)
  BY <1>5, Zenon
<1>7. StoreValues(h, dst, dims, values) = p[n]
  BY Zenon DEF StoreValues, StoreLoop
<1> HIDE DEF p
<1>8. \A i \in 0 .. n :
        p[i] = IF i = 0 THEN h
               ELSE Put(p[i - 1], dst + Gep(dims, Indices(dims, i - 1)), <<values[i]>>)
  <2> DEFINE q == [i \in 0 .. n |-> IF i = 0 THEN h
                    ELSE Put(p[i - 1], dst + Gep(dims, Indices(dims, i - 1)), <<values[i]>>)]
  <2>1. p = q
    BY <1>6 DEF StoreLoop
  <2>2. \A i \in 0 .. n :
          q[i] = IF i = 0 THEN h
                 ELSE Put(p[i - 1], dst + Gep(dims, Indices(dims, i - 1)), <<values[i]>>)
    OBVIOUS
  <2> HIDE DEF q
  <2> QED BY <2>1, <2>2
<1> HIDE DEF f
<1> DEFINE T == {i \in Nat : i <= n => p[i] = f[i]}
<1>9. Nat \subseteq T
  <2>1. 0 \in T
    <3>1. 0 \in 0 .. n
      BY <1>1
    <3>2. p[0] = h
      BY <1>8, <3>1, Zenon
    <3>3. f[0] = h
      BY <1>4, <3>1, Zenon
    <3> QED BY <3>2, <3>3
  <2>2. ASSUME NEW i \in Nat, i \in T PROVE i + 1 \in T
    <3> SUFFICES ASSUME i + 1 <= n PROVE p[i + 1] = f[i + 1]
      OBVIOUS
    <3>1. i + 1 \in 0 .. n /\ i + 1 # 0 /\ (i + 1) - 1 = i /\ p[i] = f[i]
      BY <1>1, <2>2
    <3> QED BY <1>4, <1>8, <3>1
  <2> HIDE DEF T
  <2> QED BY <2>1, <2>2, Ascend
<1>10. p[n] = Is(n)
  <2>1. n \in 0 .. n /\ n <= n
    BY <1>1
  <2> QED BY <1>1, <1>9, <2>1 DEF f
<1>11. Is(n) = Put(h, dst, values)
  BY <1>1 DEF Is, Put
<1> QED
  BY <1>7, <1>10, <1>11

(* With any number of values the loop stays inside of the array. *)
LEMMA StoreValuesStays ==
  ASSUME NEW g \in Seq(Nat), NEW h \in Seq(Nat), Extends(g, h),
         NEW dst \in Nat, Len(g) < dst, NEW dims \in Seq(Nat \ {0}),
         dst + Size(dims)[Len(dims)] - 1 <= Len(h), NEW values \in Seq(Nat)
  PROVE  /\ StoreValues(h, dst, dims, values) \in Seq(Nat)
         /\ Extends(g, StoreValues(h, dst, dims, values))
<1> DEFINE n == Len(values)
           size == Size(dims)[Len(dims)]
           at(i) == dst + Gep(dims, Indices(dims, i - 1))
           S == {z \in Seq(Nat) : Len(z) = Len(h) /\ Extends(g, z)}
           G == [i \in Nat |-> [z \in S |->
                   IF i \in 1 .. n THEN Put(z, at(i), <<values[i]>>) ELSE z]]
<1>1. n \in Nat /\ h \in S /\ Len(h) \in Nat /\ Len(g) \in Nat
  OBVIOUS
<1>2. size \in Nat \ {0}
  <2>1. Len(dims) \in 0 .. Len(dims)
    OBVIOUS
  <2> QED BY <2>1, SizeAt
<1>3. ASSUME NEW i \in 1 .. n
      PROVE  at(i) \in Nat /\ Len(g) < at(i) /\ at(i) <= Len(h)
  <2> DEFINE r == (i - 1) % size
  <2>1. i - 1 \in Nat
    BY <1>1
  <2>2. Gep(dims, Indices(dims, i - 1)) = r
    BY <2>1, GepIs
  <2>3. r \in 0 .. size - 1
    <3> HIDE DEF size
    <3> QED BY <1>2, <2>1
  <2>4. dst + size - 1 <= Len(h)
    OBVIOUS
  <2>5. at(i) = dst + r
    BY <2>2
  <2>6. size \in Nat /\ Len(g) \in Nat /\ Len(h) \in Nat
    BY <1>1, <1>2
  <2> HIDE DEF at, r, size
  <2>7. dst + r \in Nat /\ Len(g) < dst + r /\ dst + r <= Len(h)
    BY <2>3, <2>4, <2>6
  <2> QED BY <2>5, <2>7
<1> HIDE DEF at, size
<1>4. ASSUME NEW i \in 1 .. n, NEW z \in S
      PROVE  Put(z, at(i), <<values[i]>>) \in S
  <2> DEFINE a == at(i)
             w == values[i]
  <2>1. z \in Seq(Nat) /\ Len(z) = Len(h) /\ Extends(g, z)
    OBVIOUS
  <2>2. a \in Nat /\ Len(g) < a /\ a <= Len(z)
    <3> HIDE DEF S
    <3> QED BY <1>3, <2>1
  <2>a. w \in Nat
    OBVIOUS
  <2> HIDE DEF a, w, S
  <2>3. LET p == Put(z, a, <<w>>)
        IN  p \in Seq(Nat) /\ Len(p) = Len(z) /\ Extends(g, p)
    BY <2>1, <2>2, <2>a, PutOne
  <2>4. Put(z, a, <<w>>) \in S
    BY <2>1, <2>3 DEF S
  <2> QED BY <2>4 DEF a, w
<1>5. G \in [Nat -> [S -> S]]
  <2> HIDE DEF S
  <2> QED BY <1>4
<1>6. \A i \in 1 .. n : \A z \in S : G[i][z] = Put(z, at(i), <<values[i]>>)
  OBVIOUS
<1> HIDE DEF S, G
<1>7. PICK f \in [0 .. n -> S] : IsLoop(f, n, h, G)
  BY <1>1, <1>5, LoopExists
<1>8. ASSUME NEW i \in 0 .. n
      PROVE  f[i] = IF i = 0 THEN h ELSE Put(f[i - 1], at(i), <<values[i]>>)
  <2>1. f[i] = IF i = 0 THEN h ELSE G[i][f[i - 1]]
    BY <1>7 DEF IsLoop
  <2>2. i # 0 => i \in 1 .. n /\ f[i - 1] \in S
    <3> HIDE DEF n
    <3>1. i # 0 => i \in 1 .. n /\ i - 1 \in 0 .. n
      BY <1>1
    <3> QED BY <1>7, <3>1
  <2> QED BY <1>6, <2>1, <2>2
<1>9. StoreLoop(f, h, dst, dims, values)
  <2> DEFINE q == [i \in 0 .. n |-> IF i = 0 THEN h
                                    ELSE Put(f[i - 1], at(i), <<values[i]>>)]
  <2>1. f = q
    BY <1>8
  <2> QED BY <2>1 DEF StoreLoop, at
<1> DEFINE p == CHOOSE q : StoreLoop(q, h, dst, dims, values)
<1>10. StoreLoop(p, h, dst, dims, values)
  BY <1>9, Zenon
<1>11. StoreValues(h, dst, dims, values) = p[n]
  BY Zenon DEF StoreValues, StoreLoop
<1> HIDE DEF p
<1>12. \A i \in 0 .. n :
         p[i] = IF i = 0 THEN h ELSE Put(p[i - 1], at(i), <<values[i]>>)
  <2> DEFINE q == [i \in 0 .. n |-> IF i = 0 THEN h
                                    ELSE Put(p[i - 1], at(i), <<values[i]>>)]
  <2>1. p = q
    BY <1>10 DEF StoreLoop, at
  <2>2. \A i \in 0 .. n :
          q[i] = IF i = 0 THEN h ELSE Put(p[i - 1], at(i), <<values[i]>>)
    OBVIOUS
  <2> HIDE DEF q
  <2> QED BY <2>1, <2>2
<1> DEFINE T == {i \in Nat : i <= n => p[i] \in S}
<1>a. h \in S
  BY <1>1
<1>13. Nat \subseteq T
  <2>1. 0 \in T
    <3>1. 0 \in 0 .. n
      BY <1>1
    <3>2. p[0] = h
      BY <1>12, <3>1, Zenon
    <3> QED BY <1>a, <3>2
  <2>2. ASSUME NEW i \in Nat, i \in T PROVE i + 1 \in T
    <3> SUFFICES ASSUME i + 1 <= n PROVE p[i + 1] \in S
      OBVIOUS
    <3>1. i + 1 \in 0 .. n /\ i + 1 \in 1 .. n /\ i + 1 # 0 /\ (i + 1) - 1 = i /\ p[i] \in S
      BY <1>1, <2>2
    <3> QED BY <1>4, <1>12, <3>1
  <2> HIDE DEF T
  <2> QED BY <2>1, <2>2, Ascend
<1>14. p[n] \in S
  BY <1>1, <1>13
<1> QED
  BY <1>11, <1>14 DEF S

-----------------------------------------------------------------------------
(* The inductive invariant: every sure object stands where it was made.    *)
Obj == [at : Nat \ {0}, vec : BOOLEAN, dims : Seq(Nat \ {0}), want : Seq(Nat),
        sure : BOOLEAN]

Holds(h, o) == IF o.vec THEN VecAt(h, o.at, o.want) ELSE Block(h, o.at, o.want)

(* An array literal has as many words as its dimensions say. *)
Shaped(dims, want) == dims # <<>> => Len(want) = Size(dims)[Len(dims)]

HeapInv ==
  /\ mem \in Seq(Nat) /\ objs \in Seq(Obj)
  /\ \A k \in 1 .. Len(objs) :
        objs[k].sure => Holds(mem, objs[k]) /\ Shaped(objs[k].dims, objs[k].want)

LEMMA HoldsKept ==
  ASSUME NEW g \in Seq(Nat), NEW h \in Seq(Nat), Extends(g, h), NEW o \in Obj, Holds(g, o)
  PROVE  Holds(h, o)
<1>1. o.want \in Seq(Nat)
  BY DEF Obj
<1>2. CASE o.vec
  BY <1>1, <1>2, VecKept DEF Holds
<1>3. CASE ~ o.vec
  BY <1>1, <1>3, BlockKept DEF Holds
<1> QED
  BY <1>2, <1>3

(* What an operation knows of an object it is given. *)
LEMMA ObjectIs ==
  ASSUME HeapInv, NEW o \in Objects
  PROVE  /\ o \in Obj /\ o.want \in Seq(Nat) /\ o.at \in Nat \ {0} /\ Data(o) \in Nat \ {0}
         /\ Block(mem, Data(o), o.want) /\ Count(o) = Len(o.want)
         /\ o.vec => VectorLen(mem, o.at) = Len(o.want)
         /\ o.dims \in Seq(Nat \ {0}) /\ o.vec \in BOOLEAN /\ Shaped(o.dims, o.want)
<1>1. PICK k \in 1 .. Len(objs) : o = objs[k]
  BY DEF Objects, HeapInv
<1>2. /\ o \in Obj /\ o.sure /\ Holds(mem, o) /\ mem \in Seq(Nat)
      /\ Shaped(o.dims, o.want)
  BY <1>1 DEF Objects, HeapInv
<1>3. /\ o.want \in Seq(Nat) /\ o.at \in Nat \ {0} /\ Len(o.want) \in Nat
      /\ o.dims \in Seq(Nat \ {0}) /\ o.vec \in BOOLEAN
  BY <1>2 DEF Obj
<1>4. CASE o.vec
  <2>1. VecAt(mem, o.at, o.want) /\ Data(o) = o.at + 1
    BY <1>2, <1>4 DEF Holds, Data, VectorData
  <2>2. Count(o) = VectorLen(mem, o.at)
    BY <1>4 DEF Count
  <2>3. VectorLen(mem, o.at) = Len(o.want)
    BY <1>2, <2>1, AtIs DEF VecAt, VectorLen
  <2> QED BY <1>2, <1>3, <2>1, <2>2, <2>3 DEF VecAt
<1>5. CASE ~ o.vec
  BY <1>2, <1>3, <1>5 DEF Holds, Data, Count
<1> QED
  BY <1>4, <1>5

(* A new object above the heap. *)
LEMMA MadeKeeps ==
  ASSUME HeapInv, NEW h \in Seq(Nat), Extends(mem, h), NEW want \in Seq(Nat),
         NEW vec \in BOOLEAN, NEW dims \in Seq(Nat \ {0}), NEW sure \in BOOLEAN,
         Made(h, vec, dims, want, sure), sure => Shaped(dims, want),
         sure => IF vec THEN VecAt(h, Top(mem), want) ELSE Block(h, Top(mem), want)
  PROVE  HeapInv'
<1> DEFINE o == [at |-> Top(mem), vec |-> vec, dims |-> dims, want |-> want, sure |-> sure]
<1>1. mem' = h /\ objs' = Append(objs, o)
  BY DEF Made
<1>2. mem \in Seq(Nat) /\ objs \in Seq(Obj) /\ Len(objs) \in Nat
  BY DEF HeapInv
<1>3. o \in Obj
  BY <1>2 DEF Obj, Top
<1>4. sure => Holds(h, o) /\ Shaped(o.dims, o.want)
  BY DEF Holds
<1>5. o.sure = sure
  OBVIOUS
<1> HIDE DEF o
<1>6. /\ objs' \in Seq(Obj) /\ Len(objs') = Len(objs) + 1
      /\ objs'[Len(objs) + 1] = o /\ \A k \in 1 .. Len(objs) : objs'[k] = objs[k]
  BY <1>1, <1>2, <1>3, AppendProperties
<1>7. ASSUME NEW k \in 1 .. Len(objs'), objs'[k].sure
      PROVE  Holds(mem', objs'[k]) /\ Shaped(objs'[k].dims, objs'[k].want)
  <2>1. CASE k = Len(objs) + 1
    BY <1>1, <1>4, <1>5, <1>6, <1>7, <2>1
  <2>2. CASE k # Len(objs) + 1
    <3>1. k \in 1 .. Len(objs)
      BY <1>2, <1>6, <2>2
    <3>2. objs'[k] = objs[k] /\ objs[k] \in Obj /\ objs[k].sure
      BY <1>2, <1>6, <1>7, <3>1
    <3>3. Holds(mem, objs[k]) /\ Shaped(objs[k].dims, objs[k].want)
      BY <3>1, <3>2 DEF HeapInv
    <3> QED BY <1>1, <1>2, <3>2, <3>3, HoldsKept
  <2> QED BY <2>1, <2>2
<1> QED
  BY <1>1, <1>6, <1>7 DEF HeapInv

(* What is no array literal has no dimensions. *)
LEMMA NoDims ==
  ASSUME NEW want
  PROVE  <<>> \in Seq(Nat \ {0}) /\ Shaped(<<>>, want)
BY DEF Shaped

LEMMA VecKeeps ==
  ASSUME HeapInv, NEW h \in Seq(Nat), Extends(mem, h), NEW want \in Seq(Nat),
         NEW sure \in BOOLEAN, Made(h, TRUE, <<>>, want, sure),
         sure => VecAt(h, Top(mem), want)
  PROVE  HeapInv'
BY NoDims, MadeKeeps

(* Values stored in fresh words, without and with a length. *)
LEMMA PlainMade ==
  ASSUME HeapInv, NEW s \in Seq(Nat),
         Build(Put(Malloc(mem, Len(s)), Top(mem), s), FALSE, s)
  PROVE  HeapInv'
<1> DEFINE g == Malloc(mem, Len(s))
           h == Put(g, Top(mem), s)
<1>1. mem \in Seq(Nat) /\ Len(mem) \in Nat /\ Len(s) \in Nat /\ Top(mem) = Len(mem) + 1
  BY DEF HeapInv, Top
<1>2. g \in Seq(Nat) /\ Len(g) = Len(mem) + Len(s) /\ Extends(mem, g)
  BY <1>1, MallocIs
<1> HIDE DEF g
<1>3. Top(mem) \in Nat /\ Len(mem) < Top(mem) /\ Top(mem) + Len(s) - 1 <= Len(g)
  BY <1>1, <1>2
<1>4. h \in Seq(Nat) /\ Extends(mem, h) /\ Block(h, Top(mem), s)
  BY <1>1, <1>2, <1>3, PutIs
<1>5. Made(h, FALSE, <<>>, s, TRUE)
  BY DEF Build, g
<1> HIDE DEF h
<1> QED
  BY <1>4, <1>5, NoDims, MadeKeeps

LEMMA VectorMade ==
  ASSUME HeapInv, NEW s \in Seq(Nat),
         Build(Put(VectorNew(mem, Len(s)), VectorData(Top(mem)), s), TRUE, s)
  PROVE  HeapInv'
<1> DEFINE g == VectorNew(mem, Len(s))
           h == Put(g, Top(mem) + 1, s)
<1>1. mem \in Seq(Nat) /\ Len(mem) \in Nat /\ Len(s) \in Nat /\ Top(mem) = Len(mem) + 1
  BY DEF HeapInv, Top
<1>2. /\ g \in Seq(Nat) /\ Len(g) = Len(mem) + 1 + Len(s) /\ Extends(mem, g)
      /\ g[Top(mem)] = Len(s)
  BY <1>1, VectorNewIs
<1> HIDE DEF g
<1>3. /\ Top(mem) + 1 \in Nat /\ Len(mem) < Top(mem) + 1 /\ Top(mem) \in 1 .. Len(g)
      /\ (Top(mem) + 1) + Len(s) - 1 <= Len(g) /\ Top(mem) < Top(mem) + 1
  BY <1>1, <1>2, VectorPlaces
<1>4. h \in Seq(Nat) /\ Len(h) = Len(g) /\ Extends(mem, h) /\ Block(h, Top(mem) + 1, s)
  <2> DEFINE d == Top(mem) + 1
  <2>1. mem \in Seq(Nat) /\ d \in Nat /\ Len(mem) < d /\ d + Len(s) - 1 <= Len(g)
    BY <1>1, <1>3
  <2> HIDE DEF d
  <2>2. /\ Put(g, d, s) \in Seq(Nat) /\ Len(Put(g, d, s)) = Len(g)
        /\ Extends(mem, Put(g, d, s)) /\ Block(Put(g, d, s), d, s)
    BY <1>2, <2>1, PutIs
  <2> QED BY <2>2 DEF d
<1>a. h[Top(mem)] = g[Top(mem)]
  BY <1>2, <1>3, PutBelow
<1>5. Made(h, TRUE, <<>>, s, TRUE)
  BY DEF Build, VectorData, g
<1> HIDE DEF h
<1>6. VecAt(h, Top(mem), s)
  <2>1. h[Top(mem)] = Len(s)
    BY <1>2, <1>a
  <2> QED BY <1>3, <1>4, <2>1 DEF VecAt
<1> QED
  BY <1>4, <1>5, <1>6, NoDims, MadeKeeps

-----------------------------------------------------------------------------
(* The operations, one lemma each.                                         *)
LEMMA AddressLiteralKeeps ==
  ASSUME HeapInv, NEW v \in FourWords, AddressLiteral(v)
  PROVE  HeapInv'
<1>1. v \in Seq(Nat) /\ Len(v) = 4
  BY HeapAssumption, IsHeap
<1> QED
  BY <1>1, PlainMade DEF AddressLiteral

LEMMA CastToAddressKeeps ==
  ASSUME HeapInv, NEW w \in HeapWords, CastToAddress(w)
  PROVE  HeapInv'
<1>1. w \in Nat
  BY HeapAssumption
<1> DEFINE v == <<0, 0, 0, w>>
<1>2. v \in Seq(Nat)
  BY <1>1
<1>3. Build(Put(Malloc(mem, Len(v)), Top(mem), v), FALSE, v)
  BY DEF CastToAddress
<1> HIDE DEF v
<1> QED
  BY <1>2, <1>3, PlainMade

LEMMA HashToFieldsKeeps ==
  ASSUME HeapInv, NEW o \in Objects, HashToFields(o)
  PROVE  HeapInv'
<1> DEFINE h == VectorNew(mem, 4)
           v == [i \in 1 .. 4 |-> At(h, o.at + i - 1)]
<1>1. ~ o.vec /\ Len(o.want) = 4
  BY DEF HashToFields, IsHash
<1>2. /\ o.want \in Seq(Nat) /\ o.at \in Nat \ {0} /\ Block(mem, o.at, o.want)
      /\ mem \in Seq(Nat)
  BY <1>1, ObjectIs DEF Data, HeapInv
<1>3. h \in Seq(Nat) /\ Extends(mem, h)
  BY <1>2, VectorNewIs
<1>4. Build(Put(h, VectorData(Top(mem)), v), TRUE, o.want)
  BY DEF HashToFields
<1>5. v = o.want
  <2> HIDE DEF h
  <2>1. Block(h, o.at, o.want)
    BY <1>2, <1>3, BlockKept
  <2>2. ASSUME NEW i \in 1 .. 4 PROVE At(h, o.at + i - 1) = o.want[i]
    <3>1. o.at \in Nat /\ i \in 1 .. Len(o.want)
      BY <1>1, <1>2
    <3>2. o.at + i - 1 \in 1 .. Len(h) /\ h[o.at + i - 1] = o.want[i]
      BY <1>2, <1>3, <2>1, <3>1, WordOf
    <3> QED BY <1>3, <3>2, AtIs
  <2>3. v = [i \in 1 .. 4 |-> o.want[i]]
    BY <2>2
  <2>4. o.want = [i \in 1 .. 4 |-> o.want[i]]
    <3>1. o.want = [i \in 1 .. Len(o.want) |-> o.want[i]]
      BY <1>2, IsFunction
    <3> QED BY <1>1, <3>1
  <2> QED BY <2>3, <2>4
<1>6. Build(Put(VectorNew(mem, Len(o.want)), VectorData(Top(mem)), o.want), TRUE, o.want)
  <2>1. h = VectorNew(mem, Len(o.want))
    BY <1>1
  <2> HIDE DEF h, v
  <2> QED BY <1>4, <1>5, <2>1
<1> QED
  BY <1>2, <1>6, VectorMade

LEMMA FieldToFieldsKeeps ==
  ASSUME HeapInv, NEW w \in HeapWords, FieldToFields(w)
  PROVE  HeapInv'
<1> DEFINE v == <<w>>
<1>1. v \in Seq(Nat) /\ Len(v) = 1
  BY HeapAssumption
<1>2. Build(Put(VectorNew(mem, 1), VectorData(Top(mem)), v), TRUE, v)
  BY DEF FieldToFields
<1> HIDE DEF v
<1> QED
  BY <1>1, <1>2, VectorMade

LEMMA AllocDynamicZeroKeeps ==
  ASSUME HeapInv, NEW n \in 0 .. MaxVec, AllocDynamicZero(n)
  PROVE  HeapInv'
<1>1. n \in Nat
  BY HeapAssumption
<1> DEFINE v == [i \in 1 .. n |-> 0]
<1>2. v \in Seq(Nat) /\ Len(v) = n
  BY <1>1, IsHeap
<1>3. Build(Put(VectorNew(mem, n), VectorData(Top(mem)), v), TRUE, v)
  BY DEF AllocDynamicZero, ZeroInit
<1> HIDE DEF v
<1> QED
  BY <1>2, <1>3, VectorMade

LEMMA AllocDynamicInitKeeps ==
  ASSUME HeapInv, NEW v \in Texts, AllocDynamicInit(v)
  PROVE  HeapInv'
BY HeapAssumption, VectorMade DEF AllocDynamicInit

LEMMA LiteralToMemoryArrayKeeps ==
  ASSUME HeapInv, NEW v \in WordLists, LiteralToMemoryArray(v)
  PROVE  HeapInv'
BY HeapAssumption, VectorMade DEF LiteralToMemoryArray

LEMMA StructLiteralKeeps ==
  ASSUME HeapInv, NEW v \in WordLists, StructLiteral(v)
  PROVE  HeapInv'
BY HeapAssumption, PlainMade DEF StructLiteral

LEMMA ArrayLiteralKeeps ==
  ASSUME HeapInv, NEW a \in Arrays, ArrayLiteral(a.dims, a.values)
  PROVE  HeapInv'
<1> DEFINE dims == a.dims
           values == a.values
           size == Size(dims)[Len(dims)]
           g == Malloc(mem, size)
           h == StoreValues(g, Top(mem), dims, values)
           sure == Len(values) = size
<1>1. dims \in Seq(Nat \ {0}) /\ values \in Seq(Nat)
  BY HeapAssumption
<1>2. mem \in Seq(Nat) /\ Top(mem) \in Nat /\ Len(mem) \in Nat /\ Top(mem) = Len(mem) + 1
  BY DEF HeapInv, Top
<1>3. size \in Nat
  <2>1. Len(dims) \in 0 .. Len(dims)
    BY <1>1
  <2> QED BY <1>1, <2>1, SizeAt
<1>4. Made(h, FALSE, dims, values, sure)
  BY DEF ArrayLiteral
<1>5. /\ sure \in BOOLEAN /\ (sure <=> Len(values) = size)
      /\ size = Size(dims)[Len(dims)]
  OBVIOUS
<1>a. sure => Shaped(dims, values)
  BY DEF Shaped
<1> HIDE DEF dims, values, sure, size
<1>6. g \in Seq(Nat) /\ Len(g) = Len(mem) + size /\ Extends(mem, g)
  BY <1>2, <1>3, MallocIs
<1> HIDE DEF g
<1>7. Len(mem) < Top(mem) /\ Top(mem) + Size(dims)[Len(dims)] - 1 <= Len(g)
  BY <1>2, <1>3, <1>5, <1>6
<1>8. h \in Seq(Nat) /\ Extends(mem, h)
  BY <1>1, <1>2, <1>6, <1>7, StoreValuesStays
<1>9. sure => Block(h, Top(mem), values)
  <2>1. SUFFICES ASSUME Len(values) = size PROVE Block(h, Top(mem), values)
    BY <1>5
  <2>2. h = Put(g, Top(mem), values)
    BY <1>1, <1>2, <1>5, <1>6, <2>1, StoreValuesIs
  <2>3. Top(mem) + Len(values) - 1 <= Len(g)
    BY <1>5, <1>7, <2>1
  <2>4. Block(Put(g, Top(mem), values), Top(mem), values)
    BY <1>1, <1>2, <1>6, <1>7, <2>3, PutIs
  <2> QED BY <2>2, <2>4
<1> HIDE DEF h
<1> QED
  BY <1>1, <1>4, <1>5, <1>a, <1>8, <1>9, MadeKeeps

LEMMA SignatureKeeps ==
  ASSUME HeapInv, Signature
  PROVE  HeapInv'
<1> DEFINE v == [i \in 1 .. 8 |-> ContextWord(13 + i - 1)]
           u == [i \in 1 .. 8 |-> 12 + i]
<1>1. v = u
  BY DEF ContextWord
<1>2. u \in Seq(Nat) /\ Len(u) = 8
  BY IsHeap
<1>3. Build(Put(VectorNew(mem, 8), VectorData(Top(mem)), v), TRUE, u)
  BY DEF Signature
<1> HIDE DEF v, u
<1> QED
  BY <1>1, <1>2, <1>3, VectorMade

LEMMA ContextAddressKeeps ==
  ASSUME HeapInv, NEW w \in {"sequence", "origin", "tx_hash"}, ContextAddress(w)
  PROVE  HeapInv'
<1> DEFINE index == CASE w = "sequence" -> 2 [] w = "origin" -> 8 [] w = "tx_hash" -> 17
           v == [i \in 1 .. 4 |-> ContextWord(index + i - 1)]
<1>1. index \in Nat \ {0}
  OBVIOUS
<1>2. Build(Put(Malloc(mem, 4), Top(mem), v), FALSE, v)
  BY DEF ContextAddress
<1> HIDE DEF index
<1>3. v \in Seq(Nat) /\ Len(v) = 4
  BY <1>1, IsHeap DEF ContextWord
<1> HIDE DEF v
<1> QED
  BY <1>2, <1>3, PlainMade

LEMMA ContextValueKeeps ==
  ASSUME HeapInv, NEW w \in {"block_number", "timestamp", "version", "chain_id", "nonce"},
         ContextValue(w)
  PROVE  HeapInv'
<1> DEFINE index == CASE w = "block_number" -> 0 [] w = "timestamp" -> 1
                      [] w = "version" -> 6 [] w = "chain_id" -> 7 [] w = "nonce" -> 12
           v == <<index>>
<1>1. index \in Nat
  OBVIOUS
<1>2. Build(Put(Malloc(mem, 1), Top(mem), <<ContextWord(index)>>), FALSE, v)
  BY DEF ContextValue
<1> HIDE DEF index
<1>3. v \in Seq(Nat) /\ Len(v) = 1 /\ v = <<ContextWord(index)>>
  BY <1>1 DEF ContextWord
<1> HIDE DEF v
<1> QED
  BY <1>2, <1>3, PlainMade

LEMMA TimesMonotone ==
  ASSUME NEW s \in Nat, NEW e \in Nat, NEW n \in Nat, NEW w \in Nat, s <= e, e <= n
  PROVE  s * w \in Nat /\ e * w \in Nat /\ s * w <= e * w /\ e * w <= n * w
<1>1. ASSUME NEW a \in Nat, NEW b \in Nat, a <= b PROVE a * w <= b * w
  <2>1. PICK d \in Nat : b = a + d
    <3>1. b - a \in Nat /\ b = a + (b - a)
      BY <1>1
    <3> QED BY <3>1
  <2>2. b * w = a * w + d * w /\ d * w \in Nat /\ a * w \in Nat
    BY <2>1
  <2> QED BY <2>2
<1>2. s * w \in Nat /\ e * w \in Nat
  OBVIOUS
<1> QED
  BY <1>1, <1>2

(* Of an array of one-word elements a slice takes a part; of an array of   *)
(* arrays it takes other words, which end up in the new vector all the     *)
(* same.                                                                   *)
LEMMA ArraySliceKeeps ==
  ASSUME HeapInv, NEW o \in Objects, Sliceable(o), NEW s \in 0 .. ArrayLength(o) + 1,
         NEW e \in 0 .. ArrayLength(o) + 1, ArraySlice(o, s, e)
  PROVE  HeapInv'
<1> DEFINE row == Row(o)
           want == SubSeq(o.want, s * row + 1, e * row)
           g == VectorNew(mem, e - s)
           h == Memcpy(g, Data(o) + s, Top(mem) + 1, e - s)
           all == o.want
           n == ArrayLength(o)
           sure == row = 1
<1>1. /\ all \in Seq(Nat) /\ Data(o) \in Nat \ {0} /\ Block(mem, Data(o), all)
      /\ mem \in Seq(Nat) /\ Len(mem) \in Nat /\ Len(all) \in Nat
  BY ObjectIs DEF HeapInv
<1>2. n \in Nat /\ row \in Nat \ {0} /\ Len(all) = n * row
  <2>1. CASE o.vec
    <3>1. n = Len(all) /\ row = 1
      BY <2>1, ObjectIs DEF ArrayLength, Row
    <3> QED BY <1>1, <3>1
  <2>2. CASE ~ o.vec
    <3> DEFINE dims == o.dims
               last == Len(dims)
    <3>1. dims \in Seq(Nat \ {0}) /\ Len(all) = Size(dims)[last]
      BY <2>2, ObjectIs DEF Sliceable, Shaped
    <3>2. last \in 1 .. Len(dims) /\ last - 1 \in 0 .. Len(dims)
      BY <2>2, <3>1 DEF Sliceable
    <3>3. n = dims[last] /\ row = Size(dims)[last - 1]
      BY <2>2 DEF ArrayLength, Row
    <3>4. Size(dims)[last] = Size(dims)[last - 1] * dims[last]
      BY <3>1, <3>2, SizeAt
    <3>5. Size(dims)[last - 1] \in Nat \ {0} /\ dims[last] \in Nat
      BY <3>1, <3>2, SizeAt
    <3> DEFINE a == Size(dims)[last - 1]
               b == dims[last]
    <3>6. Len(all) = a * b /\ a \in Nat \ {0} /\ b \in Nat /\ n = b /\ row = a
      BY <3>1, <3>3, <3>4, <3>5
    <3> HIDE DEF a, b, n, row, all
    <3> QED BY <3>6
  <2> QED BY <2>1, <2>2
<1>a. s \in Nat /\ e \in Nat
  BY <1>2
<1>3. SliceChecks(n, s, e) <=> s < n /\ e <= n /\ s <= e
  BY <1>2, <1>a DEF SliceChecks
<1>4. CASE ~ SliceChecks(n, s, e)
  <2>1. Abort
    BY <1>4 DEF ArraySlice
  <2> QED BY <2>1 DEF Abort, HeapInv
<1>5. CASE SliceChecks(n, s, e)
  <2>1. Made(h, TRUE, <<>>, want, sure)
    BY <1>5 DEF ArraySlice, VectorData
  <2>2. e - s \in Nat /\ s <= e /\ e <= n
    BY <1>2, <1>a, <1>3, <1>5
  <2>3. want \in Seq(Nat)
    <3> DEFINE m == s * row
               q == e * row
    <3>1. m \in Nat /\ q \in Nat /\ m <= q /\ q <= Len(all)
      <4> HIDE DEF n, row, all
      <4> QED BY <1>2, <1>a, <2>2, TimesMonotone
    <3> HIDE DEF m, q, all
    <3>2. SubSeq(all, m + 1, q) \in Seq(Nat)
      BY <1>1, <3>1, BlockPart
    <3> QED BY <3>2 DEF m, q, all
  <2>a. sure => Len(want) = e - s /\ Block(mem, Data(o) + s, want)
    <3>1. SUFFICES ASSUME row = 1
          PROVE  Len(want) = e - s /\ Block(mem, Data(o) + s, want)
      OBVIOUS
    <3>2. s * row + 1 = s + 1 /\ e * row = e /\ e <= Len(all)
      <4> HIDE DEF n, row, all
      <4> QED BY <1>1, <1>2, <1>a, <2>2, <3>1
    <3>3. want = SubSeq(all, s + 1, e)
      BY <3>2
    <3> HIDE DEF want, n, row, all
    <3>4. /\ Len(SubSeq(all, s + 1, e)) = e - s
          /\ Block(mem, Data(o) + s, SubSeq(all, s + 1, e))
      BY <1>1, <1>a, <2>2, <3>2, BlockPart
    <3> QED BY <3>3, <3>4
  <2>b. sure \in BOOLEAN
    OBVIOUS
  <2>4. /\ g \in Seq(Nat) /\ Len(g) = Len(mem) + 1 + (e - s)
        /\ Extends(mem, g) /\ g[Top(mem)] = e - s
    BY <1>1, <2>2, VectorNewIs
  <2> HIDE DEF want, g, sure, row, n, all
  <2>5. /\ Top(mem) = Len(mem) + 1 /\ Top(mem) + 1 \in Nat /\ Len(mem) < Top(mem) + 1
        /\ (Top(mem) + 1) + (e - s) - 1 <= Len(g) /\ Top(mem) \in 1 .. Len(g)
    <3> DEFINE k == e - s
    <3>1. k \in Nat /\ Len(mem) \in Nat /\ Len(g) = Len(mem) + 1 + k
      BY <1>1, <2>2, <2>4
    <3>2. Top(mem) = Len(mem) + 1
      BY DEF Top
    <3> HIDE DEF k
    <3>3. /\ Top(mem) + 1 \in Nat /\ Len(mem) < Top(mem) + 1 /\ Top(mem) \in 1 .. Len(g)
          /\ (Top(mem) + 1) + k - 1 <= Len(g)
      BY <3>1, <3>2, VectorPlaces
    <3> QED BY <3>2, <3>3 DEF k
  <2>6. h \in Seq(Nat) /\ Len(h) = Len(g) /\ Extends(mem, h) /\ h[Top(mem)] = g[Top(mem)]
    <3> DEFINE src == Data(o) + s
               dst == Top(mem) + 1
               k == e - s
    <3>1. /\ dst \in Nat /\ Len(mem) < dst /\ Top(mem) \in 1 .. Len(g) /\ Top(mem) < dst
          /\ k \in Nat /\ h = Memcpy(g, src, dst, k)
      BY <1>1, <2>2, <2>5
    <3> HIDE DEF src, dst, k, h
    <3>2. LET z == Memcpy(g, src, dst, k)
          IN  z \in Seq(Nat) /\ Len(z) = Len(g) /\ Extends(mem, z)
      BY <1>1, <2>4, <3>1, MemcpyIs
    <3>3. Memcpy(g, src, dst, k)[Top(mem)] = g[Top(mem)]
      <4> DEFINE top == Top(mem)
      <4>1. /\ g \in Seq(Nat) /\ dst \in Nat /\ k \in Nat
            /\ top \in 1 .. Len(g) /\ top < dst
        BY <2>4, <3>1
      <4> HIDE DEF top
      <4>2. Memcpy(g, src, dst, k)[top] = g[top]
        BY <4>1, MemcpyBelow
      <4> QED BY <4>2 DEF top
    <3> QED BY <3>1, <3>2, <3>3
  <2>7. sure => Block(h, Top(mem) + 1, want)
    <3> DEFINE src == Data(o) + s
               dst == Top(mem) + 1
    <3>1. SUFFICES ASSUME sure PROVE Block(h, dst, want)
      OBVIOUS
    <3>2. /\ dst \in Nat /\ Len(mem) < dst /\ dst + Len(want) - 1 <= Len(g)
          /\ Block(mem, src, want) /\ h = Memcpy(g, src, dst, Len(want))
      BY <1>1, <2>a, <2>5, <3>1
    <3> HIDE DEF src, dst, h
    <3>3. LET z == Memcpy(g, src, dst, Len(want))
          IN  z \in Seq(Nat) /\ Len(z) = Len(g) /\ Extends(mem, z) /\ Block(z, dst, want)
      BY <1>1, <2>3, <2>4, <3>2, CopyFirst
    <3> QED BY <3>2, <3>3
  <2> HIDE DEF h
  <2>8. sure => VecAt(h, Top(mem), want)
    BY <2>a, <2>4, <2>5, <2>6, <2>7 DEF VecAt
  <2> QED BY <2>1, <2>3, <2>b, <2>6, <2>8, NoDims, MadeKeeps
<1> QED
  BY <1>4, <1>5

LEMMA HashInputKeeps ==
  ASSUME HeapInv, NEW l \in Objects, NEW r \in Objects, HashInput(l, r)
  PROVE  HeapInv'
<1> DEFINE s == l.want
           t == r.want
           g == Malloc(mem, Len(s) + Len(t))
           h == Memcpy(g, Data(l), Top(mem), Len(s))
           p == Memcpy(h, Data(r), Top(mem) + Len(s), Len(t))
<1>1. /\ s \in Seq(Nat) /\ t \in Seq(Nat) /\ Count(l) = Len(s) /\ Count(r) = Len(t)
      /\ Block(mem, Data(l), s) /\ Block(mem, Data(r), t) /\ mem \in Seq(Nat)
      /\ Len(mem) \in Nat /\ Len(s) \in Nat /\ Len(t) \in Nat
  BY ObjectIs DEF HeapInv
<1>2. Made(p, FALSE, <<>>, s \o t, TRUE)
  BY <1>1 DEF HashInput, Build
<1> HIDE DEF s, t
<1>3. g \in Seq(Nat) /\ Len(g) = Len(mem) + (Len(s) + Len(t)) /\ Extends(mem, g)
  BY <1>1, MallocIs
<1> HIDE DEF g
<1>4. /\ Top(mem) \in Nat /\ Len(mem) < Top(mem) /\ Top(mem) + Len(s) - 1 <= Len(g)
      /\ Top(mem) + Len(s) + Len(t) - 1 <= Len(g)
  BY <1>1, <1>3 DEF Top
<1>5. h \in Seq(Nat) /\ Len(h) = Len(g) /\ Extends(mem, h) /\ Block(h, Top(mem), s)
  BY <1>1, <1>3, <1>4, CopyFirst
<1> HIDE DEF h
<1>6. p \in Seq(Nat) /\ Extends(mem, p) /\ Block(p, Top(mem), s \o t)
  BY <1>1, <1>4, <1>5, CopyBehind
<1>7. s \o t \in Seq(Nat)
  BY <1>1, ConcatProperties
<1> HIDE DEF p
<1> QED
  BY <1>2, <1>6, <1>7, NoDims, MadeKeeps

LEMMA CheckEcdsaKeeps ==
  ASSUME HeapInv, NEW msg \in Objects, NEW pubkey \in Objects, NEW sig \in Objects,
         CheckEcdsa(msg, pubkey, sig)
  PROVE  HeapInv'
<1> DEFINE m == msg.want
           k == pubkey.want
           s == sig.want
           dest == Top(mem)
           g == Malloc(mem, 20)
           h1 == Memcpy(g, msg.at, dest, 4)
           h2 == Memcpy(h1, VectorData(pubkey.at), dest + 4, 8)
           p == Memcpy(h2, VectorData(sig.at), dest + 12, 8)
<1>1. /\ m \in Seq(Nat) /\ Len(m) = 4 /\ Block(mem, msg.at, m)
      /\ k \in Seq(Nat) /\ Len(k) = 8 /\ Block(mem, VectorData(pubkey.at), k)
      /\ s \in Seq(Nat) /\ Len(s) = 8 /\ Block(mem, VectorData(sig.at), s)
  BY ObjectIs DEF CheckEcdsa, IsHash, Data
<1>2. Made(p, FALSE, <<>>, m \o k \o s, TRUE)
  BY DEF CheckEcdsa, Build
<1> HIDE DEF m, k, s
<1>3. mem \in Seq(Nat) /\ Len(mem) \in Nat
  BY DEF HeapInv
<1>4. g \in Seq(Nat) /\ Len(g) = Len(mem) + 20 /\ Extends(mem, g)
  BY <1>3, MallocIs
<1> HIDE DEF g
<1>5. /\ dest \in Nat /\ Len(mem) < dest /\ dest + Len(m) - 1 <= Len(g)
      /\ dest + 4 + 8 - 1 <= Len(g) /\ dest + 12 + 8 - 1 <= Len(g)
  BY <1>1, <1>3, <1>4 DEF Top
<1> HIDE DEF dest
<1>6. h1 \in Seq(Nat) /\ Len(h1) = Len(g) /\ Extends(mem, h1) /\ Block(h1, dest, m)
  <2>1. LET z == Memcpy(g, msg.at, dest, Len(m))
        IN  z \in Seq(Nat) /\ Len(z) = Len(g) /\ Extends(mem, z) /\ Block(z, dest, m)
    BY <1>1, <1>3, <1>4, <1>5, CopyFirst
  <2> QED BY <1>1, <2>1
<1> HIDE DEF h1
<1>7. h2 \in Seq(Nat) /\ Len(h2) = Len(g) /\ Extends(mem, h2) /\ Block(h2, dest, m \o k)
  <2>1. dest + Len(m) + Len(k) - 1 <= Len(h1)
    BY <1>1, <1>5, <1>6
  <2>2. LET z == Memcpy(h1, VectorData(pubkey.at), dest + Len(m), Len(k))
        IN  z \in Seq(Nat) /\ Len(z) = Len(h1) /\ Extends(mem, z) /\ Block(z, dest, m \o k)
    BY <1>1, <1>3, <1>5, <1>6, <2>1, CopyBehind
  <2> QED BY <1>1, <1>6, <2>2
<1> HIDE DEF h2
<1>8. m \o k \in Seq(Nat) /\ Len(m \o k) = 12
  <2>1. m \o k \in Seq(Nat) /\ Len(m \o k) = Len(m) + Len(k)
    BY <1>1, ConcatProperties
  <2> QED BY <1>1, <2>1
<1> DEFINE mk == m \o k
<1>9. mk \in Seq(Nat) /\ Len(mk) = 12 /\ Block(h2, dest, mk)
  BY <1>7, <1>8
<1> HIDE DEF mk
<1>10. p \in Seq(Nat) /\ Extends(mem, p) /\ Block(p, dest, mk \o s)
  <2>1. dest + Len(mk) + Len(s) - 1 <= Len(h2)
    BY <1>1, <1>5, <1>7, <1>9
  <2>2. LET z == Memcpy(h2, VectorData(sig.at), dest + Len(mk), Len(s))
        IN  z \in Seq(Nat) /\ Len(z) = Len(h2) /\ Extends(mem, z) /\ Block(z, dest, mk \o s)
    BY <1>1, <1>3, <1>5, <1>7, <1>9, <2>1, CopyBehind
  <2> QED BY <1>1, <1>9, <2>2
<1>11. mk \o s \in Seq(Nat)
  BY <1>1, <1>9, ConcatProperties
<1> HIDE DEF p
<1>12. Made(p, FALSE, <<>>, mk \o s, TRUE)
  BY <1>2 DEF mk
<1> QED
  BY <1>10, <1>11, <1>12, NoDims, MadeKeeps DEF dest

(* The two copies of fields_concat read the same words. *)
LEMMA CopyTwice ==
  ASSUME NEW m \in Seq(Nat), NEW g \in Seq(Nat), Extends(m, g), NEW src,
         NEW dst \in Nat, Len(m) < dst, NEW s \in Seq(Nat), Block(m, src, s),
         dst + Len(s) + Len(s) - 1 <= Len(g), NEW h, h = Memcpy(g, src, dst, Len(s))
  PROVE  Block(Memcpy(h, src, dst + Len(s), Len(s)), dst, s \o s)
<1>1. dst + Len(s) - 1 <= Len(g)
  <2>1. Len(s) \in Nat /\ Len(g) \in Nat
    OBVIOUS
  <2> QED BY <2>1
<1>2. h \in Seq(Nat) /\ Len(h) = Len(g) /\ Extends(m, h) /\ Block(h, dst, s)
  <2>1. LET z == Memcpy(g, src, dst, Len(s))
        IN  z \in Seq(Nat) /\ Len(z) = Len(g) /\ Extends(m, z) /\ Block(z, dst, s)
    BY <1>1, CopyFirst
  <2> QED BY <2>1
<1>3. dst + Len(s) + Len(s) - 1 <= Len(h)
  BY <1>2
<1>4. LET z == Memcpy(h, src, dst + Len(s), Len(s))
      IN  z \in Seq(Nat) /\ Len(z) = Len(h) /\ Extends(m, z) /\ Block(z, dst, s \o s)
  BY <1>2, <1>3, CopyBehind
<1> QED
  BY <1>4

(* The second copy of fields_concat is only the other operand when both    *)
(* are the same.                                                           *)
LEMMA FieldsConcatKeeps ==
  ASSUME HeapInv, NEW l \in Objects, NEW r \in Objects, FieldsConcat(l, r)
  PROVE  HeapInv'
<1> DEFINE s == l.want
           t == r.want
           n == Len(s)
           a == Top(mem)
           src == VectorData(r.at)
           dst == a + 1
           g == VectorNew(mem, n + n)
           h == Memcpy(g, src, dst, n)
           p == Memcpy(h, src, dst + n, n)
           sure == l.want = r.want
<1>1. /\ s \in Seq(Nat) /\ t \in Seq(Nat) /\ n \in Nat /\ VectorLen(mem, l.at) = n
      /\ Block(mem, src, t) /\ mem \in Seq(Nat) /\ Len(mem) \in Nat
  BY ObjectIs DEF HeapInv, FieldsConcat, Data
<1>2. Made(p, TRUE, <<>>, s \o t, sure)
  BY <1>1 DEF FieldsConcat, VectorData
<1>3. sure \in BOOLEAN /\ (sure => s = t) /\ n = Len(s)
  OBVIOUS
<1> HIDE DEF s, t, src, sure, n
<1>4. /\ g \in Seq(Nat) /\ Len(g) = Len(mem) + 1 + (n + n) /\ Extends(mem, g)
      /\ g[Top(mem)] = n + n
  <2>1. n + n \in Nat
    BY <1>1
  <2> QED BY <1>1, <2>1, VectorNewIs
<1> HIDE DEF g
<1>5. /\ a \in 1 .. Len(g) /\ dst \in Nat /\ Len(mem) < dst /\ a < dst
      /\ dst + n + n - 1 <= Len(g) /\ g[a] = n + n
  <2> DEFINE k == n + n
  <2>1. k \in Nat /\ Len(mem) \in Nat /\ Len(g) = Len(mem) + 1 + k /\ n \in Nat
    BY <1>1, <1>4
  <2>2. a = Len(mem) + 1
    BY DEF Top
  <2>3. g[a] = n + n
    BY <1>4
  <2> HIDE DEF k, a
  <2>4. /\ a \in 1 .. Len(g) /\ a + 1 \in Nat /\ Len(mem) < a + 1 /\ a < a + 1
        /\ (a + 1) + k - 1 <= Len(g)
    BY <2>1, <2>2, VectorPlaces
  <2>5. dst + n + n - 1 = (a + 1) + k - 1
    BY <2>1, <2>4 DEF k
  <2> QED BY <2>3, <2>4, <2>5
<1>6. a = Top(mem) /\ dst = a + 1 /\ h = Memcpy(g, src, dst, n)
      /\ p = Memcpy(h, src, dst + n, n)
  OBVIOUS
<1> HIDE DEF p, h, dst, a
<1>7. p \in Seq(Nat) /\ Len(p) = Len(g) /\ Extends(mem, p) /\ p[a] = g[a]
  <2> DEFINE d == dst + n
  <2>1. h \in Seq(Nat) /\ Len(h) = Len(g) /\ Extends(mem, h) /\ h[a] = g[a]
    <3>1. mem \in Seq(Nat) /\ g \in Seq(Nat) /\ Extends(mem, g) /\ n \in Nat
      BY <1>1, <1>4
    <3>2. LET z == Memcpy(g, src, dst, n)
          IN  z \in Seq(Nat) /\ Len(z) = Len(g) /\ Extends(mem, z)
      BY <1>5, <3>1, MemcpyIs
    <3>3. Memcpy(g, src, dst, n)[a] = g[a]
      BY <1>5, <3>1, MemcpyBelow
    <3> QED BY <1>6, <3>2, <3>3
  <2>2. d \in Nat /\ Len(mem) < d /\ a < d /\ a \in 1 .. Len(h)
    BY <1>1, <1>5, <2>1
  <2>3. p = Memcpy(h, src, d, n)
    BY <1>6
  <2> HIDE DEF d
  <2>4. LET z == Memcpy(h, src, d, n)
        IN  z \in Seq(Nat) /\ Len(z) = Len(h) /\ Extends(mem, z)
    BY <1>1, <2>1, <2>2, MemcpyIs
  <2>5. Memcpy(h, src, d, n)[a] = h[a]
    BY <1>1, <2>1, <2>2, MemcpyBelow
  <2> QED BY <2>1, <2>3, <2>4, <2>5
<1>8. sure => Block(p, dst, s \o t)
  <2>1. SUFFICES ASSUME s = t PROVE Block(p, dst, s \o t)
    BY <1>3
  <2>2. Block(Memcpy(h, src, dst + Len(s), Len(s)), dst, s \o s)
    BY <1>1, <1>3, <1>4, <1>5, <1>6, <2>1, CopyTwice
  <2> QED BY <1>3, <1>6, <2>1, <2>2
<1>9. s \o t \in Seq(Nat) /\ Len(s \o t) = Len(s) + Len(t)
  BY <1>1, ConcatProperties
<1>10. sure => VecAt(p, a, s \o t)
  <2>1. SUFFICES ASSUME sure PROVE VecAt(p, a, s \o t)
    OBVIOUS
  <2>2. a \in 1 .. Len(p) /\ p[a] = Len(s \o t) /\ Block(p, a + 1, s \o t)
    BY <1>3, <1>5, <1>6, <1>7, <1>8, <1>9, <2>1
  <2> QED BY <2>2 DEF VecAt
<1> DEFINE w == s \o t
<1>11. /\ p \in Seq(Nat) /\ Extends(mem, p) /\ w \in Seq(Nat) /\ sure \in BOOLEAN
       /\ Made(p, TRUE, <<>>, w, sure)
  BY <1>2, <1>3, <1>7, <1>9
<1>12. sure => VecAt(p, Top(mem), w)
  BY <1>6, <1>10
<1> HIDE DEF w
<1> QED
  BY <1>11, <1>12, VecKeeps

(* The address is the first four of the words that are copied; only for    *)
(* the caller are those the words of the address asked for.                *)
LEMMA TapeAddressKeeps ==
  ASSUME HeapInv, NEW index \in {4, 8, 12}, NEW who \in 1 .. 3,
         (12 - index = 4 * (who - 1)) => who = 1, TapeAddress(index, who)
  PROVE  HeapInv'
<1> DEFINE s == SubSeq(TapeTail, 12 - index + 1, 12)
           want == [i \in 1 .. 4 |-> 10 * who + i]
           g == Malloc(mem, index)
           h == Put(g, Top(mem), s)
           sure == 12 - index = 4 * (who - 1)
<1>1. mem \in Seq(Nat) /\ Len(mem) \in Nat /\ Top(mem) = Len(mem) + 1 /\ index \in Nat
  BY DEF HeapInv, Top
<1>2. /\ TapeTail \in Seq(Nat) /\ Len(TapeTail) = 12
      /\ \A i \in 1 .. 12 : TapeTail[i] \in Nat
  <2>1. TapeTail \in [1 .. 12 -> Nat]
    BY DEF TapeTail
  <2>2. TapeTail \in Seq(Nat) /\ Len(TapeTail) = 12
    BY <2>1, IsHeap
  <2> QED BY <2>1, <2>2
<1>3. s \in Seq(Nat) /\ Len(s) = index /\ \A i \in 1 .. index : s[i] = TapeTail[12 - index + i]
  <2> DEFINE m == 12 - index
             T == TapeTail
  <2>1. m \in 0 .. 8 /\ m + index = 12 /\ \A i \in m + 1 .. 12 : T[i] \in Nat
    <3>1. m \in 0 .. 8 /\ m + index = 12
      OBVIOUS
    <3>2. \A i \in 1 .. 12 : T[i] \in Nat
      BY <1>2
    <3>3. ASSUME NEW i \in m + 1 .. 12 PROVE T[i] \in Nat
      <4> HIDE DEF m, T
      <4>1. i \in 1 .. 12
        BY <3>1
      <4> QED BY <3>2, <4>1
    <3> QED BY <3>1, <3>3
  <2> HIDE DEF m, T
  <2>2. /\ SubSeq(T, m + 1, 12) \in Seq(Nat)
        /\ Len(SubSeq(T, m + 1, 12)) = (IF m + 1 <= 12 THEN 12 - (m + 1) + 1 ELSE 0)
        /\ \A i \in 1 .. 12 - (m + 1) + 1 : SubSeq(T, m + 1, 12)[i] = T[(m + 1) + i - 1]
    BY <2>1, SubSeqProperties
  <2>3. Len(SubSeq(T, m + 1, 12)) = index
    BY <1>1, <2>1, <2>2
  <2>4. ASSUME NEW i \in 1 .. index PROVE SubSeq(T, m + 1, 12)[i] = T[m + i]
    <3>1. i \in 1 .. 12 - (m + 1) + 1 /\ (m + 1) + i - 1 = m + i
      BY <1>1, <2>1
    <3> QED BY <2>2, <3>1
  <2> QED BY <2>2, <2>3, <2>4 DEF m, T
<1>4. Made(h, FALSE, <<>>, want, sure)
  BY DEF TapeAddress
<1>5. want \in Seq(Nat) /\ Len(want) = 4
  BY IsHeap
<1>6. sure => \A i \in 1 .. 4 : want[i] = s[i]
  <2>1. SUFFICES ASSUME sure PROVE who = 1 /\ index = 12 /\ \A i \in 1 .. 4 : want[i] = s[i]
    OBVIOUS
  <2>2. who = 1 /\ index = 12
    BY <2>1
  <2>3. ASSUME NEW i \in 1 .. 4 PROVE TapeTail[i] = 10 + i
    <3>1. (i - 1) \div 4 = 0 /\ (i - 1) % 4 = i - 1
      OBVIOUS
    <3>2. TapeTail[i] = 10 * ((i - 1) \div 4 + 1) + ((i - 1) % 4) + 1
      BY DEF TapeTail
    <3> QED BY <3>1, <3>2
  <2>4. ASSUME NEW i \in 1 .. 4 PROVE s[i] = TapeTail[i]
    <3>1. i \in 1 .. index /\ 12 - index + i = i
      BY <2>2
    <3> QED BY <1>3, <3>1
  <2>5. \A i \in 1 .. 4 : want[i] = 10 + i
    BY <2>2
  <2> QED BY <2>2, <2>3, <2>4, <2>5
<1>7. sure \in BOOLEAN
  OBVIOUS
<1> HIDE DEF s, want, sure
<1>8. g \in Seq(Nat) /\ Len(g) = Len(mem) + index /\ Extends(mem, g)
  BY <1>1, MallocIs
<1> HIDE DEF g
<1>9. Top(mem) \in Nat \ {0} /\ Len(mem) < Top(mem) /\ Top(mem) + Len(s) - 1 <= Len(g)
  BY <1>1, <1>3, <1>8
<1>10. h \in Seq(Nat) /\ Len(h) = Len(g) /\ Extends(mem, h) /\ Block(h, Top(mem), s)
  <2>1. mem \in Seq(Nat) /\ s \in Seq(Nat) /\ Top(mem) \in Nat
    BY <1>1, <1>3, <1>9
  <2> QED BY <1>8, <1>9, <2>1, PutIs
<1> HIDE DEF h
<1>11. sure => Block(h, Top(mem), want)
  <2>1. SUFFICES ASSUME sure PROVE Block(h, Top(mem), want)
    OBVIOUS
  <2>2. 4 <= Len(s)
    BY <1>3
  <2>3. ASSUME NEW i \in 1 .. 4 PROVE h[Top(mem) + i - 1] = want[i]
    <3>1. i \in 1 .. Len(s)
      BY <1>3, <2>2
    <3>2. h[Top(mem) + i - 1] = s[i]
      BY <1>10, <3>1 DEF Block
    <3> QED BY <1>6, <2>1, <3>2
  <2>4. Top(mem) + 4 - 1 <= Len(h)
    BY <1>3, <1>9, <1>10, <2>2
  <2> QED BY <1>5, <1>9, <2>3, <2>4 DEF Block
<1> QED
  BY <1>4, <1>5, <1>7, <1>10, <1>11, NoDims, MadeKeeps

-----------------------------------------------------------------------------
(* The heap a program starts with is empty.                                *)
LEMMA HeapInvInit ==
  ASSUME HeapInit PROVE HeapInv
BY DEF HeapInit, HeapInv

(* Every operation of the generated code keeps the objects where they are. *)
LEMMA HeapInvNext ==
  ASSUME HeapInv, [HeapNext]_heapVars
  PROVE  HeapInv'
<1>1. CASE \E v \in FourWords : AddressLiteral(v)
  BY <1>1, AddressLiteralKeeps
<1>2. CASE \E w \in HeapWords : CastToAddress(w) \/ FieldToFields(w)
  BY <1>2, CastToAddressKeeps, FieldToFieldsKeeps
<1>3. CASE \E o \in Objects : HashToFields(o)
  BY <1>3, HashToFieldsKeeps
<1>4. CASE \E n \in 0 .. MaxVec : AllocDynamicZero(n)
  BY <1>4, AllocDynamicZeroKeeps
<1>5. CASE \E v \in Texts : AllocDynamicInit(v)
  BY <1>5, AllocDynamicInitKeeps
<1>6. CASE \E v \in WordLists : LiteralToMemoryArray(v) \/ StructLiteral(v)
  BY <1>6, LiteralToMemoryArrayKeeps, StructLiteralKeeps
<1>7. CASE \E a \in Arrays : ArrayLiteral(a.dims, a.values)
  BY <1>7, ArrayLiteralKeeps
<1>8. CASE \E o \in {q \in Objects : Sliceable(q)} :
             \E s, e \in 0 .. ArrayLength(o) + 1 : ArraySlice(o, s, e)
  BY <1>8, ArraySliceKeeps
<1>9. CASE \E m, p, s \in Objects : CheckEcdsa(m, p, s)
  BY <1>9, CheckEcdsaKeeps
<1>10. CASE \E l, r \in Objects : HashInput(l, r)
  BY <1>10, HashInputKeeps
<1>11. CASE Signature
  BY <1>11, SignatureKeeps
<1>12. CASE \E w \in {"sequence", "origin", "tx_hash"} : ContextAddress(w)
  BY <1>12, ContextAddressKeeps
<1>13. CASE \E w \in {"block_number", "timestamp", "version", "chain_id", "nonce"} :
              ContextValue(w)
  BY <1>13, ContextValueKeeps
<1>14. CASE \E l, r \in Objects : FieldsConcat(l, r)
  BY <1>14, FieldsConcatKeeps
<1>15. CASE CallerAddress
  BY <1>15, TapeAddressKeeps DEF CallerAddress
<1>16. CASE CodeAddress
  BY <1>16, TapeAddressKeeps DEF CodeAddress
<1>17. CASE CurrentAddress
  BY <1>17, TapeAddressKeeps DEF CurrentAddress
<1>18. CASE UNCHANGED heapVars
  BY <1>18 DEF heapVars, HeapInv, Holds, VecAt, Block
<1> QED
  BY <1>1, <1>2, <1>3, <1>4, <1>5, <1>6, <1>7, <1>8, <1>9, <1>10, <1>11, <1>12,
     <1>13, <1>14, <1>15, <1>16, <1>17, <1>18 DEF HeapNext

(* Words that are in their places are what the program reads there.        *)
LEMMA HeapInvContents ==
  ASSUME HeapInv PROVE Contents
<1>1. mem \in Seq(Nat)
  BY DEF HeapInv
<1>2. ASSUME NEW o \in Objects
      PROVE  /\ o.vec => VectorLen(mem, o.at) = Len(o.want)
             /\ \A i \in 1 .. Len(o.want) : Element(o, i - 1) = o.want[i]
  <2> DEFINE d == Data(o)
             s == o.want
  <2>1. /\ s \in Seq(Nat) /\ d \in Nat /\ Block(mem, d, s)
        /\ o.vec => VectorLen(mem, o.at) = Len(s)
    BY ObjectIs
  <2>2. \A i \in Int : Element(o, i) = At(mem, d + i)
    BY DEF Element
  <2> HIDE DEF d, s
  <2>3. ASSUME NEW i \in 1 .. Len(s) PROVE Element(o, i - 1) = s[i]
    <3>1. d + i - 1 \in 1 .. Len(mem) /\ mem[d + i - 1] = s[i]
      BY <1>1, <2>1, WordOf
    <3>2. i - 1 \in Int /\ d + (i - 1) = d + i - 1
      BY <2>1
    <3>3. At(mem, d + i - 1) = s[i]
      BY <1>1, <3>1, AtIs
    <3> QED BY <2>2, <3>2, <3>3
  <2> QED BY <2>1, <2>3 DEF s
<1> QED
  BY <1>2 DEF Contents

(* For all words, literals, dimensions and lengths: an object the          *)
(* generated code has built holds the elements its expression stands for   *)
(* whatever else is allocated, copied or stored later (array_literal,      *)
(* struct_literal, array_slice, fields_concat, poseidon_hash and           *)
(* check_ecdsa in irgen/expression.rs, irgen/corelib.rs and                *)
(* irgen/binary.rs).  A slice of an array of one-word elements holds the   *)
(* elements from its lower end up to, without, its upper end, and exists   *)
(* only where those are all in the array.                                  *)
THEOREM HeapContents == HeapSpec => []Contents
<1>1. HeapSpec => []HeapInv
  BY HeapInvInit, HeapInvNext, PTL DEF HeapSpec
<1>2. HeapInv => Contents
  BY HeapInvContents
<1> QED
  BY <1>1, <1>2, PTL
==============================================================================
