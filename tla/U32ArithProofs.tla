--------------------------- MODULE U32ArithProofs ---------------------------
(***************************************************************************)
(* For words of any width: along every chain of u32 operations the field   *)
(* arithmetic of the machine gives the integer result, and a check fails   *)
(* only when there is none.                                                *)
(*                                                                         *)
(* The loops (powers, the digits of the bitwise instructions) are          *)
(* recursive functions: that they have a solution, and what it is, comes   *)
(* first.  Then the field: it has room for the sum and the product of two  *)
(* words, a negative difference lands above every word, and powers of two  *)
(* below 2^2W are left as they are.  Exact alone is not inductive: the     *)
(* next operation is only exact on a variable that holds a word.           *)
(***************************************************************************)
EXTENDS U32Arith, TLAPS, WellFoundedInduction

(* Induction, for a set instead of a predicate.                            *)
LEMMA Ascend ==
  ASSUME NEW S, 0 \in S, \A n \in Nat : n \in S => n + 1 \in S
  PROVE  Nat \subseteq S
<1> DEFINE T == {n \in Nat : n \notin S}
<1> SUFFICES ASSUME T # {} PROVE FALSE
  OBVIOUS
<1>1. IsWellFoundedOn(OpToRel(<, Nat), Nat)
  BY NatLessThanWellFounded
<1>2. PICK n \in T : \A m \in T : ~ (<<m, n>> \in OpToRel(<, Nat))
  <2>1. T \subseteq Nat
    OBVIOUS
  <2> HIDE DEF T
  <2> QED BY <1>1, <2>1, WFMin
<1>3. n \in Nat /\ n \notin S
  OBVIOUS
<1>4. n - 1 \in Nat /\ n - 1 < n
  BY <1>3
<1>5. <<n - 1, n>> \in OpToRel(<, Nat)
  BY <1>3, <1>4 DEF OpToRel
<1>6. n - 1 \in S
  BY <1>2, <1>4, <1>5
<1>7. (n - 1) + 1 \in S
  BY <1>4, <1>6
<1> QED
  BY <1>3, <1>7

-----------------------------------------------------------------------------
(* A loop over a counter: the value at first, and what each turn makes of  *)
(* the value before.                                                       *)
IsLoop(f, N, b, G) ==
  \A n \in 0 .. N : f[n] = IF n = 0 THEN b ELSE G[n][f[n - 1]]

(* A loop of any length has a result.                                      *)
LEMMA LoopExists ==
  ASSUME NEW S, NEW b \in S, NEW G \in [Nat -> [S -> S]], NEW N \in Nat
  PROVE  \E f \in [0 .. N -> S] : IsLoop(f, N, b, G)
<1> DEFINE T == {n \in Nat : \E f \in [0 .. n -> S] : IsLoop(f, n, b, G)}
<1>1. 0 \in T
  <2> DEFINE f == [n \in 0 .. 0 |-> b]
  <2>1. f \in [0 .. 0 -> S] /\ IsLoop(f, 0, b, G)
    BY DEF IsLoop
  <2> QED BY <2>1
<1>2. ASSUME NEW n \in Nat, n \in T
      PROVE  n + 1 \in T
  <2>1. PICK f \in [0 .. n -> S] : IsLoop(f, n, b, G)
    BY <1>2
  <2> DEFINE g == [i \in 0 .. n + 1 |-> IF i = n + 1 THEN G[n + 1][f[n]] ELSE f[i]]
  <2>2. g \in [0 .. n + 1 -> S]
    OBVIOUS
  <2>3. ASSUME NEW i \in 0 .. n + 1
        PROVE  g[i] = IF i = 0 THEN b ELSE G[i][g[i - 1]]
    <3>1. CASE i = n + 1
      BY <3>1
    <3>2. CASE i \in 0 .. n
      <4>1. f[i] = IF i = 0 THEN b ELSE G[i][f[i - 1]]
        BY <2>1, <3>2 DEF IsLoop
      <4>2. g[i] = f[i] /\ (i # 0 => g[i - 1] = f[i - 1])
        BY <3>2
      <4> QED BY <4>1, <4>2
    <3> QED BY <3>1, <3>2
  <2> HIDE DEF g
  <2>4. IsLoop(g, n + 1, b, G)
    BY <2>3 DEF IsLoop
  <2> QED BY <2>2, <2>4
<1> HIDE DEF T
<1>3. Nat \subseteq T
  BY <1>1, <1>2, Ascend
<1> QED
  BY <1>3 DEF T

(* Two loops that differ in length only agree where both are defined.      *)
LEMMA LoopUnique ==
  ASSUME NEW b, NEW G, NEW M \in Nat, NEW N \in Nat, M <= N, NEW f, NEW g,
         IsLoop(f, M, b, G), IsLoop(g, N, b, G)
  PROVE  \A n \in 0 .. M : f[n] = g[n]
<1> DEFINE T == {n \in Nat : n <= M => f[n] = g[n]}
<1>1. 0 \in T
  BY DEF IsLoop
<1>2. ASSUME NEW n \in Nat, n \in T
      PROVE  n + 1 \in T
  <2> SUFFICES ASSUME n + 1 <= M PROVE f[n + 1] = g[n + 1]
    OBVIOUS
  <2>1. f[n] = g[n]
    BY <1>2
  <2>2. f[n + 1] = G[n + 1][f[n]] /\ g[n + 1] = G[n + 1][g[n]]
    <3>1. n + 1 \in 0 .. M /\ n + 1 \in 0 .. N /\ n + 1 # 0 /\ (n + 1) - 1 = n
      OBVIOUS
    <3> QED BY <3>1 DEF IsLoop
  <2> QED BY <2>1, <2>2
<1> HIDE DEF T
<1>3. Nat \subseteq T
  BY <1>1, <1>2, Ascend
<1> QED
  BY <1>3 DEF T

-----------------------------------------------------------------------------
(* Powers.                                                                 *)
PowLoop(p, b, n) == p = [i \in 0 .. n |-> IF i = 0 THEN 1 ELSE p[i - 1] * b]

Times(b) == [n \in Nat |-> [v \in Nat |-> v * b]]

LEMMA PowLoopIs ==
  ASSUME NEW b \in Nat, NEW n \in Nat
  PROVE  \E p \in [0 .. n -> Nat] :
           PowLoop(p, b, n) /\ IsLoop(p, n, 1, Times(b)) /\ Pow(b, n) = p[n]
<1>1. Times(b) \in [Nat -> [Nat -> Nat]]
  BY DEF Times
<1>2. PICK f \in [0 .. n -> Nat] : IsLoop(f, n, 1, Times(b))
  BY <1>1, LoopExists
<1>3. PowLoop(f, b, n)
  <2>1. ASSUME NEW i \in 0 .. n
        PROVE  f[i] = IF i = 0 THEN 1 ELSE f[i - 1] * b
    <3>1. f[i] = IF i = 0 THEN 1 ELSE Times(b)[i][f[i - 1]]
      BY <1>2 DEF IsLoop
    <3>2. i # 0 => f[i - 1] \in Nat
      OBVIOUS
    <3> QED BY <3>1, <3>2 DEF Times
  <2> QED BY <2>1 DEF PowLoop
<1> DEFINE p == CHOOSE q : PowLoop(q, b, n)
<1>4. PowLoop(p, b, n)
  BY <1>3, Zenon
<1>5. Pow(b, n) = p[n]
  BY Zenon DEF Pow, PowLoop
<1> HIDE DEF p
<1>6. \A i \in 0 .. n : p[i] = IF i = 0 THEN 1 ELSE p[i - 1] * b
  <2> DEFINE q == [i \in 0 .. n |-> IF i = 0 THEN 1 ELSE p[i - 1] * b]
  <2>1. p = q
    BY <1>4 DEF PowLoop
  <2>2. \A i \in 0 .. n : q[i] = IF i = 0 THEN 1 ELSE p[i - 1] * b
    OBVIOUS
  <2> HIDE DEF q
  <2> QED BY <2>1, <2>2
<1> DEFINE T == {i \in Nat : i <= n => p[i] \in Nat}
<1>7. Nat \subseteq T
  <2>1. 0 \in T
    BY <1>6
  <2>2. ASSUME NEW i \in Nat, i \in T PROVE i + 1 \in T
    <3> SUFFICES ASSUME i + 1 <= n PROVE p[i + 1] \in Nat
      OBVIOUS
    <3>1. p[i + 1] = p[i] * b /\ p[i] \in Nat
      BY <1>6, <2>2
    <3> QED BY <3>1
  <2> HIDE DEF T
  <2> QED BY <2>1, <2>2, Ascend
<1>8. \A i \in 0 .. n : p[i] \in Nat
  BY <1>7
<1>9. p \in [0 .. n -> Nat]
  BY <1>4, <1>6, <1>8 DEF PowLoop
<1>10. ASSUME NEW i \in 0 .. n
       PROVE  p[i] = IF i = 0 THEN 1 ELSE Times(b)[i][p[i - 1]]
  <2>1. i # 0 => p[i - 1] \in Nat
    BY <1>8
  <2>2. \A v \in Nat : Times(b)[i][v] = v * b
    BY DEF Times
  <2> QED BY <1>6, <2>1, <2>2
<1>11. IsLoop(p, n, 1, Times(b))
  BY <1>10 DEF IsLoop
<1> QED
  BY <1>4, <1>5, <1>9, <1>11

(* b^0 is 1 and b^n+1 is b times b^n.                                      *)
LEMMA PowAt ==
  ASSUME NEW b \in Nat, NEW n \in Nat
  PROVE  Pow(b, n) \in Nat /\ Pow(b, 0) = 1 /\ Pow(b, n + 1) = Pow(b, n) * b
<1>1. PICK p \in [0 .. n -> Nat] : IsLoop(p, n, 1, Times(b)) /\ Pow(b, n) = p[n]
  BY PowLoopIs
<1>2. PICK q \in [0 .. n + 1 -> Nat] :
         IsLoop(q, n + 1, 1, Times(b)) /\ Pow(b, n + 1) = q[n + 1]
  <2>1. n + 1 \in Nat
    OBVIOUS
  <2> QED BY <2>1, PowLoopIs
<1>3. PICK z \in [0 .. 0 -> Nat] : IsLoop(z, 0, 1, Times(b)) /\ Pow(b, 0) = z[0]
  BY PowLoopIs
<1>4. p[n] = q[n]
  <2>1. n + 1 \in Nat /\ n <= n + 1 /\ n \in 0 .. n
    OBVIOUS
  <2>2. \A m \in 0 .. n : p[m] = q[m]
    BY <1>1, <1>2, <2>1, LoopUnique
  <2> QED BY <2>1, <2>2
<1>5. q[n + 1] = Times(b)[n + 1][q[n]]
  <2>1. n + 1 \in 0 .. n + 1 /\ n + 1 # 0 /\ (n + 1) - 1 = n
    OBVIOUS
  <2> QED BY <1>2, <2>1 DEF IsLoop
<1>6. q[n] \in Nat
  <2>1. n \in 0 .. n + 1
    OBVIOUS
  <2> QED BY <2>1
<1>7. Times(b)[n + 1][q[n]] = q[n] * b
  BY <1>6 DEF Times
<1>8. z[0] = 1
  BY <1>3 DEF IsLoop
<1> QED
  BY <1>1, <1>2, <1>3, <1>4, <1>5, <1>7, <1>8

(* Powers of two grow.                                                     *)
LEMMA PowGrows ==
  ASSUME NEW m \in Nat, NEW n \in Nat, m <= n
  PROVE  1 <= Pow(2, m) /\ Pow(2, m) <= Pow(2, n)
<1> DEFINE T == {i \in Nat : 1 <= Pow(2, i)}
           U == {i \in Nat : Pow(2, m) <= Pow(2, m + i)}
<1>1. \A i \in Nat : Pow(2, i) \in Nat /\ Pow(2, i + 1) = Pow(2, i) * 2 /\ Pow(2, 0) = 1
  BY PowAt
<1>2. Nat \subseteq T
  <2>1. 0 \in T /\ \A i \in Nat : i \in T => i + 1 \in T
    BY <1>1
  <2> HIDE DEF T
  <2> QED BY <2>1, Ascend
<1>3. Nat \subseteq U
  <2>1. 0 \in U
    BY <1>1
  <2>2. ASSUME NEW i \in Nat, i \in U PROVE i + 1 \in U
    <3>1. m + i \in Nat /\ m + (i + 1) = (m + i) + 1
      OBVIOUS
    <3>2. Pow(2, m) <= Pow(2, m + i)
      BY <2>2
    <3> QED BY <1>1, <3>1, <3>2
  <2> HIDE DEF U
  <2> QED BY <2>1, <2>2, Ascend
<1>4. n - m \in Nat /\ m + (n - m) = n
  OBVIOUS
<1>5. Pow(2, m) <= Pow(2, m + (n - m))
  BY <1>3, <1>4
<1> QED
  BY <1>2, <1>4, <1>5

(* 2^m+n is 2^m times 2^n.                                                 *)
LEMMA PowAdd ==
  ASSUME NEW m \in Nat, NEW n \in Nat
  PROVE  Pow(2, m + n) = Pow(2, m) * Pow(2, n)
<1> DEFINE T == {i \in Nat : Pow(2, m + i) = Pow(2, m) * Pow(2, i)}
<1>1. \A i \in Nat : Pow(2, i) \in Nat /\ Pow(2, i + 1) = Pow(2, i) * 2 /\ Pow(2, 0) = 1
  BY PowAt
<1>2. 0 \in T
  BY <1>1
<1>3. ASSUME NEW i \in Nat, i \in T PROVE i + 1 \in T
  <2>1. m + i \in Nat /\ m + (i + 1) = (m + i) + 1
    OBVIOUS
  <2>2. Pow(2, m + (i + 1)) = (Pow(2, m) * Pow(2, i)) * 2
    BY <1>1, <1>3, <2>1
  <2>3. Pow(2, m) * Pow(2, i + 1) = (Pow(2, m) * Pow(2, i)) * 2
    BY <1>1
  <2> QED BY <2>2, <2>3
<1> HIDE DEF T
<1>4. Nat \subseteq T
  BY <1>2, <1>3, Ascend
<1> QED
  BY <1>4 DEF T

-----------------------------------------------------------------------------
(* Remainders.                                                             *)
LEMMA ModSmall ==
  ASSUME NEW p \in Nat, NEW n \in 0 .. p - 1
  PROVE  n % p = n
OBVIOUS

LEMMA ModNegative ==
  ASSUME NEW p \in Nat, NEW n \in Nat, 0 < n, n <= p
  PROVE  (0 - n) % p = p - n
OBVIOUS

LEMMA DivMod ==
  ASSUME NEW p \in Nat \ {0}, NEW n \in Int
  PROVE  n \div p \in Int /\ n % p \in 0 .. p - 1 /\ n = p * (n \div p) + (n % p)
OBVIOUS

(* The remainder is what is left of n above a multiple of p.               *)
LEMMA ModUnique ==
  ASSUME NEW p \in Nat \ {0}, NEW k \in Int, NEW e \in 0 .. p - 1
  PROVE  (p * k + e) % p = e
<1> DEFINE n == p * k + e
           d == n \div p
           f == n % p
<1>1. n \in Int
  OBVIOUS
<1>2. d \in Int /\ f \in 0 .. p - 1 /\ n = p * d + f
  <2> HIDE DEF n
  <2> QED BY <1>1, DivMod
<1>3. p * (k - d) = f - e
  BY <1>2
<1> HIDE DEF n, d, f
<1>4. k - d <= 0
  <2> SUFFICES ASSUME 1 <= k - d PROVE FALSE
    BY <1>2
  <2>1. p * 1 <= p * (k - d)
    BY <1>2
  <2> QED BY <1>2, <1>3, <2>1
<1>5. 0 <= k - d
  <2> SUFFICES ASSUME 1 <= d - k PROVE FALSE
    BY <1>2
  <2>1. p * 1 <= p * (d - k)
    BY <1>2
  <2>2. p * (d - k) = e - f
    BY <1>2, <1>3
  <2> QED BY <1>2, <2>1, <2>2
<1>6. k = d
  BY <1>2, <1>4, <1>5
<1> QED
  BY <1>2, <1>3, <1>6 DEF n, d, f

(* A product may be reduced early.                                         *)
LEMMA ModTimes ==
  ASSUME NEW p \in Nat \ {0}, NEW a \in Nat, NEW b \in Nat
  PROVE  ((a % p) * b) % p = (a * b) % p
<1> DEFINE q == a \div p
           r == a % p
           u == (r * b) \div p
           v == (r * b) % p
<1>1. q \in Nat /\ r \in Nat /\ a = p * q + r
  OBVIOUS
<1>2. r * b \in Int
  BY <1>1
<1>3. u \in Int /\ v \in 0 .. p - 1 /\ r * b = p * u + v
  <2> DEFINE w == r * b
  <2>1. w \in Int
    BY <1>2
  <2> HIDE DEF w
  <2>2. w \div p \in Int /\ w % p \in 0 .. p - 1 /\ w = p * (w \div p) + (w % p)
    BY <2>1, DivMod
  <2> QED BY <2>2 DEF w
<1> HIDE DEF q, r, u, v
<1>4. a * b = p * (q * b + u) + v
  BY <1>1, <1>3
<1>5. q * b + u \in Int
  BY <1>1, <1>3
<1>6. (a * b) % p = v
  BY <1>3, <1>4, <1>5, ModUnique
<1> QED
  BY <1>6 DEF r, v

-----------------------------------------------------------------------------
(* The field has room for three words and more.                            *)
LEMMA Sizes ==
  /\ W \in Nat /\ MaxExp \in Nat /\ MaxExp < 2 * W
  /\ U32_SIZE \in Nat /\ 4 <= U32_SIZE
  /\ FIELD_ORDER \in Nat /\ 3 * U32_SIZE < FIELD_ORDER
  /\ U32_SIZE * U32_SIZE = FIELD_ORDER + U32_SIZE - 1
<1>1. W \in Nat /\ MaxExp \in Nat /\ 2 <= W /\ MaxExp < 2 * W
  BY ArithAssumption
<1>2. Pow(2, 0) = 1 /\ Pow(2, 0 + 1) = Pow(2, 0) * 2 /\ Pow(2, 1 + 1) = Pow(2, 1) * 2
  BY PowAt
<1>3. Pow(2, 2) = 4
  BY <1>2
<1>4. Pow(2, 2) <= Pow(2, W) /\ Pow(2, W) \in Nat
  BY <1>1, PowAt, PowGrows
<1>5. U32_SIZE \in Nat /\ 4 <= U32_SIZE
  BY <1>3, <1>4 DEF U32_SIZE
<1> DEFINE S == U32_SIZE * U32_SIZE
<1>6. S \in Nat /\ 4 * U32_SIZE <= S
  BY <1>5
<1> HIDE DEF S
<1>7. FIELD_ORDER = S - U32_SIZE + 1
  BY DEF FIELD_ORDER, S
<1>8. FIELD_ORDER \in Nat /\ 3 * U32_SIZE < FIELD_ORDER /\ S = FIELD_ORDER + U32_SIZE - 1
  BY <1>5, <1>6, <1>7
<1> QED
  BY <1>1, <1>5, <1>8 DEF S

(* The product of two words does not wrap.                                 *)
LEMMA ProductFits ==
  ASSUME NEW l \in U32, NEW r \in U32
  PROVE  l * r \in 0 .. FIELD_ORDER - 1
<1> DEFINE m == U32_SIZE - 1
<1>1. l \in Nat /\ r \in Nat /\ m \in Nat /\ l <= m /\ r <= m
  BY Sizes DEF U32
<1>2. m * m + m <= FIELD_ORDER - 1
  <2>1. m * m = U32_SIZE * U32_SIZE - 2 * U32_SIZE + 1
    BY Sizes
  <2> QED BY <2>1, Sizes
<1> HIDE DEF m
<1>3. l * r <= l * m /\ l * m <= m * m /\ l * r \in Nat
  BY <1>1
<1> QED
  BY <1>1, <1>2, <1>3, Sizes

(* A power of two that a shift may ask for does not wrap.                  *)
LEMMA ShiftFits ==
  ASSUME NEW r \in 0 .. MaxExp
  PROVE  Pow(2, r) \in 1 .. FIELD_ORDER - 1
<1>1. r \in Nat /\ r < 2 * W
  BY Sizes
<1>2. Pow(2, r) \in Nat /\ 1 <= Pow(2, r)
  BY <1>1, PowAt, PowGrows
<1>3. CASE r <= W
  <2>1. Pow(2, r) <= U32_SIZE
    BY <1>1, <1>3, Sizes, PowGrows DEF U32_SIZE
  <2> QED BY <1>2, <2>1, Sizes
<1>4. CASE W < r
  <2> DEFINE k == r - W
  <2>1. k \in Nat /\ k + 1 \in Nat /\ k + 1 <= W /\ r = W + k
    BY <1>1, <1>4, Sizes
  <2> HIDE DEF k
  <2> DEFINE h == Pow(2, k)
             T == U32_SIZE
  <2>2. Pow(2, r) = T * h
    BY <2>1, Sizes, PowAdd DEF U32_SIZE
  <2>3. h \in Nat /\ 2 * h <= T
    <3>1. h \in Nat /\ Pow(2, k + 1) = h * 2
      BY <2>1, PowAt
    <3>2. Pow(2, k + 1) <= Pow(2, W)
      BY <2>1, Sizes, PowGrows
    <3> QED BY <3>1, <3>2 DEF U32_SIZE
  <2>4. T \in Nat /\ 4 <= T /\ FIELD_ORDER \in Nat /\ T * T = FIELD_ORDER + T - 1
        /\ 3 * T < FIELD_ORDER
    BY Sizes
  <2> HIDE DEF h, T
  <2>5. T * (2 * h) <= T * T
    BY <2>3, <2>4
  <2>6. T * (2 * h) = 2 * (T * h)
    BY <2>3, <2>4
  <2>7. T * h < FIELD_ORDER
    BY <2>3, <2>4, <2>5, <2>6
  <2> QED BY <1>2, <2>2, <2>4, <2>7
<1> QED
  BY <1>1, <1>3, <1>4, Sizes

-----------------------------------------------------------------------------
(* The loop of u32_power reduces in every turn, which is as good as        *)
(* reducing at the end.                                                    *)
ProductLoop(f, b, n) ==
  f = [c \in 0 .. n |-> IF c = 0 THEN 1 ELSE (f[c - 1] * b) % FIELD_ORDER]

LEMMA PowerIs ==
  ASSUME NEW b \in Nat, NEW n \in Nat
  PROVE  u32_power(b, n) = Checked(Pow(b, n) % FIELD_ORDER)
<1> DEFINE G == [i \in Nat |-> [v \in Nat |-> (v * b) % FIELD_ORDER]]
<1>1. FIELD_ORDER \in Nat \ {0} /\ 1 < FIELD_ORDER
  BY Sizes
<1>2. \A v \in Nat : v * b \in Nat /\ (v * b) % FIELD_ORDER \in Nat
  <2> TAKE v \in Nat
  <2>1. v * b \in Nat
    OBVIOUS
  <2> QED BY <1>1, <2>1, DivMod
<1>3. G \in [Nat -> [Nat -> Nat]]
  BY <1>2
<1>4. PICK g \in [0 .. n -> Nat] : IsLoop(g, n, 1, G)
  <2> HIDE DEF G
  <2> QED BY <1>3, LoopExists
<1>5. ProductLoop(g, b, n)
  <2>1. ASSUME NEW c \in 0 .. n
        PROVE  g[c] = IF c = 0 THEN 1 ELSE (g[c - 1] * b) % FIELD_ORDER
    <3>1. g[c] = IF c = 0 THEN 1 ELSE G[c][g[c - 1]]
      BY <1>4 DEF IsLoop
    <3>2. c # 0 => g[c - 1] \in Nat
      OBVIOUS
    <3> QED BY <3>1, <3>2
  <2> QED BY <2>1 DEF ProductLoop
<1> DEFINE f == CHOOSE h : ProductLoop(h, b, n)
<1>6. ProductLoop(f, b, n)
  BY <1>5, Zenon
<1> DEFINE last == CHOOSE c \in 0 .. n : ~ (c + 1 <= n)
<1>7. u32_power(b, n) = Checked(f[last])
  BY Zenon DEF u32_power, ProductLoop
<1> HIDE DEF f, last
<1>8. last = n
  BY DEF last
<1>9. \A c \in 0 .. n : f[c] = IF c = 0 THEN 1 ELSE (f[c - 1] * b) % FIELD_ORDER
  <2> DEFINE h == [c \in 0 .. n |-> IF c = 0 THEN 1 ELSE (f[c - 1] * b) % FIELD_ORDER]
  <2>1. f = h
    BY <1>6 DEF ProductLoop
  <2>2. \A c \in 0 .. n : h[c] = IF c = 0 THEN 1 ELSE (f[c - 1] * b) % FIELD_ORDER
    OBVIOUS
  <2> HIDE DEF h
  <2> QED BY <2>1, <2>2
<1> DEFINE T == {c \in Nat : c <= n => f[c] = Pow(b, c) % FIELD_ORDER}
<1>10. 0 \in T
  <2>1. f[0] = 1 /\ Pow(b, 0) = 1
    <3>1. f[0] = 1
      BY <1>9
    <3> QED BY <3>1, PowAt
  <2>2. 1 % FIELD_ORDER = 1
    BY <1>1, ModSmall
  <2> QED BY <2>1, <2>2
<1>11. ASSUME NEW c \in Nat, c \in T PROVE c + 1 \in T
  <2> SUFFICES ASSUME c + 1 <= n PROVE f[c + 1] = Pow(b, c + 1) % FIELD_ORDER
    OBVIOUS
  <2>1. c + 1 \in 0 .. n /\ c + 1 # 0 /\ (c + 1) - 1 = c /\ c <= n
    OBVIOUS
  <2>2. f[c + 1] = (f[c] * b) % FIELD_ORDER
    BY <1>9, <2>1
  <2>3. f[c] = Pow(b, c) % FIELD_ORDER
    BY <1>11, <2>1
  <2>4. Pow(b, c) \in Nat /\ Pow(b, c + 1) = Pow(b, c) * b
    BY PowAt
  <2>5. ((Pow(b, c) % FIELD_ORDER) * b) % FIELD_ORDER = (Pow(b, c) * b) % FIELD_ORDER
    BY <1>1, <2>4, ModTimes
  <2> QED BY <2>2, <2>3, <2>4, <2>5
<1> HIDE DEF T
<1>12. Nat \subseteq T
  BY <1>10, <1>11, Ascend
<1>13. f[n] = Pow(b, n) % FIELD_ORDER
  BY <1>12 DEF T
<1> QED
  BY <1>7, <1>8, <1>13

-----------------------------------------------------------------------------
(* The bitwise instructions.                                               *)
DigitLoop(f, op, l, r) ==
  f = [n \in 0 .. 2 * W |->
         IF n = 0 THEN 0
         ELSE f[n - 1] + Pow(2, n - 1) * op[Digit(l, n - 1)][Digit(r, n - 1)]]

BitOps == [{0, 1} -> [{0, 1} -> {0, 1}]]

LEMMA DigitIs ==
  ASSUME NEW n \in Nat, NEW i \in Nat
  PROVE  Digit(n, i) \in {0, 1} /\ (n < Pow(2, i) => Digit(n, i) = 0)
<1> DEFINE p == Pow(2, i)
<1>1. p \in Nat \ {0}
  BY PowAt, PowGrows
<1> HIDE DEF p
<1>2. n \div p \in Nat /\ (n < p => n \div p = 0)
  BY <1>1
<1>3. Digit(n, i) = (n \div p) % 2
  BY DEF Digit, p
<1> HIDE DEF Digit
<1> QED
  BY <1>2, <1>3 DEF p

(* The digits of two words give a word, if they give 0 for two zeros.      *)
LEMMA BitwiseFits ==
  ASSUME NEW op \in BitOps, op[0][0] = 0, NEW l \in U32, NEW r \in U32
  PROVE  Bitwise(op, l, r) \in U32
<1> DEFINE d(n) == op[Digit(l, n)][Digit(r, n)]
           G == [n \in Nat |-> [v \in Nat |-> IF n = 0 THEN v ELSE v + Pow(2, n - 1) * d(n - 1)]]
<1>1. l \in Nat /\ r \in Nat /\ l < U32_SIZE /\ r < U32_SIZE /\ 2 * W \in Nat
  BY Sizes DEF U32
<1>2. ASSUME NEW n \in Nat
      PROVE  d(n) \in {0, 1} /\ (W <= n => d(n) = 0)
  <2>1. Digit(l, n) \in {0, 1} /\ Digit(r, n) \in {0, 1}
    BY <1>1, DigitIs
  <2>2. d(n) \in {0, 1}
    BY <2>1 DEF BitOps
  <2>3. ASSUME W <= n PROVE d(n) = 0
    <3>1. U32_SIZE <= Pow(2, n) /\ Pow(2, n) \in Nat /\ U32_SIZE \in Nat
      BY <2>3, Sizes, PowAt, PowGrows DEF U32_SIZE
    <3>2. l < Pow(2, n) /\ r < Pow(2, n)
      BY <1>1, <3>1
    <3>3. Digit(l, n) = 0 /\ Digit(r, n) = 0
      BY <1>1, <3>2, DigitIs
    <3> QED BY <3>3
  <2> QED BY <2>2, <2>3
<1> HIDE DEF d
<1>3. \A n \in Nat : Pow(2, n) \in Nat
  BY PowAt
<1>4. G \in [Nat -> [Nat -> Nat]]
  <2>1. ASSUME NEW n \in Nat, NEW v \in Nat
        PROVE  (IF n = 0 THEN v ELSE v + Pow(2, n - 1) * d(n - 1)) \in Nat
    <3> SUFFICES ASSUME n # 0 PROVE v + Pow(2, n - 1) * d(n - 1) \in Nat
      OBVIOUS
    <3>1. n - 1 \in Nat
      OBVIOUS
    <3>2. d(n - 1) \in {0, 1} /\ Pow(2, n - 1) \in Nat
      BY <1>2, <1>3, <3>1
    <3> QED BY <3>2
  <2> QED BY <2>1
<1>5. PICK g \in [0 .. 2 * W -> Nat] : IsLoop(g, 2 * W, 0, G)
  <2> HIDE DEF G
  <2> QED BY <1>1, <1>4, LoopExists
<1>6. DigitLoop(g, op, l, r)
  <2>1. ASSUME NEW n \in 0 .. 2 * W
        PROVE  g[n] = IF n = 0 THEN 0 ELSE g[n - 1] + Pow(2, n - 1) * d(n - 1)
    <3>1. g[n] = IF n = 0 THEN 0 ELSE G[n][g[n - 1]]
      BY <1>5 DEF IsLoop
    <3>2. n # 0 => g[n - 1] \in Nat
      BY <1>1
    <3>3. \A v \in Nat : n # 0 => G[n][v] = v + Pow(2, n - 1) * d(n - 1)
      BY <1>1
    <3> QED BY <3>1, <3>2, <3>3
  <2> QED BY <2>1 DEF DigitLoop, d
<1> DEFINE f == CHOOSE h : DigitLoop(h, op, l, r)
<1>7. DigitLoop(f, op, l, r)
  BY <1>6, Zenon
<1>8. Bitwise(op, l, r) = f[2 * W]
  BY Zenon DEF Bitwise, DigitLoop
<1> HIDE DEF f
<1>9. \A n \in 0 .. 2 * W :
        f[n] = IF n = 0 THEN 0 ELSE f[n - 1] + Pow(2, n - 1) * d(n - 1)
  <2> DEFINE h == [n \in 0 .. 2 * W |->
                     IF n = 0 THEN 0 ELSE f[n - 1] + Pow(2, n - 1) * d(n - 1)]
  <2>1. f = h
    BY <1>7 DEF DigitLoop, d
  <2>2. \A n \in 0 .. 2 * W :
          h[n] = IF n = 0 THEN 0 ELSE f[n - 1] + Pow(2, n - 1) * d(n - 1)
    OBVIOUS
  <2> HIDE DEF h
  <2> QED BY <2>1, <2>2
<1> DEFINE T == {n \in Nat : n <= 2 * W =>
                   f[n] \in Nat /\ f[n] < Pow(2, n) /\ f[n] < U32_SIZE}
<1>10. 0 \in T
  <2>1. f[0] = 0
    BY <1>1, <1>9
  <2>2. Pow(2, 0) = 1
    BY PowAt
  <2> QED BY <2>1, <2>2, Sizes
<1>11. ASSUME NEW n \in Nat, n \in T PROVE n + 1 \in T
  <2> SUFFICES ASSUME n + 1 <= 2 * W
               PROVE  f[n + 1] \in Nat /\ f[n + 1] < Pow(2, n + 1) /\ f[n + 1] < U32_SIZE
    OBVIOUS
  <2>1. n + 1 \in 0 .. 2 * W /\ n + 1 # 0 /\ (n + 1) - 1 = n /\ n <= 2 * W
    BY <1>1
  <2>2. f[n + 1] = f[n] + Pow(2, n) * d(n)
    BY <1>9, <2>1
  <2>3. f[n] \in Nat /\ f[n] < Pow(2, n) /\ f[n] < U32_SIZE
    BY <1>11, <2>1
  <2>4. Pow(2, n) \in Nat /\ Pow(2, n + 1) = Pow(2, n) * 2
    BY PowAt
  <2>5. CASE d(n) = 0
    BY <2>2, <2>3, <2>4, <2>5
  <2>6. CASE d(n) = 1
    <3>1. n + 1 <= W
      BY <1>2, <2>6, Sizes
    <3>2. Pow(2, n + 1) <= U32_SIZE
      BY <3>1, Sizes, PowGrows DEF U32_SIZE
    <3>3. f[n + 1] = f[n] + Pow(2, n)
      BY <2>2, <2>4, <2>6
    <3> QED BY <2>3, <2>4, <3>2, <3>3, Sizes
  <2> QED BY <1>2, <2>5, <2>6
<1> HIDE DEF T
<1>12. Nat \subseteq T
  BY <1>10, <1>11, Ascend
<1>13. f[2 * W] \in Nat /\ f[2 * W] < U32_SIZE
  BY <1>1, <1>12 DEF T
<1> QED
  BY <1>8, <1>13, Sizes DEF U32

LEMMA BitOpsAre ==
  /\ BitAnd \in BitOps /\ BitAnd[0][0] = 0
  /\ BitOr \in BitOps /\ BitOr[0][0] = 0
  /\ BitXor \in BitOps /\ BitXor[0][0] = 0
<1>1. \A a, b \in {0, 1} : {a * b, a + b - a * b, a + b - 2 * a * b} \subseteq {0, 1}
  OBVIOUS
<1> QED
  BY <1>1 DEF BitOps, BitAnd, BitOr, BitXor

-----------------------------------------------------------------------------
(* The variable holds a word, the one it should, until the chain ends.     *)
ExactInv ==
  /\ st = "running" /\ exact # Stray => x \in U32 /\ x = exact
  /\ st = "aborted" => exact = Overflow

(* An operation keeps this when its checks pass with the right word, and   *)
(* fail only when there is none.                                           *)
LEMMA FinishKeeps ==
  ASSUME NEW ok \in BOOLEAN, NEW v, NEW e, Finish([ok |-> ok, v |-> v], e),
         ok => e = Stray \/ (v = e /\ v \in U32),
         ~ ok => e = Overflow
  PROVE  ExactInv'
<1>1. CASE ok
  BY <1>1 DEF Finish, ExactInv
<1>2. CASE ~ ok
  BY <1>2 DEF Finish, ExactInv
<1> QED
  BY <1>1, <1>2

LEMMA CheckedKeeps ==
  ASSUME NEW n \in Nat, Finish(Checked(n), Fit(n))
  PROVE  ExactInv'
<1>1. n < U32_SIZE <=> n \in U32
  BY Sizes DEF U32
<1>2. Finish([ok |-> n < U32_SIZE, v |-> n], Fit(n))
  BY DEF Checked, RangeCheck
<1>3. n < U32_SIZE => n = Fit(n) /\ n \in U32
  BY <1>1 DEF Fit
<1>4. ~ (n < U32_SIZE) => Fit(n) = Overflow
  BY <1>1 DEF Fit
<1>5. (n < U32_SIZE) \in BOOLEAN
  OBVIOUS
<1> QED
  BY <1>2, <1>3, <1>4, <1>5, FinishKeeps

LEMMA CheckedFails ==
  ASSUME NEW v, ~ RangeCheck(v), Finish(Checked(v), Overflow)
  PROVE  ExactInv'
<1>1. RangeCheck(v) = FALSE
  BY DEF RangeCheck
<1>2. Finish([ok |-> FALSE, v |-> v], Overflow)
  BY <1>1 DEF Checked
<1> QED
  BY <1>2, FinishKeeps

LEMMA UncheckedKeeps ==
  ASSUME NEW n, NEW e, Finish(Unchecked(n), e), e = Stray \/ (n = e /\ n \in U32)
  PROVE  ExactInv'
<1>1. Finish([ok |-> TRUE, v |-> n], e)
  BY DEF Unchecked
<1> QED
  BY <1>1, FinishKeeps

(* An operation starts on a word.                                          *)
LEMMA Started ==
  ASSUME ExactInv, exact # Stray, NEW res, NEW e, Finish(res, e)
  PROVE  x \in U32 /\ x \in Nat /\ x < U32_SIZE
BY Sizes DEF ExactInv, Finish, U32

LEMMA AddExact ==
  ASSUME ExactInv, exact # Stray, NEW r \in U32, Add(r)
  PROVE  ExactInv'
<1>1. x \in Nat /\ x < U32_SIZE /\ r \in Nat /\ r < U32_SIZE
  BY Started, Sizes DEF Add, U32
<1>2. x + r \in 0 .. FIELD_ORDER - 1 /\ x + r \in Nat
  BY <1>1, Sizes
<1>3. (x + r) % FIELD_ORDER = x + r
  BY <1>2, Sizes, ModSmall
<1> QED
  BY <1>2, <1>3, CheckedKeeps DEF Add, u32_add

(* A difference below zero lands above every word.                         *)
LEMMA DifferenceAbove ==
  ASSUME NEW n \in 1 .. U32_SIZE
  PROVE  (0 - n) % FIELD_ORDER \in Nat /\ ~ RangeCheck((0 - n) % FIELD_ORDER)
<1>1. n \in Nat /\ 0 < n /\ n <= FIELD_ORDER
  BY Sizes
<1>2. (0 - n) % FIELD_ORDER = FIELD_ORDER - n
  BY <1>1, Sizes, ModNegative
<1> QED
  BY <1>1, <1>2, Sizes DEF RangeCheck

LEMMA DifferenceExact ==
  ASSUME NEW l \in U32, NEW r \in U32, Finish(u32_sub(l, r), Fit(l - r))
  PROVE  ExactInv'
<1>1. l \in Nat /\ l < U32_SIZE /\ r \in Nat /\ r < U32_SIZE
  BY Sizes DEF U32
<1>2. CASE r <= l
  <2>1. l - r \in 0 .. FIELD_ORDER - 1 /\ l - r \in Nat
    BY <1>1, <1>2, Sizes
  <2>2. (l - r) % FIELD_ORDER = l - r
    BY <2>1, Sizes, ModSmall
  <2> QED BY <2>1, <2>2, CheckedKeeps DEF u32_sub
<1>3. CASE l < r
  <2>1. r - l \in 1 .. U32_SIZE /\ l - r = 0 - (r - l)
    BY <1>1, <1>3, Sizes
  <2> DEFINE v == (l - r) % FIELD_ORDER
  <2>2. ~ RangeCheck(v)
    <3> DEFINE n == r - l
    <3>1. n \in 1 .. U32_SIZE /\ l - r = 0 - n
      BY <2>1
    <3> HIDE DEF n
    <3>2. ~ RangeCheck((0 - n) % FIELD_ORDER)
      BY <3>1, DifferenceAbove
    <3> QED BY <3>1, <3>2
  <2>3. Fit(l - r) = Overflow
    BY <1>1, <1>3, Sizes DEF Fit, U32
  <2>4. u32_sub(l, r) = Checked(v)
    BY DEF u32_sub
  <2> HIDE DEF v
  <2> QED BY <2>2, <2>3, <2>4, CheckedFails
<1> QED
  BY <1>1, <1>2, <1>3

LEMMA SubtractExact ==
  ASSUME ExactInv, exact # Stray, NEW r \in U32, Subtract(r)
  PROVE  ExactInv'
<1>1. x \in U32
  BY Started DEF Subtract
<1> QED
  BY <1>1, DifferenceExact DEF Subtract

LEMMA MultiplyExact ==
  ASSUME ExactInv, exact # Stray, NEW r \in U32, Multiply(r)
  PROVE  ExactInv'
<1>1. x \in U32
  BY Started DEF Multiply
<1>2. x * r \in 0 .. FIELD_ORDER - 1
  BY <1>1, ProductFits
<1>3. (x * r) % FIELD_ORDER = x * r /\ x * r \in Nat
  BY <1>2, Sizes, ModSmall
<1> QED
  BY <1>3, CheckedKeeps DEF Multiply, u32_mul

LEMMA PowerExact ==
  ASSUME ExactInv, exact # Stray, NEW r \in 0 .. MaxExp, Power(r)
  PROVE  ExactInv'
<1>1. x \in Nat /\ r \in Nat
  BY Started, Sizes DEF Power
<1> DEFINE n == Pow(x, r) % FIELD_ORDER
<1>2. n \in Nat
  <2>1. Pow(x, r) \in Int
    BY <1>1, PowAt
  <2> QED BY <2>1, Sizes, DivMod
<1>3. Finish(Checked(n), Fit(n))
  BY <1>1, PowerIs DEF Power
<1> HIDE DEF n
<1> QED
  BY <1>2, <1>3, CheckedKeeps

LEMMA BitwiseExact ==
  ASSUME ExactInv, exact # Stray, NEW r \in U32,
         BitwiseAnd(r) \/ BitwiseOr(r) \/ BitwiseXor(r)
  PROVE  ExactInv'
<1>1. x \in U32
  BY Started DEF BitwiseAnd, BitwiseOr, BitwiseXor
<1>2. CASE BitwiseAnd(r)
  BY <1>1, <1>2, BitwiseFits, BitOpsAre, UncheckedKeeps DEF BitwiseAnd, u32_bitwise_and
<1>3. CASE BitwiseOr(r)
  BY <1>1, <1>3, BitwiseFits, BitOpsAre, UncheckedKeeps DEF BitwiseOr, u32_bitwise_or
<1>4. CASE BitwiseXor(r)
  BY <1>1, <1>4, BitwiseFits, BitOpsAre, UncheckedKeeps DEF BitwiseXor, u32_bitwise_xor
<1> QED
  BY <1>2, <1>3, <1>4

LEMMA BitwiseNotExact ==
  ASSUME ExactInv, exact # Stray, BitwiseNot
  PROVE  ExactInv'
<1>1. x \in U32
  BY Started DEF BitwiseNot
<1>2. U32_SIZE - 1 \in U32 /\ U32_SIZE - 1 - x \in U32
  BY <1>1, Sizes DEF U32
<1>3. Finish(u32_sub(U32_SIZE - 1, x), Fit((U32_SIZE - 1) - x))
  BY <1>2 DEF BitwiseNot, u32_bitwise_not, Fit
<1> QED
  BY <1>1, <1>2, <1>3, DifferenceExact

(* A shift to the left: the count is small enough for the power of two to  *)
(* be the real one, and it is checked before its product is.               *)
LEMMA ShiftPower ==
  ASSUME NEW r \in 0 .. MaxExp
  PROVE  /\ Pow(2, r) \in Nat /\ 1 <= Pow(2, r)
         /\ u32_power(2, r) = [ok |-> Pow(2, r) < U32_SIZE, v |-> Pow(2, r)]
         /\ (Pow(2, r) \in U32 <=> Pow(2, r) < U32_SIZE)
<1>1. Pow(2, r) \in 1 .. FIELD_ORDER - 1 /\ r \in Nat
  BY ShiftFits, Sizes
<1>2. Pow(2, r) \in Nat /\ 1 <= Pow(2, r) /\ Pow(2, r) \in 0 .. FIELD_ORDER - 1
  BY <1>1, Sizes
<1>3. Pow(2, r) % FIELD_ORDER = Pow(2, r)
  BY <1>2, Sizes, ModSmall
<1>4. u32_power(2, r) = Checked(Pow(2, r))
  BY <1>1, <1>3, PowerIs
<1>5. u32_power(2, r) = [ok |-> Pow(2, r) < U32_SIZE, v |-> Pow(2, r)]
  BY <1>4 DEF Checked, RangeCheck
<1>6. (Pow(2, r) \in U32) <=> (Pow(2, r) < U32_SIZE)
  BY <1>2, Sizes DEF U32
<1> QED
  BY <1>2, <1>5, <1>6

LEMMA ShiftLeftExact ==
  ASSUME ExactInv, exact # Stray, NEW r \in 0 .. MaxExp, ShiftLeft(r)
  PROVE  ExactInv'
<1>1. x \in U32 /\ x \in Nat
  BY Started DEF ShiftLeft
<1> DEFINE p == Pow(2, r)
           v == (x * p) % FIELD_ORDER
           e == IF p \in U32 THEN Fit(x * p) ELSE Overflow
<1>2. /\ p \in Nat /\ u32_power(2, r) = [ok |-> p < U32_SIZE, v |-> p]
      /\ (p \in U32 <=> p < U32_SIZE)
  BY ShiftPower
<1>3. Finish(u32_shift_left(x, r), e)
  BY DEF ShiftLeft
<1>4. u32_shift_left(x, r) = [ok |-> RangeCheck(v) /\ p < U32_SIZE, v |-> v]
  <2> HIDE DEF p
  <2> DEFINE w == u32_power(2, r)
             c == [ok |-> RangeCheck(v), v |-> v]
  <2>1. w.v = p /\ w.ok = (p < U32_SIZE)
    BY <1>2
  <2>2. u32_shift_left(x, r) = [Checked((x * w.v) % FIELD_ORDER) EXCEPT !.ok = @ /\ w.ok]
    BY Zenon DEF u32_shift_left
  <2> HIDE DEF w
  <2>3. Checked((x * w.v) % FIELD_ORDER) = c
    BY <2>1 DEF Checked
  <2> HIDE DEF v
  <2>4. [c EXCEPT !.ok = @ /\ w.ok] = [ok |-> RangeCheck(v) /\ w.ok, v |-> v]
    OBVIOUS
  <2> HIDE DEF c
  <2> QED BY <2>1, <2>2, <2>3, <2>4
<1> HIDE DEF p
<1>5. CASE p \in U32
  <2>1. x * p \in 0 .. FIELD_ORDER - 1
    BY <1>1, <1>5, ProductFits
  <2>2. v = x * p /\ x * p \in Nat
    BY <2>1, Sizes, ModSmall
  <2> HIDE DEF v
  <2>3. (RangeCheck(v) /\ p < U32_SIZE) = RangeCheck(v)
    BY <1>2, <1>5 DEF RangeCheck
  <2>4. Finish(Checked(v), Fit(v))
    BY <1>3, <1>4, <1>5, <2>2, <2>3 DEF Checked
  <2> QED BY <2>2, <2>4, CheckedKeeps
<1>6. CASE p \notin U32
  <2> HIDE DEF v
  <2>1. (RangeCheck(v) /\ p < U32_SIZE) = FALSE
    BY <1>2, <1>6
  <2>2. Finish([ok |-> FALSE, v |-> v], Overflow)
    BY <1>3, <1>4, <1>6, <2>1
  <2> QED BY <2>2, FinishKeeps
<1> QED
  BY <1>5, <1>6

-----------------------------------------------------------------------------
(* Division: the checks accept the honest answers, and no answer when the  *)
(* divisor is zero.                                                        *)
LEMMA DivModAccepts ==
  ASSUME NEW l \in U32, NEW d \in U32, d # 0, NEW pointer \in {0, 1}
  PROVE  /\ u32_div_mod(l, d, l \div d, l % d, pointer)
         /\ l \div d \in U32 /\ l % d \in U32
<1> DEFINE q == l \div d
           m == l % d
<1>1. l \in Nat /\ l < U32_SIZE /\ d \in Nat /\ d < U32_SIZE /\ 0 < d
  BY Sizes DEF U32
<1>2. q \in Int /\ m \in 0 .. d - 1 /\ l = d * q + m
  BY <1>1, DivMod
<1>3. q \in Nat /\ q <= l
  BY <1>1
<1> HIDE DEF q, m
<1>4. m \in Nat /\ m < d
  BY <1>1, <1>2
<1>5. q * d + m = l /\ l \in 0 .. FIELD_ORDER - 1
  BY <1>1, <1>2, <1>3, <1>4, Sizes
<1>6. (q * d + m) % FIELD_ORDER = l
  BY <1>5, Sizes, ModSmall
<1>7. d - (m + 1) \in 0 .. FIELD_ORDER - 1 /\ d - (m + 1) < U32_SIZE
  BY <1>1, <1>4, Sizes
<1>8. (d - (m + 1)) % FIELD_ORDER = d - (m + 1)
  BY <1>7, Sizes, ModSmall
<1>9. q \in U32 /\ m \in U32
  BY <1>1, <1>3, <1>4, Sizes DEF U32
<1>10. u32_div_mod(l, d, q, m, pointer)
  BY <1>1, <1>4, <1>6, <1>7, <1>8, Sizes DEF u32_div_mod, RangeCheck
<1> QED
  BY <1>9, <1>10 DEF q, m

LEMMA DivModRefuses ==
  ASSUME NEW l, NEW q, NEW rem \in FieldElement, NEW pointer
  PROVE  ~ u32_div_mod(l, 0, q, rem, pointer)
<1> SUFFICES ASSUME u32_div_mod(l, 0, q, rem, pointer) PROVE FALSE
  OBVIOUS
<1>1. rem \in Nat /\ rem < U32_SIZE
  BY Sizes DEF u32_div_mod, RangeCheck, FieldElement
<1> DEFINE n == rem + 1
<1>2. n \in 1 .. U32_SIZE
  BY <1>1, Sizes
<1>3. RangeCheck((0 - n) % FIELD_ORDER)
  BY DEF u32_div_mod
<1> HIDE DEF n
<1> QED
  BY <1>2, <1>3, DifferenceAbove

(* What the prover may answer to a division.                               *)
LEMMA Answers ==
  ASSUME NEW l \in U32, NEW d \in U32, NEW pointer \in {0, 1},
         NEW q \in ProphetDiv(l, d), NEW rem \in ProphetMod(l, d)
  PROVE  /\ u32_div_mod(l, d, q, rem, pointer) \in BOOLEAN
         /\ d = 0 => ~ u32_div_mod(l, d, q, rem, pointer)
         /\ d # 0 => /\ u32_div_mod(l, d, q, rem, pointer)
                     /\ q = l \div d /\ q \in U32
                     /\ rem = l % d /\ rem \in U32
<1>1. u32_div_mod(l, d, q, rem, pointer) \in BOOLEAN
  BY DEF u32_div_mod, RangeCheck
<1>2. CASE d = 0
  <2>1. rem \in FieldElement
    BY <1>2 DEF ProphetMod
  <2> QED BY <1>1, <1>2, <2>1, DivModRefuses
<1>3. CASE d # 0
  <2>1. q = l \div d /\ rem = l % d
    BY <1>3 DEF ProphetDiv, ProphetMod
  <2> QED BY <1>1, <1>3, <2>1, DivModAccepts
<1> QED
  BY <1>2, <1>3

LEMMA DivideExact ==
  ASSUME ExactInv, exact # Stray, NEW r \in U32, Divide(r)
  PROVE  ExactInv'
<1> DEFINE e == IF r = 0 THEN Overflow ELSE x \div r
<1>1. PICK q \in ProphetDiv(x, r), rem \in ProphetMod(x, r) :
         Finish([ok |-> u32_div_mod(x, r, q, rem, 1), v |-> q], e)
  BY DEF Divide
<1>2. x \in U32
  BY <1>1, Started
<1> DEFINE ok == u32_div_mod(x, r, q, rem, 1)
<1>3. ok \in BOOLEAN /\ (r = 0 => ~ ok) /\ (r # 0 => ok /\ q = x \div r /\ q \in U32)
  BY <1>2, Answers
<1> HIDE DEF ok
<1>4. Finish([ok |-> ok, v |-> q], e)
  BY <1>1 DEF ok
<1>5. (ok => q = e /\ q \in U32) /\ (~ ok => e = Overflow)
  BY <1>3
<1> HIDE DEF e
<1> QED
  BY <1>3, <1>4, <1>5, FinishKeeps

LEMMA ModuloExact ==
  ASSUME ExactInv, exact # Stray, NEW r \in U32, Modulo(r)
  PROVE  ExactInv'
<1> DEFINE e == IF r = 0 THEN Overflow ELSE x % r
<1>1. PICK q \in ProphetDiv(x, r), rem \in ProphetMod(x, r) :
         Finish([ok |-> u32_div_mod(x, r, q, rem, 0), v |-> rem], e)
  BY DEF Modulo
<1>2. x \in U32
  BY <1>1, Started
<1> DEFINE ok == u32_div_mod(x, r, q, rem, 0)
<1>3. ok \in BOOLEAN /\ (r = 0 => ~ ok) /\ (r # 0 => ok /\ rem = x % r /\ rem \in U32)
  BY <1>2, Answers
<1> HIDE DEF ok
<1>4. Finish([ok |-> ok, v |-> rem], e)
  BY <1>1 DEF ok
<1>5. (ok => rem = e /\ rem \in U32) /\ (~ ok => e = Overflow)
  BY <1>3
<1> HIDE DEF e
<1> QED
  BY <1>3, <1>4, <1>5, FinishKeeps

LEMMA ShiftRightExact ==
  ASSUME ExactInv, exact # Stray, NEW r \in 0 .. MaxExp, ShiftRight(r)
  PROVE  ExactInv'
<1> DEFINE p == Pow(2, r)
           e == IF p \in U32 THEN x \div p ELSE Overflow
<1>1. /\ p \in Nat /\ 1 <= p /\ u32_power(2, r) = [ok |-> p < U32_SIZE, v |-> p]
      /\ (p \in U32 <=> p < U32_SIZE)
  BY ShiftPower
<1>2. PICK q \in ProphetDiv(x, p), rem \in ProphetMod(x, p) :
         Finish([ok |-> p < U32_SIZE /\ u32_div_mod(x, p, q, rem, 1), v |-> q], e)
  <2> DEFINE w == u32_power(2, r)
  <2>1. \E q \in ProphetDiv(x, w.v), rem \in ProphetMod(x, w.v) :
           Finish([ok |-> w.ok /\ u32_div_mod(x, w.v, q, rem, 1), v |-> q], e)
    BY DEF ShiftRight
  <2>2. w.v = p /\ w.ok = (p < U32_SIZE)
    BY <1>1
  <2> HIDE DEF w, p, e
  <2> QED BY <2>1, <2>2
<1>3. x \in U32
  BY <1>2, Started
<1> DEFINE a == p < U32_SIZE
           b == u32_div_mod(x, p, q, rem, 1)
           ok == a /\ b
<1>4. ok \in BOOLEAN
  OBVIOUS
<1>5. p \in U32 => ok /\ q = x \div p /\ q \in U32
  <2> SUFFICES ASSUME p \in U32 PROVE ok /\ q = x \div p /\ q \in U32
    OBVIOUS
  <2>1. p # 0
    BY <1>1
  <2> HIDE DEF p
  <2> QED BY <1>1, <1>3, <2>1, Answers
<1>6. p \notin U32 => ~ ok
  BY <1>1
<1> HIDE DEF ok
<1>7. Finish([ok |-> ok, v |-> q], e)
  BY <1>2 DEF ok
<1>8. (ok => q = e /\ q \in U32) /\ (~ ok => e = Overflow)
  BY <1>5, <1>6
<1> HIDE DEF e
<1> QED
  BY <1>4, <1>7, <1>8, FinishKeeps

-----------------------------------------------------------------------------
(* A word has at most one root, and its square does not wrap.              *)
LEMMA OneRoot ==
  ASSUME NEW a \in U32, NEW b \in U32, a * a = b * b
  PROVE  a = b
<1>1. a \in Nat /\ b \in Nat
  BY Sizes DEF U32
<1>2. ASSUME NEW m \in Nat, NEW n \in Nat, m < n
      PROVE  m * m < n * n
  <2>1. m * m <= m * n /\ m * n < n * n
    BY <1>2
  <2> QED BY <2>1
<1>3. ~ (a < b) /\ ~ (b < a)
  BY <1>1, <1>2
<1> QED
  BY <1>1, <1>3

LEMMA SqrtExact ==
  ASSUME ExactInv, exact # Stray, Sqrt
  PROVE  ExactInv'
<1> DEFINE Root == CHOOSE s \in U32 : s * s = x
           e == IF \E s \in U32 : s * s = x /\ st' = "running" THEN Root ELSE Overflow
<1>1. PICK root \in FieldElement : Finish([ok |-> u32_sqrt(x, root), v |-> root], e)
  BY DEF Sqrt, ProphetSqrt
<1>2. x \in U32
  BY <1>1, Started
<1> DEFINE ok == u32_sqrt(x, root)
<1>3. ok \in BOOLEAN
  BY DEF u32_sqrt, RangeCheck
<1>4. ok => root \in U32 /\ root * root = x
  <2> SUFFICES ASSUME ok PROVE root \in U32 /\ root * root = x
    OBVIOUS
  <2>1. root \in U32
    BY Sizes DEF u32_sqrt, RangeCheck, FieldElement, U32
  <2>2. (root * root) % FIELD_ORDER = x
    BY DEF u32_sqrt
  <2>3. root * root \in 0 .. FIELD_ORDER - 1
    BY <2>1, ProductFits
  <2>4. (root * root) % FIELD_ORDER = root * root
    BY <2>3, Sizes, ModSmall
  <2> QED BY <2>1, <2>2, <2>4
<1> HIDE DEF ok
<1>5. Finish([ok |-> ok, v |-> root], e)
  BY <1>1 DEF ok
<1>6. st' = IF ok THEN "running" ELSE "aborted"
  BY <1>5 DEF Finish
<1>7. ok => root = e
  <2> SUFFICES ASSUME ok PROVE root = e
    OBVIOUS
  <2>1. root \in U32 /\ root * root = x
    BY <1>4
  <2>2. Root \in U32 /\ Root * Root = x
    BY <2>1, Zenon
  <2>3. e = Root
    BY <1>6, <2>1
  <2> HIDE DEF Root, e
  <2> QED BY <2>1, <2>2, <2>3, OneRoot
<1>8. ~ ok => e = Overflow
  BY <1>6
<1> HIDE DEF e
<1> QED
  BY <1>3, <1>4, <1>5, <1>7, <1>8, FinishKeeps

(* Truth values are words.                                                 *)
LEMMA BitIsWord == {0, 1} \subseteq U32
BY Sizes DEF U32

LEMMA CompareExact ==
  ASSUME ExactInv, exact # Stray, NEW r \in U32, NEW op \in Predicates, Compare(op, r)
  PROVE  ExactInv'
<1>1. x \in Nat /\ r \in Nat
  BY Started, Sizes DEF Compare, U32
<1> DEFINE n == u32_compare(op, x, r)
           e == CASE op = "EQ"  -> Bit(x = r)
                  [] op = "NE"  -> 1 - Bit(x = r)
                  [] op = "UGT" -> Bit(x - r > 0)
                  [] op = "UGE" -> 1 - Bit(x - r < 0)
                  [] op = "ULT" -> Bit(r - x > 0)
                  [] op = "ULE" -> 1 - Bit(r - x < 0)
<1>2. Finish(Unchecked(n), e)
  BY DEF Compare
<1>3. n = e /\ n \in {0, 1}
  <2>1. CASE op = "EQ"
    <3>1. n = Bit(x = r) /\ e = Bit(x = r)
      BY <2>1 DEF u32_compare
    <3>2. Bit(x = r) = Bit(x = r) /\ Bit(x = r) \in {0, 1}
      BY <1>1 DEF Bit
    <3> QED BY <3>1, <3>2
  <2>2. CASE op = "NE"
    <3>1. n = Bit(x # r) /\ e = 1 - Bit(x = r)
      BY <2>2 DEF u32_compare
    <3>2. Bit(x # r) = 1 - Bit(x = r) /\ Bit(x # r) \in {0, 1}
      BY <1>1 DEF Bit
    <3> QED BY <3>1, <3>2
  <2>3. CASE op = "UGT"
    <3>1. n = Bit(x > r) /\ e = Bit(x - r > 0)
      BY <2>3 DEF u32_compare
    <3>2. Bit(x > r) = Bit(x - r > 0) /\ Bit(x > r) \in {0, 1}
      BY <1>1 DEF Bit
    <3> QED BY <3>1, <3>2
  <2>4. CASE op = "UGE"
    <3>1. n = Bit(x >= r) /\ e = 1 - Bit(x - r < 0)
      BY <2>4 DEF u32_compare
    <3>2. Bit(x >= r) = 1 - Bit(x - r < 0) /\ Bit(x >= r) \in {0, 1}
      BY <1>1 DEF Bit
    <3> QED BY <3>1, <3>2
  <2>5. CASE op = "ULT"
    <3>1. n = Bit(x < r) /\ e = Bit(r - x > 0)
      BY <2>5 DEF u32_compare
    <3>2. Bit(x < r) = Bit(r - x > 0) /\ Bit(x < r) \in {0, 1}
      BY <1>1 DEF Bit
    <3> QED BY <3>1, <3>2
  <2>6. CASE op = "ULE"
    <3>1. n = Bit(x <= r) /\ e = 1 - Bit(r - x < 0)
      BY <2>6 DEF u32_compare
    <3>2. Bit(x <= r) = 1 - Bit(r - x < 0) /\ Bit(x <= r) \in {0, 1}
      BY <1>1 DEF Bit
    <3> QED BY <3>1, <3>2
  <2> QED BY <2>1, <2>2, <2>3, <2>4, <2>5, <2>6 DEF Predicates
<1> HIDE DEF n, e
<1> QED
  BY <1>2, <1>3, BitIsWord, UncheckedKeeps

LEMMA LogicExact ==
  ASSUME ExactInv, exact # Stray, NEW r \in U32, Logic(r)
  PROVE  ExactInv'
<1>1. x \in {0, 1} /\ r \in {0, 1}
  BY DEF Logic
<1>2. /\ logic_or(x, r) = x + r - x * r /\ logic_or(x, r) \in {0, 1}
      /\ logic_and(x, r) = x * r /\ logic_and(x, r) \in {0, 1}
      /\ logic_not(x) = 1 - x /\ logic_not(x) \in {0, 1}
  BY <1>1 DEF logic_or, logic_and, logic_not, Bit
<1>3. \/ Finish(Unchecked(logic_or(x, r)), x + r - x * r)
      \/ Finish(Unchecked(logic_and(x, r)), x * r)
      \/ Finish(Unchecked(logic_not(x)), 1 - x)
  BY DEF Logic
<1> QED
  BY <1>2, <1>3, BitIsWord, UncheckedKeeps

(* A step that is not checked is exact, or leaves the range for good.      *)
LEMMA StepExact ==
  ASSUME ExactInv, exact # Stray, Increment \/ Decrement
  PROVE  ExactInv'
<1> DEFINE e(d) == IF x + d \in U32 THEN x + d ELSE Stray
<1>1. PICK d \in {1, -1} : Finish(Unchecked((x + d) % FIELD_ORDER), e(d))
  <2>1. CASE Increment
    BY <2>1 DEF Increment
  <2>2. CASE Decrement
    <3>1. x \in Int
      BY <2>2, Started DEF Decrement
    <3>2. x - 1 = x + (-1)
      BY <3>1
    <3>3. Finish(Unchecked((x + (-1)) % FIELD_ORDER), e(-1))
      BY <2>2, <3>2 DEF Decrement
    <3> QED BY <3>3
  <2> QED BY <2>1, <2>2
<1>2. x \in Nat /\ x < U32_SIZE
  BY <1>1, Started
<1>3. CASE x + d \in U32
  <2>1. x + d \in 0 .. FIELD_ORDER - 1
    BY <1>3, Sizes DEF U32
  <2>2. (x + d) % FIELD_ORDER = x + d
    BY <2>1, Sizes, ModSmall
  <2> QED BY <1>1, <1>3, <2>2, UncheckedKeeps
<1>4. CASE x + d \notin U32
  BY <1>1, <1>4, UncheckedKeeps
<1> QED
  BY <1>3, <1>4

-----------------------------------------------------------------------------
(* Every operator case of expression keeps the invariant.                  *)
LEMMA OperateExact ==
  ASSUME ExactInv, exact # Stray, Operate
  PROVE  ExactInv'
<1>1. CASE \E r \in U32 : Add(r) \/ Subtract(r) \/ Multiply(r) \/ Divide(r)
                            \/ Modulo(r) \/ Logic(r)
  BY <1>1, AddExact, SubtractExact, MultiplyExact, DivideExact, ModuloExact, LogicExact
<1>2. CASE \E r \in U32 : BitwiseAnd(r) \/ BitwiseOr(r) \/ BitwiseXor(r)
  BY <1>2, BitwiseExact
<1>3. CASE \E r \in U32, op \in Predicates : Compare(op, r)
  BY <1>3, CompareExact
<1>4. CASE \E r \in Exponents : Power(r) \/ ShiftLeft(r) \/ ShiftRight(r)
  BY <1>4, PowerExact, ShiftLeftExact, ShiftRightExact DEF Exponents
<1>5. CASE BitwiseNot \/ Sqrt \/ Increment \/ Decrement
  BY <1>5, BitwiseNotExact, SqrtExact, StepExact
<1> QED
  BY <1>1, <1>2, <1>3, <1>4, <1>5 DEF Operate

(* The generated u32 code computes the integers (u32_op.rs, corelib.rs):   *)
(* along every chain of operations the variable holds the integer result   *)
(* of the last one, and a check fails only when it has no u32 result.      *)
THEOREM ArithExact == ArithSpec => []Exact
<1>1. ArithInit => ExactInv
  BY DEF ArithInit, ExactInv
<1>2. ExactInv /\ [ArithNext]_arithVars => ExactInv'
  <2> SUFFICES ASSUME ExactInv, [ArithNext]_arithVars
               PROVE  ExactInv'
    OBVIOUS
  <2>1. CASE exact # Stray /\ Operate
    BY <2>1, OperateExact
  <2>2. CASE UNCHANGED arithVars
    BY <2>2 DEF ExactInv, arithVars
  <2> QED BY <2>1, <2>2 DEF ArithNext
<1>3. ExactInv => Exact
  BY DEF ExactInv, Exact
<1> QED
  BY <1>1, <1>2, <1>3, PTL DEF ArithSpec
=============================================================================
