------------------------------ MODULE U32Arith ------------------------------
(***************************************************************************)
(* The code generated for u32 expressions (irgen/u32_op.rs, the scalar     *)
(* part of irgen/corelib.rs and the operator cases of                      *)
(* irgen/expression.rs).  The virtual machine computes in a prime field;   *)
(* a u32 is a field element below 2^32 and every operation is followed by  *)
(* a range check or by an assertion about an answer the prover supplies.   *)
(* W scales the field down: u32 values have W bits and the modulus keeps   *)
(* the shape 2^2W - 2^W + 1 of the real one.                               *)
(*                                                                         *)
(* A behaviour is a chain of operations on one variable x.  exact is the   *)
(* integer the operation should give, Overflow when it has no u32 result,  *)
(* Stray once an unchecked x++ or x-- has left the range: the chain is     *)
(* followed up to there.                                                   *)
(***************************************************************************)
EXTENDS Integers

CONSTANTS W,        \* bits of a u32
          MaxExp    \* bound on exponents and shift counts

ASSUME ArithAssumption == {W, MaxExp} \subseteq Nat /\ 2 <= W /\ MaxExp < 2 * W

VARIABLES x,      \* the variable the expressions read and assign
          exact,  \* what the last operation has to give
          st,     \* "running", or "aborted" by a failed check
          null    \* the word at address 0, where an unwanted result is stored

arithVars == <<x, exact, st, null>>

Pow(b, n) ==
    LET p[i \in 0 .. n] == IF i = 0 THEN 1 ELSE p[i - 1] * b
    IN  p[n]

U32_SIZE     == Pow(2, W)
FIELD_ORDER  == U32_SIZE * U32_SIZE - U32_SIZE + 1
U32          == 0 .. U32_SIZE - 1
FieldElement == 0 .. FIELD_ORDER - 1
Overflow     == -1
Stray        == -2
Fit(n)       == IF n \in U32 THEN n ELSE Overflow

(* The bitwise instructions of the machine, on the 2W bits of an element.  *)
BitAnd == [a \in {0, 1} |-> [b \in {0, 1} |-> a * b]]
BitOr  == [a \in {0, 1} |-> [b \in {0, 1} |-> a + b - a * b]]
BitXor == [a \in {0, 1} |-> [b \in {0, 1} |-> a + b - 2 * a * b]]

Digit(n, i) == (n \div Pow(2, i)) % 2

Bitwise(op, l, r) ==
    LET low[n \in 0 .. 2 * W] ==
            IF n = 0 THEN 0
            ELSE low[n - 1] + Pow(2, n - 1) * op[Digit(l, n - 1)][Digit(r, n - 1)]
    IN  low[2 * W]

----------------------------------------------------------------------------
(* The range check the machine performs, and results that are checked. *)

RangeCheck(v) == v < U32_SIZE
Checked(v)    == [ok |-> RangeCheck(v), v |-> v]
Unchecked(v)  == [ok |-> TRUE, v |-> v]

u32_add(l, r) == Checked((l + r) % FIELD_ORDER)
u32_sub(l, r) == Checked((l - r) % FIELD_ORDER)
u32_mul(l, r) == Checked((l * r) % FIELD_ORDER)
u32_bitwise_and(l, r) == Unchecked(Bitwise(BitAnd, l, r))
u32_bitwise_or(l, r)  == Unchecked(Bitwise(BitOr, l, r))
u32_bitwise_xor(l, r) == Unchecked(Bitwise(BitXor, l, r))
u32_bitwise_not(e)    == u32_sub(U32_SIZE - 1, e)

(* The loop of u32_power: result_phi when counter_phi is c, left when the  *)
(* next counter is above the exponent; only the last product is checked.   *)
u32_power(base, exponent) ==
    LET result[c \in 0 .. exponent] ==
            IF c = 0 THEN 1 ELSE (result[c - 1] * base) % FIELD_ORDER
    IN  Checked(result[CHOOSE c \in 0 .. exponent : ~ (c + 1 <= exponent)])

(* The prover's answers; an honest one divides integers.  A zero divisor   *)
(* has no honest answer, so any is given.                                  *)
ProphetDiv(l, r) == IF r = 0 THEN U32 ELSE {l \div r}
ProphetMod(l, r) == IF r = 0 THEN FieldElement ELSE {l % r}
ProphetSqrt      == FieldElement

(* The checks of u32_div_mod on the answers q and rem; pointer is the      *)
(* address the quotient goes to, which is what the third check is given.   *)
u32_div_mod(l, d, q, rem, pointer) ==
    /\ RangeCheck(rem)
    /\ RangeCheck((d - (rem + 1)) % FIELD_ORDER)
    /\ RangeCheck(pointer)
    /\ (q * d + rem) % FIELD_ORDER = l

NoRoot(value, root) == (root * root) % FIELD_ORDER = value

u32_sqrt(value, root) == RangeCheck(root) /\ (root * root) % FIELD_ORDER = value

u32_shift_left(l, r) ==
    LET pow_two == u32_power(2, r)
    IN  [Checked((l * pow_two.v) % FIELD_ORDER) EXCEPT !.ok = @ /\ pow_two.ok]

Bit(b) == IF b THEN 1 ELSE 0
u32_compare(op, l, r) ==
    Bit(CASE op = "EQ"  -> l = r   [] op = "NE"  -> l # r
          [] op = "UGT" -> l > r   [] op = "UGE" -> l >= r
          [] op = "ULT" -> l < r   [] op = "ULE" -> l <= r)
logic_or(l, r)  == Bit(l = 1 \/ r = 1)
logic_and(l, r) == Bit(l = 1 /\ r = 1)
logic_not(e)    == Bit(e = 0)

----------------------------------------------------------------------------
(* One action per operator case of expression: the result is assigned to x *)
(* when every check succeeds, and the transaction aborts otherwise.        *)

ArithInit == x \in U32 /\ exact = x /\ st = "running" /\ null = 0

Finish(res, e) ==
    /\ st = "running"
    /\ st' = IF res.ok THEN "running" ELSE "aborted"
    /\ x' = IF res.ok THEN res.v ELSE x
    /\ exact' = e

Add(r)        == Finish(u32_add(x, r), Fit(x + r)) /\ UNCHANGED null
Subtract(r)   == Finish(u32_sub(x, r), Fit(x - r)) /\ UNCHANGED null
Multiply(r)   == Finish(u32_mul(x, r), Fit(x * r)) /\ UNCHANGED null
Power(r)      == Finish(u32_power(x, r), Fit(Pow(x, r) % FIELD_ORDER))
                   /\ UNCHANGED null
BitwiseAnd(r) == Finish(u32_bitwise_and(x, r), Bitwise(BitAnd, x, r)) /\ UNCHANGED null
BitwiseOr(r)  == Finish(u32_bitwise_or(x, r), Bitwise(BitOr, x, r)) /\ UNCHANGED null
BitwiseXor(r) == Finish(u32_bitwise_xor(x, r), Bitwise(BitXor, x, r)) /\ UNCHANGED null
BitwiseNot    == Finish(u32_bitwise_not(x), U32_SIZE - 1 - x) /\ UNCHANGED null
ShiftLeft(r)  == Finish(u32_shift_left(x, r),
                        IF Pow(2, r) \in U32 THEN Fit(x * Pow(2, r)) ELSE Overflow)
                   /\ UNCHANGED null

(* A division stores both answers: the one nobody asked for at address 0.  *)
Divide(r) ==
    \E q \in ProphetDiv(x, r), rem \in ProphetMod(x, r) :
        /\ Finish([ok |-> u32_div_mod(x, r, q, rem, 1), v |-> q],
                  IF r = 0 THEN Overflow ELSE x \div r)
        /\ null' = IF st' = "running" THEN rem ELSE null

Modulo(r) ==
    \E q \in ProphetDiv(x, r), rem \in ProphetMod(x, r) :
        /\ Finish([ok |-> u32_div_mod(x, r, q, rem, 0), v |-> rem],
                  IF r = 0 THEN Overflow ELSE x % r)
        /\ null' = IF st' = "running" THEN q ELSE null

(* The power of two is a u32 or the shift aborts; then it is a division.   *)
ShiftRight(r) ==
    LET pow_two == u32_power(2, r)
    IN  \E q \in ProphetDiv(x, pow_two.v), rem \in ProphetMod(x, pow_two.v) :
            /\ Finish([ok |-> pow_two.ok
                                /\ u32_div_mod(x, pow_two.v, q, rem, 1),
                       v  |-> q],
                      IF Pow(2, r) \in U32 THEN x \div Pow(2, r) ELSE Overflow)
            /\ null' = IF st' = "running" THEN rem ELSE null

(* u32_sqrt takes any root the prover offers; one that fails is refused.   *)
Sqrt ==
    \E root \in ProphetSqrt :
        /\ Finish([ok |-> u32_sqrt(x, root), v |-> root],
                  IF \E s \in U32 : s * s = x /\ st' = "running"
                  THEN CHOOSE s \in U32 : s * s = x ELSE Overflow)
        /\ UNCHANGED null

Compare(op, r) ==
    Finish(Unchecked(u32_compare(op, x, r)),
           CASE op = "EQ"  -> Bit(x = r)
             [] op = "NE"  -> 1 - Bit(x = r)
             [] op = "UGT" -> Bit(x - r > 0)
             [] op = "UGE" -> 1 - Bit(x - r < 0)
             [] op = "ULT" -> Bit(r - x > 0)
             [] op = "ULE" -> 1 - Bit(r - x < 0)) /\ UNCHANGED null

Logic(r) == x \in {0, 1} /\ r \in {0, 1} /\ UNCHANGED null
            /\ \/ Finish(Unchecked(logic_or(x, r)), x + r - x * r)
               \/ Finish(Unchecked(logic_and(x, r)), x * r)
               \/ Finish(Unchecked(logic_not(x)), 1 - x)

(* x++ and x-- are not range checked. *)
Increment == Finish(Unchecked((x + 1) % FIELD_ORDER), IF x + 1 \in U32 THEN x + 1 ELSE Stray)
             /\ UNCHANGED null
Decrement == Finish(Unchecked((x - 1) % FIELD_ORDER), IF x - 1 \in U32 THEN x - 1 ELSE Stray)
             /\ UNCHANGED null

----------------------------------------------------------------------------
Exponents  == 0 .. MaxExp
Predicates == {"EQ", "NE", "UGT", "UGE", "ULT", "ULE"}

Operate ==
    \/ \E r \in U32 : Add(r) \/ Subtract(r) \/ Multiply(r) \/ Divide(r)
                        \/ Modulo(r) \/ Logic(r)
    \/ \E r \in U32 : BitwiseAnd(r) \/ BitwiseOr(r) \/ BitwiseXor(r)
    \/ \E r \in U32, op \in Predicates : Compare(op, r)
    \/ \E r \in Exponents : Power(r) \/ ShiftLeft(r) \/ ShiftRight(r)
    \/ BitwiseNot \/ Sqrt \/ Increment \/ Decrement

ArithNext ==
    \/ exact # Stray /\ Operate
    \/ (st = "aborted" \/ exact = Stray) /\ UNCHANGED arithVars

ArithSpec == ArithInit /\ [][ArithNext]_arithVars

----------------------------------------------------------------------------
(* Along every chain of operations the variable holds the integer result   *)
(* of the last one (a power: modulo the prime), whatever the field         *)
(* arithmetic wrapped on the way, and the range checks and assertions stop *)
(* the transaction only when there is no u32 result: a quotient by zero,   *)
(* an overflow, a bad square root (u32_op.rs, define_u32_div_mod,          *)
(* define_u32_power, define_u32_sqrt).                                     *)
Exact == /\ st = "running" /\ exact # Stray => x = exact
         /\ st = "aborted" => exact = Overflow
=============================================================================
