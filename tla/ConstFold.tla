----------------------------- MODULE ConstFold -----------------------------
(***************************************************************************)
(* Constant expressions (sema/eval.rs).  The compiler computes them twice, *)
(* with unbounded integers: check_term_for_constant_overflow folds what is *)
(* constant in an expression only to find out whether it overflows, and    *)
(* eval_const_number gives the length of an array type.  The program       *)
(* computes the same expression again at run time, in the field, with the  *)
(* code of U32Arith: nothing is folded for it.                             *)
(*                                                                         *)
(* An expression is <<"num", n>>, <<"var">>, <<"bitnot", e>> or            *)
(* <<op, left, right>>, and its type is u32 of W bits.  The exponent of a  *)
(* power is limited to u16 and the count of a shift to u64 by the folder;  *)
(* ExpBits stands for both.                                                *)
(***************************************************************************)
EXTENDS Integers, Bitwise

CONSTANTS W, MaxExp,   \* see U32Arith
          ExpBits,     \* bits of the largest exponent and shift count
          MinusBits,   \* bits in which bitwise operators see a negative number
          Exprs        \* the expressions that are compiled

VARIABLES expr, value,     \* the expression and the value of its variable
          errors,          \* what the checker reports
          dim,             \* the length eval_const_number gives
          result,          \* what the program computes
          pc

vars == <<expr, value, errors, dim, result, pc>>

U == INSTANCE U32Arith WITH x <- 0, exact <- 0, st <- "", null <- 0

Bin == {"add", "sub", "mul", "div", "mod", "pow", "shl", "shr", "and", "or", "xor"}
IsBin(e) == e[1] \in Bin

(***************************************************************************)
(* BigInt: division rounds towards zero, a shift to the right rounds down, *)
(* and the bitwise operators see a negative number in two's complement.    *)
(***************************************************************************)
Abs(n)  == IF n < 0 THEN -n ELSE n
Div(l, r) == (IF (l < 0) = (r < 0) THEN 1 ELSE -1) * (Abs(l) \div Abs(r))
Rem(l, r) == l - r * Div(l, r)
Pow(b, n) == LET p[i \in 0..n] == IF i = 0 THEN 1 ELSE p[i - 1] * b IN p[n]
Word(n)   == n % 2^MinusBits
Signed(n) == IF n >= 2^(MinusBits - 1) THEN n - 2^MinusBits ELSE n

\* The wrong way: bitwise or computed as exclusive or.
ApplyXor(op, l, r) ==
    CASE op = "add" -> l + r          [] op = "sub" -> l - r
      [] op = "mul" -> l * r          [] op = "div" -> Div(l, r)
      [] op = "mod" -> Rem(l, r)      [] op = "pow" -> Pow(l, r)
      [] op = "shl" -> l * 2^r        [] op = "shr" -> l \div 2^r
      [] op = "and" -> Signed(Word(l) & Word(r))
      [] op \in {"or", "xor"} -> Signed(Word(l) ^^ Word(r))

Apply(op, l, r) ==
    CASE op = "add" -> l + r          [] op = "sub" -> l - r
      [] op = "mul" -> l * r          [] op = "div" -> Div(l, r)
      [] op = "mod" -> Rem(l, r)      [] op = "pow" -> Pow(l, r)
      [] op = "shl" -> l * 2^r        [] op = "shr" -> l \div 2^r
      [] op = "and" -> Signed(Word(l) & Word(r))
      [] op = "or"  -> Signed(Word(l) | Word(r))
      [] op = "xor" -> Signed(Word(l) ^^ Word(r))

(***************************************************************************)
(* check_term_for_constant_overflow                                        *)
(***************************************************************************)
overflow_check(n, bits) == n < 0 \/ n >= 2^bits

\* What folding gives: a number or nothing, whether the walk may go on below,
\* and the errors it has reported.
Fold(is, v, go, errs) == [is |-> is, v |-> v, go |-> go, errs |-> errs]
Nothing(go, errs) == Fold(FALSE, 0, go, errs)

Limited == {"pow", "shl", "shr"}

FoldBinary(op, l, r) ==
    LET errs == l.errs \cup r.errs IN
    CASE ~(l.is /\ r.is) -> Nothing(TRUE, errs)
      [] op \in {"div", "mod"} /\ r.v = 0 -> Nothing(FALSE, errs \cup {"zero"})
      [] op \in Limited /\ overflow_check(r.v, ExpBits) -> Nothing(FALSE, errs \cup {"limit"})
      [] OTHER -> Fold(TRUE, Apply(op, l.v, r.v), TRUE, errs)

RECURSIVE eval_constants_in_expression(_)
eval_constants_in_expression(e) ==
    CASE e[1] = "num" -> Fold(TRUE, e[2], TRUE, {})
      [] IsBin(e) -> FoldBinary(e[1], eval_constants_in_expression(e[2]),
                                      eval_constants_in_expression(e[3]))
      [] OTHER -> Nothing(TRUE, {})

\* A term that is a number as a whole is checked as a whole, and the walk does
\* not look at the operations inside it.
check_term_for_constant_overflow(e) ==
    LET f == eval_constants_in_expression(e) IN
    IF ~IsBin(e) /\ e[1] # "num" THEN Nothing(TRUE, {})
    ELSE IF f.is THEN Nothing(FALSE, f.errs \cup (IF overflow_check(f.v, W) THEN {"overflow"} ELSE {}))
    ELSE Nothing(f.go, f.errs)

RECURSIVE recurse(_)
recurse(e) ==
    LET t == check_term_for_constant_overflow(e) IN
    t.errs \cup (CASE ~t.go -> {}
                   [] e[1] = "bitnot" -> recurse(e[2])
                   [] IsBin(e) -> recurse(e[2]) \cup recurse(e[3])
                   [] OTHER -> {})

(***************************************************************************)
(* eval_const_number, for the length of an array                           *)
(***************************************************************************)
NotNumber == [ok |-> FALSE, v |-> 0]
Num(n)    == [ok |-> TRUE, v |-> n]

\* The loop starts with one factor and multiplies while the exponent, less one,
\* is positive.
PowerLoop(b, n) ==
    LET res[i \in 0..n] == IF i <= 1 THEN b ELSE res[i - 1] * b
    IN IF n = 0 THEN 1 ELSE res[n]

RECURSIVE eval_const_number(_)
eval_const_number(e) ==
    CASE e[1] = "num" -> Num(e[2])
      [] e[1] = "bitnot" -> LET n == eval_const_number(e[2])
                            IN IF n.ok THEN Num(-n.v - 1) ELSE n
      [] IsBin(e) ->
            LET l == eval_const_number(e[2]) r == eval_const_number(e[3]) IN
            CASE ~(l.ok /\ r.ok) -> NotNumber
              [] e[1] \in {"div", "mod"} /\ r.v = 0 -> NotNumber
              [] e[1] \in Limited /\ r.v < 0 -> NotNumber
              [] e[1] = "pow" -> Num(PowerLoop(l.v, r.v))
              [] OTHER -> Num(Apply(e[1], l.v, r.v))
      [] OTHER -> NotNumber

(***************************************************************************)
(* The run of the program, with the honest prover of U32Arith              *)
(***************************************************************************)
Stopped == [ok |-> FALSE, v |-> 0]

Divided(l, d, both) ==
    IF d = 0 THEN Stopped
    ELSE [ok |-> U!u32_div_mod(l, d, l \div d, l % d, 0), v |-> both[1]]

Operation(op, l, r) ==
    CASE op = "add" -> U!u32_add(l, r)
      [] op = "sub" -> U!u32_sub(l, r)
      [] op = "mul" -> U!u32_mul(l, r)
      [] op = "pow" -> U!u32_power(l, r)
      [] op = "shl" -> U!u32_shift_left(l, r)
      [] op = "and" -> U!u32_bitwise_and(l, r)
      [] op = "or"  -> U!u32_bitwise_or(l, r)
      [] op = "xor" -> U!u32_bitwise_xor(l, r)
      [] op = "div" -> Divided(l, r, <<IF r = 0 THEN 0 ELSE l \div r>>)
      [] op = "mod" -> Divided(l, r, <<IF r = 0 THEN 0 ELSE l % r>>)
      [] op = "shr" -> LET p == U!u32_power(2, r)
                       IN IF p.ok /\ p.v # 0 THEN Divided(l, p.v, <<l \div p.v>>) ELSE Stopped

\* A literal is emitted as it is, without a range check.
RECURSIVE Compute(_, _)
Compute(e, x) ==
    CASE e[1] = "num" -> U!Unchecked(e[2])
      [] e[1] = "var" -> U!Unchecked(x)
      [] e[1] = "bitnot" -> LET a == Compute(e[2], x)
                            IN IF a.ok THEN U!u32_bitwise_not(a.v) ELSE Stopped
      [] OTHER -> LET l == Compute(e[2], x) r == Compute(e[3], x)
                  IN IF l.ok /\ r.ok THEN Operation(e[1], l.v, r.v) ELSE Stopped

(***************************************************************************)
(* The machine                                                             *)
(***************************************************************************)
Init ==
    /\ expr \in Exprs /\ value \in U!U32
    /\ errors = {} /\ dim = NotNumber /\ result = Stopped /\ pc = "check"

Check ==
    /\ pc = "check"
    /\ errors' = recurse(expr)
    /\ pc' = "dimension"
    /\ UNCHANGED <<expr, value, dim, result>>

Dimension ==
    /\ pc = "dimension"
    /\ dim' = eval_const_number(expr)
    /\ pc' = "run"
    /\ UNCHANGED <<expr, value, errors, result>>

Run ==
    /\ pc = "run"
    /\ result' = Compute(expr, value)
    /\ pc' = "done"
    /\ UNCHANGED <<expr, value, errors, dim>>

Next == Check \/ Dimension \/ Run
Spec == Init /\ [][Next]_vars

(***************************************************************************)
(* Properties                                                              *)
(***************************************************************************)
RECURSIVE Terms(_)
Terms(e) == {e} \cup (CASE e[1] = "bitnot" -> Terms(e[2])
                        [] IsBin(e) -> Terms(e[2]) \cup Terms(e[3])
                        [] OTHER -> {})
Folded == eval_constants_in_expression(expr)

\* The three ways to compute a constant agree.  When the checker accepts an
\* expression that it can fold and the program finishes computing it, both have
\* the same value; what is refused for an overflow or a zero divisor has no
\* value at run time either, whatever the variable holds
\* (eval_constants_in_expression against irgen/u32_op.rs).  And what is folded has
\* the same value as a dimension; the two differ in what they refuse only by the
\* limit on exponents and by complements (eval_const_number).
FoldedIsComputed ==
    /\ pc = "done" /\ errors = {} /\ Folded.is /\ result.ok => result.v = Folded.v
    /\ pc = "done" /\ errors \cap {"overflow", "zero"} # {} => ~result.ok
    /\ pc = "run" =>
         /\ Folded.is => dim = Num(Folded.v)
         /\ dim.ok /\ ~Folded.is => "limit" \in errors \/ \E t \in Terms(expr) : t[1] = "bitnot"
=============================================================================
