----------------------------- MODULE MemCompare -----------------------------
(***************************************************************************)
(* The comparison functions of the core library (define_mem_compare,       *)
(* define_field_mem_compare and define_split_field of irgen/corelib.rs):   *)
(* loops over two blocks of words with one exit in the middle, generated   *)
(* once per predicate.  Addresses, hashes and strings are compared with    *)
(* them.  The blocks are compared with every function in turn, so that the *)
(* answers can be held against one another.                                *)
(***************************************************************************)
EXTENDS Integers, Sequences

CONSTANTS TWO_POWER,  \* one more than the largest u32
          MaxLen      \* words of a block

VARIABLES left, right,  \* the two blocks
          fns,          \* the functions still to be called
          pc, index,    \* block of the running function, its loop variable
          low,          \* low halves of the pair being compared
          answers       \* what the functions called so far have returned

vars == <<left, right, fns, pc, index, low, answers>>

P     == TWO_POWER * TWO_POWER - TWO_POWER + 1
Field == 0 .. P - 1

(* memcmp of binary.rs: the function for a predicate and an element type. *)
Memcmp(op, ty) ==
    [op |-> op, split |-> ty = "field" /\ op \notin {"EQ", "NE"}]

Functions ==
    << Memcmp("EQ", "u32"),  Memcmp("NE", "u32"),  Memcmp("UGT", "u32"),
       Memcmp("UGE", "u32"), Memcmp("ULT", "u32"), Memcmp("ULE", "u32"),
       Memcmp("UGT", "field"), Memcmp("UGE", "field"),
       Memcmp("ULT", "field"), Memcmp("ULE", "field") >>

fn == Head(fns)

(* The comparison that keeps the loop going, and the result of a function  *)
(* that leaves it by the middle exit; the other exit gives the opposite.   *)
Keeps(op, l, r) ==
    CASE op \in {"EQ", "NE"}   -> l = r
      [] op \in {"UGE", "ULT"} -> l >= r
      [] op \in {"ULE", "UGT"} -> r >= l

SameExit(op) == IF op \in {"NE", "UGT"} THEN 1 ELSE 0

MiddleExit(op) == IF op \in {"NE", "UGT", "ULT"} THEN 1 ELSE 0

(* split_field accepts halves that are range checked and recombine to the  *)
(* element modulo p; an honest prover gives the quotient and remainder.    *)
ProphetHigh(x) == x \div TWO_POWER
ProphetLow(x)  == x % TWO_POWER
SplitField(x)  ==
    LET high == ProphetHigh(x)
        lo   == ProphetLow(x)
    IN  [ok   |-> /\ high < TWO_POWER /\ lo < TWO_POWER
                  /\ x = (high * TWO_POWER + lo) % P,
         high |-> high, low |-> lo]

----------------------------------------------------------------------------
(* The loop variable is stored before the branch of the body. *)
NextIndex == index + 1

Blocks == UNION {[1 .. n -> Field] : n \in 0 .. MaxLen}

(* memcmp of two blocks of one length by every function, or string_compare *)
(* of any two: the lengths are asserted to be equal, then memcmp_eq.       *)
Init ==
    /\ left \in Blocks /\ right \in Blocks
    /\ \/ fns = Functions /\ Len(left) = Len(right) /\ pc = "cond"
       \/ /\ fns = <<Memcmp("EQ", "u32")>>
          /\ pc = IF Len(left) = Len(right) THEN "cond" ELSE "aborted"
    /\ index = 0 /\ low = <<0, 0>>
    /\ answers = <<>>

Return(v) ==
    /\ answers' = Append(answers, v)
    /\ fns' = Tail(fns)
    /\ pc' = IF Len(fns) = 1 THEN "done" ELSE "cond"
    /\ index' = 0
    /\ UNCHANGED <<left, right, low>>

Cond ==
    /\ pc = "cond"
    /\ IF index < Len(left)
       THEN pc' = "body" /\ UNCHANGED <<left, right, fns, index, low, answers>>
       ELSE Return(1 - MiddleExit(fn.op))

(* A split element goes on to its low halves when the high halves do not   *)
(* end the loop.                                                           *)
Body ==
    /\ pc = "body"
    /\ LET l == SplitField(left[index + 1])
           r == SplitField(right[index + 1])
       IN  IF fn.split
           THEN IF ~ (l.ok /\ r.ok)
                THEN pc' = "aborted" /\ UNCHANGED <<left, right, fns, index, low, answers>>
                ELSE IF Keeps(fn.op, l.high, r.high)
                THEN /\ pc' = "low" /\ index' = NextIndex /\ low' = <<l.low, r.low>>
                     /\ UNCHANGED <<left, right, fns, answers>>
                ELSE Return(MiddleExit(fn.op))
           ELSE IF Keeps(fn.op, left[index + 1], right[index + 1])
                THEN /\ pc' = "cond" /\ index' = NextIndex
                     /\ UNCHANGED <<left, right, fns, low, answers>>
                ELSE Return(MiddleExit(fn.op))

LowCompare ==
    /\ pc = "low"
    /\ IF Keeps(fn.op, low[1], low[2])
       THEN pc' = "cond" /\ UNCHANGED <<left, right, fns, index, low, answers>>
       ELSE Return(MiddleExit(fn.op))

Done == pc \in {"done", "aborted"} /\ UNCHANGED vars

Next == Cond \/ Body \/ LowCompare \/ Done

Spec == Init /\ [][Next]_vars

----------------------------------------------------------------------------
Answer(k) == answers[k] = 1

(* On single words the u32 functions are the order of the integers, and    *)
(* the field functions never call the smaller of two words greater or      *)
(* equal when their halves are ordered alike.                              *)
WordOrder ==
    /\ Answer(3) <=> left[1] > right[1]
    /\ Answer(5) <=> left[1] < right[1]
    /\ Answer(8) => left[1] >= right[1]
    /\ Answer(10) => left[1] <= right[1]

(* The answers of the generated loops fit together: equality is equality,  *)
(* a predicate and its negation never agree, two blocks that are >= and <= *)
(* are equal, for the u32 and for the field functions, and single words    *)
(* are in their order.  Only strings of different lengths have no answer.  *)
Consistent ==
    /\ pc = "aborted" => Len(left) # Len(right)
    /\ pc = "done" =>
        /\ Answer(1) <=> left = right
        /\ Len(answers) > 1 =>
           /\ Answer(2) <=> left # right
           /\ Answer(3) <=> ~ Answer(6)
           /\ Answer(4) <=> ~ Answer(5)
           /\ Answer(7) <=> ~ Answer(10)
           /\ Answer(8) <=> ~ Answer(9)
           /\ (Answer(4) /\ Answer(6)) <=> Answer(1)
           /\ (Answer(8) /\ Answer(10)) <=> Answer(1)
           /\ Len(left) = 1 => WordOrder
=============================================================================
