-------------------------- MODULE MemCompareProofs --------------------------
(***************************************************************************)
(* The comparison functions answer consistently for words of any width and *)
(* blocks of any length.  The invariant says what the loop of the running  *)
(* function has established about the words it has passed, and that every  *)
(* function called so far has returned what its predicate makes of the     *)
(* whole blocks.                                                           *)
(***************************************************************************)
EXTENDS MemCompare, TLAPS

(* The words of position i do not end the loop of function f.              *)
Passes(f, i) ==
    IF f.split
    THEN /\ Keeps(f.op, ProphetHigh(left[i]), ProphetHigh(right[i]))
         /\ Keeps(f.op, ProphetLow(left[i]), ProphetLow(right[i]))
    ELSE Keeps(f.op, left[i], right[i])

Passed(f, n) == \A i \in 1 .. n : Passes(f, i)

Verdict(f) ==
    IF Passed(f, Len(left)) THEN 1 - MiddleExit(f.op) ELSE MiddleExit(f.op)

Running == pc \in {"cond", "body", "low"}

(* The blocks and the calls: every function is called in its turn, and     *)
(* those that have returned gave their verdict.                            *)
BlocksOK ==
    /\ left \in Seq(Field) /\ right \in Seq(Field)
    /\ Running \/ pc = "done" => Len(left) = Len(right)
    /\ pc = "aborted" => Len(left) # Len(right)

Called ==
    /\ fns \in Seq({Functions[k] : k \in 1 .. 10})
    /\ answers \in Seq({0, 1})
    /\ Len(answers) + Len(fns) \in {1, 10}
    /\ \A k \in 1 .. Len(fns) : fns[k] = Functions[Len(answers) + k]
    /\ \A k \in 1 .. Len(answers) : answers[k] = Verdict(Functions[k])
    /\ pc \in {"cond", "body", "low", "done", "aborted"}
    /\ Running => fns # <<>>
    /\ pc = "done" => fns = <<>>

(* The loop: the words before the loop variable have passed; the variable  *)
(* is already past the word whose low halves are compared.                 *)
Loop ==
    /\ index \in Nat
    /\ pc = "cond" => index <= Len(left) /\ Passed(fn, index)
    /\ pc = "body" => index < Len(left) /\ Passed(fn, index)
    /\ pc = "low" =>
        /\ fn.split /\ index \in 1 .. Len(left)
        /\ Passed(fn, index - 1)
        /\ Keeps(fn.op, ProphetHigh(left[index]), ProphetHigh(right[index]))
        /\ low = <<ProphetLow(left[index]), ProphetLow(right[index])>>

CompareInv == BlocksOK /\ Called /\ Loop

-----------------------------------------------------------------------------
(* Division by TWO_POWER: an element of the field is its two halves, which *)
(* are words, and elements whose halves are ordered alike are so ordered.  *)
LEMMA Halves ==
    ASSUME TWO_POWER \in Nat \ {0}, NEW a \in Field
    PROVE  /\ SplitField(a).ok
           /\ SplitField(a).high = ProphetHigh(a) /\ SplitField(a).low = ProphetLow(a)
           /\ ProphetHigh(a) \in Nat /\ ProphetLow(a) \in Nat
<1> DEFINE T == TWO_POWER
<1>1. T \in Nat \ {0} /\ P \in Nat /\ a \in Nat /\ a < P /\ a <= T * T - T
  BY DEF Field, P
<1> HIDE DEF T
<1>2. a \div T \in Nat /\ a % T \in Nat /\ a % T < T /\ a \div T < T
  BY <1>1
<1>3. a = (a \div T) * T + (a % T)
  BY <1>1
<1>4. a % P = a
  BY <1>1
<1> USE DEF T
<1>5. a = ((a \div TWO_POWER) * TWO_POWER + (a % TWO_POWER)) % P
  BY <1>3, <1>4
<1> QED
  BY <1>2, <1>5 DEF SplitField, ProphetHigh, ProphetLow

(* An element whose halves are both at least those of another is at least  *)
(* that element.                                                           *)
LEMMA HalvesOrder ==
    ASSUME TWO_POWER \in Nat \ {0}, NEW a \in Field, NEW b \in Field,
           ProphetHigh(a) >= ProphetHigh(b), ProphetLow(a) >= ProphetLow(b)
    PROVE  a >= b
<1>1. a \in Nat /\ b \in Nat
  BY DEF Field, P
<1> QED
  BY <1>1 DEF ProphetHigh, ProphetLow

(* The table of the ten functions.                                         *)
LEMMA FunctionsAre ==
    /\ Functions[1] = [op |-> "EQ", split |-> FALSE]
    /\ Functions[2] = [op |-> "NE", split |-> FALSE]
    /\ Functions[3] = [op |-> "UGT", split |-> FALSE]
    /\ Functions[4] = [op |-> "UGE", split |-> FALSE]
    /\ Functions[5] = [op |-> "ULT", split |-> FALSE]
    /\ Functions[6] = [op |-> "ULE", split |-> FALSE]
    /\ Functions[7] = [op |-> "UGT", split |-> TRUE]
    /\ Functions[8] = [op |-> "UGE", split |-> TRUE]
    /\ Functions[9] = [op |-> "ULT", split |-> TRUE]
    /\ Functions[10] = [op |-> "ULE", split |-> TRUE]
    /\ Len(Functions) = 10
BY DEF Functions, Memcmp

-----------------------------------------------------------------------------
(* The blocks do not change, so neither does what a function makes of      *)
(* them.                                                                   *)
LEMMA VerdictStays ==
    ASSUME left' = left, right' = right
    PROVE  /\ \A f, n : Passed(f, n)' = Passed(f, n)
           /\ \A f : Verdict(f)' = Verdict(f)
BY DEF Passed, Passes, Verdict

(* A function that returns its verdict leaves the invariant to the next.   *)
LEMMA ReturnKeeps ==
    ASSUME CompareInv, Running, NEW v, v = Verdict(fn), Return(v)
    PROVE  CompareInv'
<1> USE DEF CompareInv
<1> HIDE DEF Functions
<1> DEFINE F == {Functions[k] : k \in 1 .. 10}
<1>0. /\ fns \in Seq(F) /\ fns # <<>> /\ answers \in Seq({0, 1})
      /\ Len(answers) \in Nat /\ Len(fns) \in Nat /\ Len(fns) >= 1
      /\ Len(answers) + Len(fns) \in {1, 10}
  BY DEF Called
<1>1. fn = Functions[Len(answers) + 1]
  BY <1>0 DEF Called, fn
<1>2. v \in {0, 1}
  <2>1. MiddleExit(fn.op) = 0 \/ MiddleExit(fn.op) = 1
    BY DEF MiddleExit
  <2>2. v = 1 - MiddleExit(fn.op) \/ v = MiddleExit(fn.op)
    BY DEF Verdict
  <2> QED BY <2>1, <2>2
<1>3. /\ answers' = Append(answers, v) /\ fns' = Tail(fns)
      /\ pc' = IF Len(fns) = 1 THEN "done" ELSE "cond"
      /\ index' = 0 /\ left' = left /\ right' = right
  BY DEF Return
<1>4. BlocksOK'
  BY <1>3 DEF BlocksOK, Running
<1>5. Called'
  <2>1. /\ fns' \in Seq(F) /\ Len(fns') = Len(fns) - 1
        /\ \A k \in 1 .. Len(fns') : fns'[k] = fns[k + 1]
    BY <1>0, <1>3
  <2>2. /\ answers' \in Seq({0, 1}) /\ Len(answers') = Len(answers) + 1
        /\ \A k \in 1 .. Len(answers) : answers'[k] = answers[k]
        /\ answers'[Len(answers) + 1] = v
    BY <1>0, <1>2, <1>3
  <2>3. \A k \in 1 .. Len(fns') : fns'[k] = Functions[Len(answers') + k]
    <3> TAKE k \in 1 .. Len(fns')
    <3>1. k + 1 \in 1 .. Len(fns) /\ Len(answers') + k = Len(answers) + (k + 1)
      BY <1>0, <2>1, <2>2
    <3>2. fns[k + 1] = Functions[Len(answers) + (k + 1)]
      BY <3>1 DEF Called
    <3> QED BY <2>1, <3>1, <3>2
  <2>4. \A k \in 1 .. Len(answers') : answers'[k] = Verdict(Functions[k])'
    <3> TAKE k \in 1 .. Len(answers')
    <3>1. CASE k \in 1 .. Len(answers)
      BY <2>2, <3>1, <1>3, VerdictStays DEF Called
    <3>2. CASE k = Len(answers) + 1
      BY <2>2, <3>2, <1>1, <1>3, VerdictStays
    <3> QED BY <2>2, <1>0, <3>1, <3>2
  <2>5. Len(fns) = 1 => fns' = <<>>
    BY <1>0, <2>1
  <2>6. Len(fns) # 1 => fns' # <<>>
    BY <1>0, <2>1
  <2>7. Len(answers') + Len(fns') \in {1, 10}
    BY <1>0, <2>1, <2>2
  <2>8. /\ pc' \in {"cond", "body", "low", "done", "aborted"}
        /\ Running' => fns' # <<>>
        /\ pc' = "done" => fns' = <<>>
    BY <1>3, <2>5, <2>6 DEF Running
  <2> QED
    BY <2>1, <2>2, <2>3, <2>4, <2>7, <2>8 DEF Called
<1>6. Loop'
  <2>1. Len(left) \in Nat
    BY DEF BlocksOK
  <2>2. pc' # "body" /\ pc' # "low"
    BY <1>3
  <2>3. Passed(fn, index)'
    BY <1>3 DEF Passed
  <2> QED
    BY <1>3, <2>1, <2>2, <2>3 DEF Loop
<1> QED
  BY <1>4, <1>5, <1>6

(* A word that does not pass makes the verdict that of the middle exit.    *)
LEMMA FailDecides ==
    ASSUME NEW f, NEW i \in 1 .. Len(left), ~ Passes(f, i)
    PROVE  Verdict(f) = MiddleExit(f.op)
BY DEF Verdict, Passed

(* One more word has passed.                                               *)
LEMMA PassedOneMore ==
    ASSUME NEW f, NEW n \in Nat \ {0}, Passed(f, n - 1), Passes(f, n)
    PROVE  Passed(f, n)
<1> SUFFICES ASSUME NEW i \in 1 .. n PROVE Passes(f, i)
  BY DEF Passed
<1>1. CASE i = n
  BY <1>1
<1>2. CASE i # n
  <2>1. i \in 1 .. n - 1
    BY <1>2
  <2> QED BY <2>1 DEF Passed
<1> QED BY <1>1, <1>2

(* A step that only moves the loop keeps everything but the loop.          *)
LEMMA LoopStepKeeps ==
    ASSUME CompareInv, Running, Running',
           UNCHANGED <<left, right, fns, answers>>
    PROVE  BlocksOK' /\ Called' /\ fn' = fn
<1> HIDE DEF Functions
<1>1. BlocksOK'
  BY DEF CompareInv, BlocksOK, Running
<1>2. Called'
  <2>1. /\ left' = left /\ right' = right /\ fns' = fns /\ answers' = answers
        /\ pc' \in {"cond", "body", "low"}
    BY DEF Running
  <2>2. \A k \in 1 .. Len(answers') : answers'[k] = Verdict(Functions[k])'
    BY <2>1, VerdictStays DEF CompareInv, Called
  <2>3. fns # <<>>
    BY DEF CompareInv, Called
  <2> QED BY <2>1, <2>2, <2>3 DEF CompareInv, Called
<1>3. fn' = fn
  BY DEF fn
<1> QED BY <1>1, <1>2, <1>3

(* The first call starts with the invariant.                               *)
LEMMA InitCompare ==
    ASSUME TWO_POWER \in Nat \ {0}, MaxLen \in Nat, Init
    PROVE  CompareInv
<1>1. left \in Seq(Field) /\ right \in Seq(Field)
  BY SMTT(20) DEF Init, Blocks
<1>2. BlocksOK
  BY <1>1 DEF Init, BlocksOK, Running
<1>3. Called
  <2> HIDE DEF Functions
  <2>1. /\ Functions \in Seq({Functions[k] : k \in 1 .. 10})
        /\ <<Memcmp("EQ", "u32")>> \in Seq({Functions[k] : k \in 1 .. 10})
        /\ <<Memcmp("EQ", "u32")>>[1] = Functions[1]
        /\ Len(Functions) = 10 /\ Functions # <<>>
    BY DEF Functions
  <2>2. /\ answers = <<>> /\ answers \in Seq({0, 1}) /\ Len(answers) = 0
        /\ pc \in {"cond", "aborted"}
        /\ fns = Functions \/ fns = <<Memcmp("EQ", "u32")>>
    BY DEF Init
  <2>3. CASE fns = Functions
    <3>1. Len(fns) = 10 /\ fns # <<>>
      BY <2>1, <2>3
    <3> QED BY <2>1, <2>2, <2>3, <3>1 DEF Called
  <2>4. CASE fns = <<Memcmp("EQ", "u32")>>
    <3>1. Len(fns) = 1 /\ fns # <<>> /\ fns[1] = Functions[1]
      BY <2>1, <2>4
    <3>2. \A k \in 1 .. Len(fns) : fns[k] = Functions[Len(answers) + k]
      BY <2>2, <3>1
    <3> QED BY <2>1, <2>2, <2>4, <3>1, <3>2 DEF Called
  <2> QED BY <2>2, <2>3, <2>4
<1>4. Loop
  BY <1>1 DEF Init, Loop, Passed
<1> QED
  BY <1>2, <1>3, <1>4 DEF CompareInv

(* Every step keeps the invariant.                                         *)
LEMMA StepCompare ==
    ASSUME TWO_POWER \in Nat \ {0}, CompareInv, [Next]_vars
    PROVE  CompareInv'
<1> HIDE DEF Functions
<1>0. /\ left \in Seq(Field) /\ right \in Seq(Field)
      /\ Running => Len(left) = Len(right)
      /\ index \in Nat
  BY DEF CompareInv, BlocksOK, Loop
<1>1. CASE Cond
  <2>1. Running /\ pc = "cond" /\ index <= Len(left) /\ Passed(fn, index)
    BY <1>1 DEF CompareInv, Loop, Cond, Running
  <2>2. CASE index < Len(left)
    <3>1. pc' = "body" /\ index' = index /\ UNCHANGED <<left, right, fns, answers>>
      BY <1>1, <2>2 DEF Cond
    <3>2. BlocksOK' /\ Called' /\ fn' = fn
      BY <2>1, <3>1, LoopStepKeeps DEF Running
    <3>3. Passed(fn, index)'
      BY <2>1, <3>1, <3>2, VerdictStays
    <3> QED BY <1>0, <2>2, <3>1, <3>2, <3>3 DEF CompareInv, Loop
  <2>3. CASE ~ (index < Len(left))
    <3>1. index = Len(left)
      BY <1>0, <2>1, <2>3
    <3>2. Verdict(fn) = 1 - MiddleExit(fn.op)
      BY <2>1, <3>1 DEF Verdict
    <3>3. Return(1 - MiddleExit(fn.op))
      BY <1>1, <2>3 DEF Cond
    <3> QED BY <2>1, <3>2, <3>3, ReturnKeeps
  <2> QED BY <2>2, <2>3
<1>2. CASE Body
  <2> DEFINE i == index + 1
             l == SplitField(left[i])
             r == SplitField(right[i])
  <2>1. Running /\ pc = "body" /\ index < Len(left) /\ Passed(fn, index)
    BY <1>2 DEF CompareInv, Loop, Body, Running
  <2>2. /\ i \in 1 .. Len(left) /\ i \in Nat \ {0} /\ i - 1 = index
        /\ left[i] \in Field /\ right[i] \in Field
    BY <1>0, <2>1
  <2>3. /\ l.ok /\ r.ok
        /\ l.high = ProphetHigh(left[i]) /\ l.low = ProphetLow(left[i])
        /\ r.high = ProphetHigh(right[i]) /\ r.low = ProphetLow(right[i])
    BY <2>2, Halves
  <2>b. \/ /\ fn.split /\ Keeps(fn.op, l.high, r.high)
           /\ pc' = "low" /\ index' = i /\ low' = <<l.low, r.low>>
           /\ UNCHANGED <<left, right, fns, answers>>
        \/ fn.split /\ ~ Keeps(fn.op, l.high, r.high) /\ Return(MiddleExit(fn.op))
        \/ /\ ~ fn.split /\ Keeps(fn.op, left[i], right[i])
           /\ pc' = "cond" /\ index' = i
           /\ UNCHANGED <<left, right, fns, low, answers>>
        \/ /\ ~ fn.split /\ ~ Keeps(fn.op, left[i], right[i])
           /\ Return(MiddleExit(fn.op))
    BY <1>2, <2>3, Zenon DEF Body, NextIndex
  <2> HIDE DEF i, l, r
  <2>4. CASE /\ fn.split /\ Keeps(fn.op, l.high, r.high)
             /\ pc' = "low" /\ index' = i /\ low' = <<l.low, r.low>>
             /\ UNCHANGED <<left, right, fns, answers>>
    <3>1. BlocksOK' /\ Called' /\ fn' = fn
      BY <2>1, <2>4, LoopStepKeeps DEF Running
    <3>2. Passed(fn, index - 1)'
      BY <2>1, <2>2, <2>4, <3>1, VerdictStays
    <3>3. Keeps(fn.op, ProphetHigh(left[index]), ProphetHigh(right[index]))'
      BY <2>3, <2>4, <3>1
    <3>4. low' = <<ProphetLow(left[index]), ProphetLow(right[index])>>'
      BY <2>3, <2>4 DEF ProphetLow
    <3> QED BY <2>2, <2>4, <3>1, <3>2, <3>3, <3>4 DEF CompareInv, Loop
  <2>5. CASE fn.split /\ ~ Keeps(fn.op, l.high, r.high) /\ Return(MiddleExit(fn.op))
    <3>1. ~ Passes(fn, i)
      BY <2>3, <2>5 DEF Passes
    <3> QED BY <2>1, <2>2, <2>5, <3>1, FailDecides, ReturnKeeps
  <2>6. CASE /\ ~ fn.split /\ Keeps(fn.op, left[i], right[i])
             /\ pc' = "cond" /\ index' = i
             /\ UNCHANGED <<left, right, fns, low, answers>>
    <3>1. BlocksOK' /\ Called' /\ fn' = fn
      BY <2>1, <2>6, LoopStepKeeps DEF Running
    <3>2. Passes(fn, i)
      BY <2>6 DEF Passes
    <3>3. Passed(fn, i)
      BY <2>1, <2>2, <3>2, PassedOneMore
    <3>4. Passed(fn, index)'
      BY <2>6, <3>1, <3>3, VerdictStays
    <3> QED BY <2>2, <2>6, <3>1, <3>4 DEF CompareInv, Loop
  <2>7. CASE /\ ~ fn.split /\ ~ Keeps(fn.op, left[i], right[i])
             /\ Return(MiddleExit(fn.op))
    <3>1. ~ Passes(fn, i)
      BY <2>7 DEF Passes
    <3> QED BY <2>1, <2>2, <2>7, <3>1, FailDecides, ReturnKeeps
  <2> QED BY <2>b, <2>4, <2>5, <2>6, <2>7
<1>3. CASE LowCompare
  <2>1. /\ Running /\ pc = "low" /\ fn.split /\ index \in 1 .. Len(left)
        /\ Passed(fn, index - 1)
        /\ Keeps(fn.op, ProphetHigh(left[index]), ProphetHigh(right[index]))
        /\ low = <<ProphetLow(left[index]), ProphetLow(right[index])>>
    BY <1>3 DEF CompareInv, Loop, LowCompare, Running
  <2>2. low[1] = ProphetLow(left[index]) /\ low[2] = ProphetLow(right[index])
    BY <2>1
  <2>3. CASE Keeps(fn.op, low[1], low[2])
    <3>1. pc' = "cond" /\ index' = index /\ UNCHANGED <<left, right, fns, answers>>
      BY <1>3, <2>3 DEF LowCompare
    <3>2. BlocksOK' /\ Called' /\ fn' = fn
      BY <2>1, <3>1, LoopStepKeeps DEF Running
    <3>3. Passes(fn, index)
      BY <2>1, <2>2, <2>3 DEF Passes
    <3>4. Passed(fn, index)
      BY <1>0, <2>1, <3>3, PassedOneMore
    <3>5. Passed(fn, index)'
      BY <3>1, <3>2, <3>4, VerdictStays
    <3> QED BY <1>0, <2>1, <3>1, <3>2, <3>5 DEF CompareInv, Loop
  <2>4. CASE ~ Keeps(fn.op, low[1], low[2])
    <3>1. ~ Passes(fn, index)
      BY <2>1, <2>2, <2>4 DEF Passes
    <3>2. Return(MiddleExit(fn.op))
      BY <1>3, <2>4 DEF LowCompare
    <3> QED BY <2>1, <3>1, <3>2, FailDecides, ReturnKeeps
  <2> QED BY <2>3, <2>4
<1>4. CASE Done \/ UNCHANGED vars
  <2>1. UNCHANGED <<left, right, fns, pc, index, low, answers>>
    BY <1>4 DEF Done, vars
  <2>2. fn' = fn
    BY <2>1 DEF fn
  <2>3. Called'
    BY <2>1, VerdictStays DEF CompareInv, Called, Running
  <2>4. Loop'
    BY <2>1, <2>2, VerdictStays DEF CompareInv, Loop
  <2> QED BY <2>1, <2>3, <2>4 DEF CompareInv, BlocksOK, Running
<1> QED
  BY <1>1, <1>2, <1>3, <1>4 DEF Next

-----------------------------------------------------------------------------
(* What the verdicts say: equality of the blocks, and the order of single  *)
(* words.                                                                  *)
LEMMA EqualBlocks ==
    ASSUME left \in Seq(Field), right \in Seq(Field), Len(left) = Len(right)
    PROVE  (\A i \in 1 .. Len(left) : left[i] = right[i]) <=> left = right
OBVIOUS

(* What the verdicts of the u32 functions are.                             *)
LEMMA VerdictsOf ==
    ASSUME left \in Seq(Field), right \in Seq(Field), Len(left) = Len(right),
           TWO_POWER \in Nat \ {0}
    PROVE  /\ Verdict(Functions[1]) = 1 <=> left = right
           /\ Verdict(Functions[2]) = 1 <=> left # right
           /\ Verdict(Functions[3]) = 1 <=> ~ \A i \in 1 .. Len(left) : right[i] >= left[i]
           /\ Verdict(Functions[4]) = 1 <=> \A i \in 1 .. Len(left) : left[i] >= right[i]
           /\ Verdict(Functions[5]) = 1 <=> ~ \A i \in 1 .. Len(left) : left[i] >= right[i]
           /\ Verdict(Functions[6]) = 1 <=> \A i \in 1 .. Len(left) : right[i] >= left[i]
<1> HIDE DEF Functions
<1>1. /\ Verdict(Functions[1]) = 1 <=> \A i \in 1 .. Len(left) : left[i] = right[i]
      /\ Verdict(Functions[2]) = 1 <=> ~ \A i \in 1 .. Len(left) : left[i] = right[i]
  BY FunctionsAre DEF Verdict, Passed, Passes, Keeps, MiddleExit
<1>2. /\ Verdict(Functions[3]) = 1 <=> ~ \A i \in 1 .. Len(left) : right[i] >= left[i]
      /\ Verdict(Functions[4]) = 1 <=> \A i \in 1 .. Len(left) : left[i] >= right[i]
  BY FunctionsAre DEF Verdict, Passed, Passes, Keeps, MiddleExit
<1>3. /\ Verdict(Functions[5]) = 1 <=> ~ \A i \in 1 .. Len(left) : left[i] >= right[i]
      /\ Verdict(Functions[6]) = 1 <=> \A i \in 1 .. Len(left) : right[i] >= left[i]
  BY FunctionsAre DEF Verdict, Passed, Passes, Keeps, MiddleExit
<1> QED
  BY <1>1, <1>2, <1>3, EqualBlocks

(* The field functions, whose words pass when both halves are in order.    *)
HalvesGE(a, b) == ProphetHigh(a) >= ProphetHigh(b) /\ ProphetLow(a) >= ProphetLow(b)

(* What the verdicts of the field functions are.                           *)
LEMMA FieldVerdictsOf ==
    /\ Verdict(Functions[7]) = 1 <=> ~ \A i \in 1 .. Len(left) : HalvesGE(right[i], left[i])
    /\ Verdict(Functions[8]) = 1 <=> \A i \in 1 .. Len(left) : HalvesGE(left[i], right[i])
    /\ Verdict(Functions[9]) = 1 <=> ~ \A i \in 1 .. Len(left) : HalvesGE(left[i], right[i])
    /\ Verdict(Functions[10]) = 1 <=> \A i \in 1 .. Len(left) : HalvesGE(right[i], left[i])
<1> HIDE DEF Functions
<1>1. /\ Verdict(Functions[7]) = 1 <=> ~ \A i \in 1 .. Len(left) : HalvesGE(right[i], left[i])
      /\ Verdict(Functions[8]) = 1 <=> \A i \in 1 .. Len(left) : HalvesGE(left[i], right[i])
  BY FunctionsAre DEF Verdict, Passed, Passes, Keeps, MiddleExit, HalvesGE
<1>2. /\ Verdict(Functions[9]) = 1 <=> ~ \A i \in 1 .. Len(left) : HalvesGE(left[i], right[i])
      /\ Verdict(Functions[10]) = 1 <=> \A i \in 1 .. Len(left) : HalvesGE(right[i], left[i])
  BY FunctionsAre DEF Verdict, Passed, Passes, Keeps, MiddleExit, HalvesGE
<1> QED BY <1>1, <1>2

(* Functions that return their verdicts answer consistently.               *)
LEMMA InvConsistent ==
    ASSUME TWO_POWER \in Nat \ {0}, CompareInv
    PROVE  Consistent
<1> HIDE DEF Functions
<1>1. pc = "aborted" => Len(left) # Len(right)
  BY DEF CompareInv, BlocksOK
<1>2. ASSUME pc = "done"
      PROVE  /\ Answer(1) <=> left = right
             /\ Len(answers) > 1 =>
                /\ Answer(2) <=> left # right
                /\ Answer(3) <=> ~ Answer(6)
                /\ Answer(4) <=> ~ Answer(5)
                /\ Answer(7) <=> ~ Answer(10)
                /\ Answer(8) <=> ~ Answer(9)
                /\ (Answer(4) /\ Answer(6)) <=> Answer(1)
                /\ (Answer(8) /\ Answer(10)) <=> Answer(1)
                /\ Len(left) = 1 => WordOrder
  <2>1. /\ left \in Seq(Field) /\ right \in Seq(Field) /\ Len(left) = Len(right)
        /\ Len(left) \in Nat
    BY <1>2 DEF CompareInv, BlocksOK
  <2>2. Len(answers) \in {1, 10}
    BY <1>2 DEF CompareInv, Called
  <2>3. \A k \in 1 .. Len(answers) : Answer(k) <=> Verdict(Functions[k]) = 1
    BY DEF CompareInv, Called, Answer
  <2>4. \A i \in 1 .. Len(left) : left[i] \in Field /\ right[i] \in Field
    BY <2>1
  <2>5. \A i \in 1 .. Len(left) : left[i] \in Nat /\ right[i] \in Nat
    BY <2>4 DEF Field, P
  <2>6. Answer(1) <=> left = right
    <3>1. 1 \in 1 .. Len(answers)
      BY <2>2
    <3>2. Answer(1) <=> Verdict(Functions[1]) = 1
      BY <3>1, <2>3
    <3> QED BY <3>2, <2>1, VerdictsOf
  <2>7. ASSUME Len(answers) = 10
        PROVE  /\ Answer(2) <=> left # right
               /\ Answer(3) <=> ~ Answer(6)
               /\ Answer(4) <=> ~ Answer(5)
               /\ Answer(7) <=> ~ Answer(10)
               /\ Answer(8) <=> ~ Answer(9)
               /\ (Answer(4) /\ Answer(6)) <=> Answer(1)
               /\ (Answer(8) /\ Answer(10)) <=> Answer(1)
               /\ Len(left) = 1 => WordOrder
    <3>1. /\ Answer(2) <=> left # right
          /\ Answer(3) <=> ~ \A i \in 1 .. Len(left) : right[i] >= left[i]
          /\ Answer(4) <=> \A i \in 1 .. Len(left) : left[i] >= right[i]
          /\ Answer(5) <=> ~ \A i \in 1 .. Len(left) : left[i] >= right[i]
          /\ Answer(6) <=> \A i \in 1 .. Len(left) : right[i] >= left[i]
      BY <2>1, <2>3, <2>7, VerdictsOf
    <3>2. /\ Answer(7) <=> ~ \A i \in 1 .. Len(left) : HalvesGE(right[i], left[i])
          /\ Answer(8) <=> \A i \in 1 .. Len(left) : HalvesGE(left[i], right[i])
          /\ Answer(9) <=> ~ \A i \in 1 .. Len(left) : HalvesGE(left[i], right[i])
          /\ Answer(10) <=> \A i \in 1 .. Len(left) : HalvesGE(right[i], left[i])
      BY <2>3, <2>7, FieldVerdictsOf
    <3>3. (Answer(4) /\ Answer(6)) <=> Answer(1)
      <4>1. (Answer(4) /\ Answer(6)) <=> \A i \in 1 .. Len(left) : left[i] = right[i]
        BY <2>5, <3>1
      <4> QED BY <4>1, <2>1, <2>6, EqualBlocks
    <3>4. \A i \in 1 .. Len(left) :
            /\ HalvesGE(left[i], right[i]) => left[i] >= right[i]
            /\ HalvesGE(right[i], left[i]) => right[i] >= left[i]
      BY <2>4, HalvesOrder DEF HalvesGE
    <3>5. (Answer(8) /\ Answer(10)) <=> Answer(1)
      <4>1. ASSUME Answer(8), Answer(10) PROVE left = right
        BY <2>1, <2>5, <3>2, <3>4, <4>1, EqualBlocks
      <4>2. ASSUME left = right PROVE Answer(8) /\ Answer(10)
        <5>1. \A i \in 1 .. Len(left) : HalvesGE(left[i], left[i])
          BY <2>4, Halves DEF HalvesGE
        <5> QED BY <3>2, <4>2, <5>1
      <4> QED BY <2>6, <4>1, <4>2
    <3>6. Len(left) = 1 => WordOrder
      <4> SUFFICES ASSUME Len(left) = 1 PROVE WordOrder
        OBVIOUS
      <4>1. 1 \in 1 .. Len(left) /\ \A i \in 1 .. Len(left) : i = 1
        OBVIOUS
      <4>2. left[1] \in Nat /\ right[1] \in Nat
        BY <4>1, <2>5
      <4>3. (Answer(3) <=> left[1] > right[1]) /\ (Answer(5) <=> left[1] < right[1])
        BY <3>1, <4>1, <4>2
      <4>4. (Answer(8) => left[1] >= right[1]) /\ (Answer(10) => left[1] <= right[1])
        BY <3>2, <3>4, <4>1, <4>2
      <4> QED BY <4>3, <4>4 DEF WordOrder
    <3>7. /\ Answer(3) <=> ~ Answer(6)
          /\ Answer(4) <=> ~ Answer(5)
          /\ Answer(7) <=> ~ Answer(10)
          /\ Answer(8) <=> ~ Answer(9)
      BY <3>1, <3>2
    <3> QED BY <3>1, <3>3, <3>5, <3>6, <3>7
  <2>8. Len(answers) > 1 => Len(answers) = 10
    <3>1. \A n \in {1, 10} : n > 1 => n = 10
      OBVIOUS
    <3> QED BY <3>1, <2>2
  <2> HIDE DEF Answer, WordOrder
  <2> QED
    BY <2>6, <2>7, <2>8
<1> QED
  BY <1>1, <1>2 DEF Consistent

(* For words of any width and blocks of any length, the generated          *)
(* comparison functions answer consistently: memcmp_eq is equality, a      *)
(* predicate and its negation never agree, >= and <= together are          *)
(* equality, and the functions abort on strings of different lengths only  *)
(* (define_mem_compare, define_field_mem_compare, define_split_field).     *)
THEOREM CompareConsistent ==
    ASSUME TWO_POWER \in Nat \ {0}, MaxLen \in Nat
    PROVE  Spec => []Consistent
<1>1. Init => CompareInv
  BY InitCompare
<1>2. CompareInv /\ [Next]_vars => CompareInv'
  BY StepCompare
<1>3. CompareInv => Consistent
  BY InvConsistent
<1> QED
  BY <1>1, <1>2, <1>3, PTL DEF Spec
=============================================================================
