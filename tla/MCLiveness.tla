----------------------------- MODULE MCLiveness -----------------------------
(***************************************************************************)
(* Every control flow graph of three blocks whose entry has no             *)
(* predecessor, self loops included, and for the register v every choice   *)
(* of one defining block (or none: a physical register that holds an       *)
(* argument) and of plain and phi uses in the other blocks.  The register  *)
(* w is defined in the entry and used in the last block of each function.  *)
(***************************************************************************)
EXTENDS Liveness

CONSTANTS v, w

MCBlock == 1..3

Graphs == {g \in [MCBlock -> SUBSET MCBlock] : g[1] = {}}

Plain(r) == [ins |-> <<Input(r, NoPred)>>, outs |-> {}]
Phi(ins) == [ins |-> ins, outs |-> {}]
Define(r) == [ins |-> <<>>, outs |-> {r}]

UsesIn(preds) ==
  {<<>>, <<Plain(v)>>}
  \cup {<<Phi(<<Input(v, p)>>)>> : p \in preds}
  \cup {<<Phi(<<Input(v, p), Input(v, q)>>), Plain(v)>> : p \in preds, q \in preds}

DefIn(b, d) == IF d = b THEN <<Define(v)>> ELSE <<>>

(* A phi stands before, a plain use after the definition in its block.     *)
Code(d, u2, u3) ==
  <<DefIn(1, d) \o <<Define(w)>>, u2 \o DefIn(2, d), u3 \o DefIn(3, d) \o <<Plain(w)>>>>

MCFunctions ==
  UNION {{Analysed(Code(d, u2, u3), g) :
            d \in 0..3, u2 \in UsesIn(g[2]), u3 \in UsesIn(g[3])} : g \in Graphs}
=============================================================================
