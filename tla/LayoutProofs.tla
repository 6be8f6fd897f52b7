---------------------------- MODULE LayoutProofs ----------------------------
(***************************************************************************)
(* The links of a layout stay consistent under every sequence of layout    *)
(* operations, for any number of blocks and instructions, and what the     *)
(* iterators show of them changes as the plain sequences of LayoutSeq do.  *)
(***************************************************************************)
EXTENDS Layout, SequenceTheorems, FiniteSetTheorems, WellFoundedInduction, TLAPS

(* Writing through an Option keeps a map of Options well-typed.            *)
LEMMA SetIfSomeType ==
  ASSUME NEW S, NEW f \in [S -> S \cup {None}], NEW x \in S \cup {None},
         NEW v \in S \cup {None}
  PROVE  SetIfSome(f, x, v) \in [S -> S \cup {None}]
  BY DEF SetIfSome

(* Every operation of the layout keeps its maps well-typed.                *)
LEMMA TypeStep == TypeOK /\ [Next]_vars => TypeOK'
<1> SUFFICES ASSUME TypeOK, [Next]_vars PROVE TypeOK'
  OBVIOUS
<1> USE LayoutAssumption DEF TypeOK, OptBlock, OptInst
<1>1. ASSUME NEW b \in Block, AppendBlock(b) PROVE TypeOK'
  BY <1>1, SetIfSomeType DEF AppendBlock, instVars
<1>2. ASSUME NEW i \in Inst, NEW b \in Block, NEW p \in OptInst, NEW n \in OptInst,
             NewNode(i, b, p, n)
      PROVE  /\ blocks' \subseteq Block /\ insts' \subseteq Inst
             /\ first_block' \in OptBlock /\ last_block' \in OptBlock
             /\ next_block' \in [Block -> OptBlock] /\ prev_block' \in [Block -> OptBlock]
             /\ block_of' \in [Inst -> OptBlock]
             /\ prev' \in [Inst -> OptInst] /\ next' \in [Inst -> OptInst]
  BY <1>2, SetIfSomeType DEF NewNode, blockVars
<1>3. ASSUME NEW i \in Inst, NEW b \in Block, AppendInst(i, b) PROVE TypeOK'
  BY <1>2, <1>3 DEF AppendInst
<1>4. ASSUME NEW i \in Inst, NEW b \in Block, InsertAtStart(i, b) PROVE TypeOK'
  BY <1>2, <1>4 DEF InsertAtStart
<1>5. ASSUME NEW at \in Inst, NEW i \in Inst, InsertBefore(at, i) PROVE TypeOK'
  BY <1>2, <1>5 DEF InsertBefore
<1>6. ASSUME NEW at \in Inst, NEW i \in Inst, InsertAfter(at, i) PROVE TypeOK'
  BY <1>2, <1>6 DEF InsertAfter
<1>7. ASSUME NEW i \in Inst, RemoveInst(i) PROVE TypeOK'
  BY <1>7, SetIfSomeType DEF RemoveInst, blockVars
<1>8. CASE UNCHANGED vars
  BY <1>8 DEF vars, blockVars, instVars
<1> QED
  BY <1>1, <1>3, <1>4, <1>5, <1>6, <1>7, <1>8 DEF Next

(* The layout's maps are well-typed in every reachable state.              *)
THEOREM LayoutTypeCorrect == Spec => []TypeOK
<1>1. Init => TypeOK
  BY LayoutAssumption DEF Init, TypeOK, OptBlock, OptInst
<1> QED
  BY <1>1, TypeStep, PTL DEF Spec

-----------------------------------------------------------------------------
(* A neighbour pair (p, n) inside block b between which a node may be      *)
(* entered: both are absent or adjacent, and they are the ends of b where  *)
(* one is absent.                                                          *)
Gap(b, p, n) ==
  /\ p # None => block_of[p] = b /\ next[p] = n
  /\ n # None => block_of[n] = b /\ prev[n] = p
  /\ p = None => first_inst[b] = n
  /\ n = None => last_inst[b] = p

(* Consistent links alone do not survive RemoveInst: a node linked to      *)
(* itself is consistent, and unlinking it leaves it half removed.  The     *)
(* inductive invariant therefore adds that the next links run along some   *)
(* strict order of the instructions: After[x] is the set of those that     *)
(* come after x.                                                           *)
OrderedBy(After) ==
  /\ \A x \in Inst : \A y \in After[x] : block_of[x] # None /\ block_of[y] # None
  /\ \A x \in Inst : x \notin After[x]
  /\ \A x \in Inst : \A y \in After[x] : After[y] \subseteq After[x]
  /\ \A x \in Inst : next[x] # None => next[x] \in After[x]

Acyclic == \E After \in [Inst -> SUBSET Inst] : OrderedBy(After)

IInv == TypeOK /\ Linked /\ Acyclic

(* Entering a fresh node into a gap, and moving the ends of the block to   *)
(* it where it has no neighbour, keeps the links consistent.               *)
LEMMA EnterKeepsLinked ==
  ASSUME IInv,
         NEW i \in Inst, NEW b \in blocks, NEW p \in OptInst, NEW n \in OptInst,
         Gap(b, p, n), NewNode(i, b, p, n),
         first_inst' = IF p = None THEN [first_inst EXCEPT ![b] = i] ELSE first_inst,
         last_inst' = IF n = None THEN [last_inst EXCEPT ![b] = i] ELSE last_inst
  PROVE  Linked' /\ Acyclic'
<1> USE LayoutAssumption DEF IInv, TypeOK, OptBlock, OptInst
<1>1. /\ b \in Block /\ i \notin insts /\ block_of[i] = None
      /\ next[i] = None /\ prev[i] = None /\ i # p /\ i # n
  BY DEF Linked, FreshUnlinked, ForwardLinks, BackwardLinks, NewNode, Gap
<1>3. \A j \in Inst : /\ block_of'[j] = IF j = i THEN b ELSE block_of[j]
                      /\ prev'[j] = IF j = n THEN i ELSE IF j = i THEN p ELSE prev[j]
                      /\ next'[j] = IF j = p THEN i ELSE IF j = i THEN n ELSE next[j]
  BY DEF NewNode, SetIfSome
<1>4. ForwardLinks'
  BY <1>1, <1>3 DEF Gap, Linked, ForwardLinks, BackwardLinks
<1>5. BackwardLinks'
  BY <1>1, <1>3 DEF Gap, Linked, ForwardLinks, BackwardLinks
<1>6. EndsOfBlock'
  BY <1>1, <1>3 DEF Gap, Linked, EndsOfBlock, BlockEnds
<1>7. BlockEnds'
  BY <1>1, <1>3 DEF Gap, Linked, BlockEnds
<1>8. FreshUnlinked'
  BY <1>1, <1>3 DEF NewNode, blockVars, Linked, FreshUnlinked
<1>9. Acyclic'
  <2>1. PICK R \in [Inst -> SUBSET Inst] : OrderedBy(R)
    BY DEF Acyclic
  <2> DEFINE S == [x \in Inst |->
                     IF x = i THEN IF n = None THEN {} ELSE {n} \cup R[n]
                     ELSE IF p # None /\ (x = p \/ p \in R[x])
                          THEN R[x] \cup {i} ELSE R[x]]
  <2>2. S \in [Inst -> SUBSET Inst]
    OBVIOUS
  <2>3. \A x \in Inst : i \notin R[x]
    BY <1>1, <2>1 DEF OrderedBy
  <2>4. p # None /\ n # None => n \in R[p]
    BY <2>1 DEF OrderedBy, Gap
  <2>5. \A x \in Inst : \A y \in S[x] : block_of'[x] # None /\ block_of'[y] # None
    BY <1>1, <1>3, <2>1 DEF OrderedBy, Gap
  <2>6. \A x \in Inst : x \notin S[x]
    BY <1>1, <2>1, <2>3 DEF OrderedBy
  <2>7. \A x \in Inst : \A y \in S[x] : S[y] \subseteq S[x]
    BY <1>1, <2>1, <2>3, <2>4 DEF OrderedBy
  <2>8. \A x \in Inst : next'[x] # None => next'[x] \in S[x]
    BY <1>1, <1>3, <2>1 DEF OrderedBy
  <2>9. OrderedBy(S)'
    BY <2>5, <2>6, <2>7, <2>8 DEF OrderedBy
  <2> QED
    BY <2>2, <2>9 DEF Acyclic
<1> QED
  BY <1>4, <1>5, <1>6, <1>7, <1>8, <1>9 DEF Linked

(* Unlinking a node closes the gap it leaves.                              *)
LEMMA RemoveKeepsLinked ==
  ASSUME IInv, NEW i \in Inst, RemoveInst(i)
  PROVE  Linked' /\ Acyclic'
<1> USE LayoutAssumption DEF IInv, TypeOK, OptBlock, OptInst
<1>a. PICK R \in [Inst -> SUBSET Inst] : OrderedBy(R)
  BY DEF Acyclic
<1> DEFINE b == block_of[i]
           p == prev[i]
           n == next[i]
<1>1. b \in Block
  BY DEF RemoveInst
<1>2. /\ p # None => p \in Inst /\ block_of[p] = b /\ next[p] = i
      /\ n # None => n \in Inst /\ block_of[n] = b /\ prev[n] = i
  BY DEF Linked, ForwardLinks, BackwardLinks
<1>b. n # i /\ p # i
  BY <1>a, <1>2 DEF OrderedBy
<1>3. /\ p = None <=> first_inst[b] = i
      /\ n = None <=> last_inst[b] = i
  BY <1>1 DEF Linked, EndsOfBlock
<1>4. \A j \in Inst : /\ block_of'[j] = IF j = i THEN None ELSE block_of[j]
                      /\ prev'[j] = IF j = n THEN p ELSE IF j = i THEN None ELSE prev[j]
                      /\ next'[j] = IF j = p THEN n ELSE IF j = i THEN None ELSE next[j]
  BY DEF RemoveInst, SetIfSome
<1>5. \A c \in Block : /\ first_inst'[c] = IF p = None /\ c = b THEN n ELSE first_inst[c]
                       /\ last_inst'[c] = IF n = None /\ c = b THEN p ELSE last_inst[c]
  BY DEF RemoveInst
<1>6. ForwardLinks'
  BY <1>1, <1>2, <1>b, <1>4 DEF Linked, ForwardLinks, BackwardLinks
<1>7. BackwardLinks'
  BY <1>1, <1>2, <1>b, <1>4 DEF Linked, ForwardLinks, BackwardLinks
<1>8. EndsOfBlock'
  BY <1>1, <1>2, <1>3, <1>4, <1>5 DEF Linked, EndsOfBlock, ForwardLinks, BackwardLinks
<1>9. BlockEnds'
  BY <1>1, <1>2, <1>3, <1>4, <1>5 DEF Linked, BlockEnds, EndsOfBlock
<1>10. FreshUnlinked'
  BY <1>4 DEF RemoveInst, blockVars, Linked, FreshUnlinked
<1>11. Acyclic'
  <2> DEFINE S == [x \in Inst |-> IF x = i THEN {} ELSE R[x] \ {i}]
  <2>1. S \in [Inst -> SUBSET Inst]
    OBVIOUS
  <2>2. p # None /\ n # None => n \in R[p]
    BY <1>a, <1>2 DEF OrderedBy
  <2>3. \A x \in Inst : next'[x] # None => next'[x] \in S[x]
    BY <1>a, <1>2, <1>b, <1>4, <2>2 DEF OrderedBy, Linked, ForwardLinks
  <2>4. OrderedBy(S)'
    BY <1>a, <1>4, <2>3 DEF OrderedBy
  <2> QED
    BY <2>1, <2>4 DEF Acyclic
<1> QED
  BY <1>6, <1>7, <1>8, <1>9, <1>10, <1>11 DEF Linked

(* Every layout operation of every pass keeps the links consistent.        *)
LEMMA IInvStep == IInv /\ [Next]_vars => IInv'
<1> SUFFICES ASSUME IInv, [Next]_vars PROVE Linked' /\ Acyclic'
  BY TypeStep DEF IInv
<1> USE LayoutAssumption DEF IInv, TypeOK, OptBlock, OptInst
<1>1. ASSUME NEW b \in Block, AppendBlock(b) PROVE Linked' /\ Acyclic'
  BY <1>1 DEF AppendBlock, instVars, Linked, ForwardLinks, BackwardLinks,
              EndsOfBlock, BlockEnds, FreshUnlinked, Acyclic, OrderedBy
<1>2. ASSUME NEW i \in Inst, NEW b \in Block, AppendInst(i, b) PROVE Linked' /\ Acyclic'
  <2>1. Gap(b, last_inst[b], None)
    BY DEF Gap, Linked, EndsOfBlock, BlockEnds
  <2>2. first_inst[b] = None <=> last_inst[b] = None
    BY DEF Linked, BlockEnds
  <2> QED
    BY <1>2, <2>1, <2>2, EnterKeepsLinked DEF AppendInst
<1>3. ASSUME NEW i \in Inst, NEW b \in Block, InsertAtStart(i, b) PROVE Linked' /\ Acyclic'
  <2>1. Gap(b, None, first_inst[b])
    BY DEF Gap, Linked, EndsOfBlock, BlockEnds
  <2>2. first_inst[b] = None <=> last_inst[b] = None
    BY DEF Linked, BlockEnds
  <2> QED
    BY <1>3, <2>1, <2>2, EnterKeepsLinked DEF InsertAtStart
<1>4. ASSUME NEW at \in Inst, NEW i \in Inst, InsertBefore(at, i) PROVE Linked' /\ Acyclic'
  <2> DEFINE b == block_of[at]
  <2>1. b \in blocks /\ b \in Block
    BY <1>4 DEF InsertBefore, Linked, FreshUnlinked
  <2>2. Gap(b, prev[at], at)
    BY <2>1 DEF Gap, Linked, EndsOfBlock, BackwardLinks
  <2>3. first_inst[b] = at <=> prev[at] = None
    BY <2>1 DEF Linked, EndsOfBlock
  <2> QED
    BY <1>4, <2>1, <2>2, <2>3, EnterKeepsLinked DEF InsertBefore
<1>5. ASSUME NEW at \in Inst, NEW i \in Inst, InsertAfter(at, i) PROVE Linked' /\ Acyclic'
  <2> DEFINE b == block_of[at]
  <2>1. b \in blocks /\ b \in Block /\ next[at] # None
    BY <1>5 DEF InsertAfter, Linked, FreshUnlinked
  <2>2. Gap(b, at, next[at])
    BY <2>1 DEF Gap, Linked, ForwardLinks
  <2> QED
    BY <1>5, <2>1, <2>2, EnterKeepsLinked DEF InsertAfter
<1>6. ASSUME NEW i \in Inst, RemoveInst(i) PROVE Linked' /\ Acyclic'
  BY <1>6, RemoveKeepsLinked
<1>7. CASE UNCHANGED vars
  BY <1>7 DEF vars, blockVars, instVars, Linked, ForwardLinks, BackwardLinks,
              EndsOfBlock, BlockEnds, FreshUnlinked, Acyclic, OrderedBy
<1> QED
  BY <1>1, <1>2, <1>3, <1>4, <1>5, <1>6, <1>7 DEF Next

(* The links of the layout are consistent in every reachable state, for    *)
(* any set of blocks and instructions: no insertion or removal of any pass *)
(* breaks, crosses or loses a link.                                        *)
THEOREM LayoutLinked == Spec => []Linked
<1>1. Init => IInv
  <2> SUFFICES ASSUME Init PROVE IInv
    OBVIOUS
  <2> USE LayoutAssumption DEF Init
  <2>1. TypeOK
    BY DEF TypeOK, OptBlock, OptInst
  <2>2. Linked
    BY DEF Linked, ForwardLinks, BackwardLinks, EndsOfBlock, BlockEnds, FreshUnlinked
  <2>3. OrderedBy([x \in Inst |-> {}])
    BY DEF OrderedBy
  <2>4. [x \in Inst |-> {}] \in [Inst -> SUBSET Inst]
    OBVIOUS
  <2> QED
    BY <2>1, <2>2, <2>3, <2>4 DEF IInv, Acyclic
<1>2. IInv => Linked
  BY DEF IInv
<1> QED
  BY <1>1, <1>2, IInvStep, PTL DEF Spec

-----------------------------------------------------------------------------
(* The order of the naturals as a relation.                                *)
Less == OpToRel(<, Nat)

(* Induction over the naturals, for a set instead of a predicate.          *)
LEMMA NatInduct ==
  ASSUME NEW S, \A n \in Nat : (n = 0 \/ n - 1 \in S) => n \in S
  PROVE  Nat \subseteq S
<1> DEFINE T == {n \in Nat : n \notin S}
<1> SUFFICES ASSUME T # {} PROVE FALSE
  OBVIOUS
<1>1. IsWellFoundedOn(Less, Nat)
  BY NatLessThanWellFounded DEF Less
<1>2. PICK n \in T : \A m \in T : ~ (<<m, n>> \in Less)
  <2>1. T \subseteq Nat
    OBVIOUS
  <2> HIDE DEF T
  <2> QED BY <1>1, <2>1, WFMin
<1>3. n \in Nat /\ n \notin S
  OBVIOUS
<1>4. n = 0 \/ n - 1 \in S
  <2> SUFFICES ASSUME n # 0, n - 1 \notin S PROVE FALSE
    OBVIOUS
  <2>1. n - 1 \in Nat /\ n - 1 \in T /\ n - 1 < n
    BY <1>3
  <2>2. <<n - 1, n>> \in Less
    BY <1>3, <2>1 DEF Less, OpToRel
  <2> QED
    BY <1>2, <2>1, <2>2
<1> QED
  BY <1>3, <1>4

(* The k-th element of a list, or None.                                    *)
At(s, k) == IF k \in 1 .. Len(s) THEN s[k] ELSE None

(* The links step lead from first along s and end there.                   *)
Chain(s, first, step) ==
  /\ first = At(s, 1)
  /\ \A k \in 1 .. Len(s) : step[s[k]] = At(s, k + 1)

(* An iterator yields the list whose links it follows.                     *)
LEMMA IterIs ==
  ASSUME NEW S, None \notin S, NEW s \in Seq(S), NEW first, NEW step,
         Chain(s, first, step), NEW most \in Nat, Len(s) <= most
  PROVE  Iter(first, step, most) = s
<1> DEFINE Body(g) == [n \in Nat |-> IF n = 0 THEN first
                                     ELSE IF g[n - 1] = None THEN None ELSE step[g[n - 1]]]
           cur == CHOOSE g : g = Body(g)
           run == [n \in Nat |-> At(s, n + 1)]
           L == Len(s)
<1>0. L \in Nat /\ L <= most /\ \A k \in 1 .. L : s[k] \in S /\ s[k] # None
  OBVIOUS
<1>1. run = Body(run)
  <2> SUFFICES ASSUME NEW n \in Nat
               PROVE  run[n] = IF n = 0 THEN first
                               ELSE IF run[n - 1] = None THEN None ELSE step[run[n - 1]]
    OBVIOUS
  <2>1. CASE n = 0
    BY <2>1 DEF Chain
  <2>2. CASE n > 0
    <3>1. n - 1 \in Nat /\ run[n - 1] = At(s, n) /\ run[n] = At(s, n + 1)
      BY <2>2
    <3> HIDE DEF run
    <3>2. CASE n <= L
      <4>1. n \in 1 .. Len(s)
        BY <2>2, <3>2
      <4>2. run[n - 1] = s[n] /\ s[n] # None
        BY <3>1, <4>1, <1>0 DEF At
      <4> QED
        BY <2>2, <3>1, <4>1, <4>2 DEF Chain
    <3>3. CASE n > L
      <4>1. At(s, n) = None /\ At(s, n + 1) = None
        BY <1>0, <3>3 DEF At
      <4> QED
        BY <2>2, <3>1, <4>1
    <3> QED BY <1>0, <3>2, <3>3
  <2> QED BY <2>1, <2>2
<1>2. cur = Body(cur)
  <2> HIDE DEF run
  <2> QED BY <1>1, Zenon
<1>3. \A n \in Nat : cur[n] = At(s, n + 1)
  <2> DEFINE T == {n \in Nat : cur[n] = At(s, n + 1)}
  <2>1. ASSUME NEW n \in Nat, n = 0 \/ n - 1 \in T
        PROVE  n \in T
    <3>1. cur[n] = Body(cur)[n]
      BY <1>2, Zenon
    <3>2. cur[n] = IF n = 0 THEN first
                   ELSE IF cur[n - 1] = None THEN None ELSE step[cur[n - 1]]
      BY <3>1, Zenon
    <3>3. run[n] = IF n = 0 THEN first
                   ELSE IF run[n - 1] = None THEN None ELSE step[run[n - 1]]
      <4>1. run[n] = Body(run)[n]
        BY <1>1, Zenon
      <4> QED BY <4>1, Zenon
    <3>4. n # 0 => cur[n - 1] = run[n - 1]
      <4> HIDE DEF cur
      <4>1. n # 0 => n - 1 \in Nat
        OBVIOUS
      <4>2. n # 0 => cur[n - 1] = At(s, (n - 1) + 1)
        BY <2>1
      <4> QED BY <4>1, <4>2
    <3> HIDE DEF cur
    <3>5. cur[n] = run[n]
      <4> HIDE DEF run
      <4> QED BY <3>2, <3>3, <3>4
    <3> QED BY <3>5
  <2> HIDE DEF T
  <2>2. Nat \subseteq T
    BY <2>1, NatInduct
  <2> QED
    BY <2>2 DEF T
<1>4. Iter(first, step, most) =
        [n \in {k \in 1 .. most : \A m \in 1 .. k : cur[m - 1] # None} |-> cur[n - 1]]
  BY Zenon DEF Iter
<1> HIDE DEF cur, run
<1>5. \A n \in Nat \ {0} : cur[n - 1] = At(s, n)
  <2> TAKE n \in Nat \ {0}
  <2>1. n - 1 \in Nat /\ (n - 1) + 1 = n
    OBVIOUS
  <2> QED BY <1>3, <2>1
<1>6. {k \in 1 .. most : \A m \in 1 .. k : cur[m - 1] # None} = 1 .. L
  <2>1. ASSUME NEW k \in 1 .. L
        PROVE  k \in 1 .. most /\ \A m \in 1 .. k : cur[m - 1] # None
    <3>1. ASSUME NEW m \in 1 .. k PROVE cur[m - 1] # None
      <4>1. m \in Nat \ {0} /\ m \in 1 .. L
        BY <1>0
      <4>2. cur[m - 1] = At(s, m)
        BY <1>5, <4>1
      <4> QED BY <1>0, <4>1, <4>2 DEF At
    <3> QED BY <1>0, <3>1
  <2>2. ASSUME NEW k \in 1 .. most, \A m \in 1 .. k : cur[m - 1] # None
        PROVE  k \in 1 .. L
    <3> SUFFICES ASSUME k > L PROVE FALSE
      BY <1>0
    <3>1. L + 1 \in 1 .. k /\ L + 1 \in Nat \ {0}
      BY <1>0
    <3>2. cur[(L + 1) - 1] = At(s, L + 1) /\ At(s, L + 1) = None
      BY <1>0, <1>5, <3>1 DEF At
    <3> QED BY <2>2, <3>1, <3>2
  <2> QED BY <2>1, <2>2
<1>7. \A n \in 1 .. L : cur[n - 1] = s[n]
  BY <1>0, <1>5 DEF At
<1>8. s = [n \in 1 .. L |-> s[n]]
  OBVIOUS
<1> QED
  BY <1>4, <1>6, <1>7, <1>8

(* s is a list of the nodes M, which the pointers agree on.                *)
ListOK(s, M, first, last, nx, pv) ==
  /\ s \in Seq(M)
  /\ \A j, k \in 1 .. Len(s) : s[j] = s[k] => j = k
  /\ \A i \in M : \E k \in 1 .. Len(s) : s[k] = i
  /\ first = At(s, 1) /\ last = At(s, Len(s))
  /\ \A k \in 1 .. Len(s) : nx[s[k]] = At(s, k + 1) /\ pv[s[k]] = At(s, k - 1)

(* A list has no more elements than there are nodes.                       *)
LEMMA ListLength ==
  ASSUME NEW M, IsFiniteSet(M), NEW s \in Seq(M),
         \A j, k \in 1 .. Len(s) : s[j] = s[k] => j = k
  PROVE  Cardinality(M) \in Nat /\ Len(s) <= Cardinality(M)
<1>1. Len(s) \in Nat /\ s \in [1 .. Len(s) -> M]
  OBVIOUS
<1>2. s \in Injection(1 .. Len(s), M)
  BY <1>1 DEF Injection, IsInjective
<1>3. Cardinality(1 .. Len(s)) <= Cardinality(M)
  BY <1>2, FS_Injection
<1>4. Cardinality(1 .. Len(s)) = Len(s)
  BY <1>1, FS_Interval
<1> QED
  BY <1>3, <1>4, FS_CardinalityType

(* A new node i stands at place n of t, the rest is s.                     *)
Inserted(t, s, n, i) ==
  /\ Len(t) = Len(s) + 1
  /\ \A k \in 1 .. Len(s) + 1 : t[k] = IF k < n THEN s[k] ELSE IF k = n THEN i ELSE s[k - 1]

(* Place n of s is left out of t.                                          *)
Removed(t, s, n) ==
  /\ Len(t) = Len(s) - 1
  /\ \A k \in 1 .. Len(s) - 1 : t[k] = IF k < n THEN s[k] ELSE s[k + 1]

(* Entering a node where its neighbours are keeps a list a list.           *)
LEMMA EnterList ==
  ASSUME NEW N, None \notin N, NEW M \in SUBSET N, NEW i \in N \ M,
         NEW nx, NEW pv, DOMAIN nx = N, DOMAIN pv = N,
         NEW f, NEW l, NEW s, ListOK(s, M, f, l, nx, pv),
         NEW n \in 1 .. Len(s) + 1, NEW t \in Seq(N), Inserted(t, s, n, i)
  PROVE  ListOK(t, M \cup {i},
                IF n = 1 THEN i ELSE f, IF n = Len(s) + 1 THEN i ELSE l,
                SetIfSome([nx EXCEPT ![i] = At(s, n)], At(s, n - 1), i),
                SetIfSome([pv EXCEPT ![i] = At(s, n - 1)], At(s, n), i))
<1> DEFINE L == Len(s)
           nx2 == SetIfSome([nx EXCEPT ![i] = At(s, n)], At(s, n - 1), i)
           pv2 == SetIfSome([pv EXCEPT ![i] = At(s, n - 1)], At(s, n), i)
<1>0. /\ s \in Seq(M) /\ L \in Nat /\ Len(t) = L + 1 /\ n \in Nat /\ n >= 1 /\ n <= L + 1
      /\ \A k \in 1 .. L : s[k] \in M /\ s[k] \in N /\ s[k] # i /\ s[k] # None
      /\ i # None
  <2>1. s \in Seq(M) /\ Len(t) = Len(s) + 1
    BY DEF ListOK, Inserted
  <2>2. Len(s) \in Nat /\ \A k \in 1 .. Len(s) : s[k] \in M
    BY <2>1
  <2> QED BY <2>1, <2>2
<1>1. \A j, k \in 1 .. L : s[j] = s[k] => j = k
  BY DEF ListOK
<1>2. \A k \in 1 .. L + 1 : t[k] = IF k < n THEN s[k] ELSE IF k = n THEN i ELSE s[k - 1]
  BY DEF Inserted
<1>3. /\ \A k \in 1 .. n - 1 : k \in 1 .. L /\ t[k] = s[k]
      /\ t[n] = i
      /\ \A k \in n + 1 .. L + 1 : k - 1 \in 1 .. L /\ t[k] = s[k - 1]
  <2> HIDE DEF L
  <2>1. \A k \in n + 1 .. L + 1 :
          k \in 1 .. L + 1 /\ k > n /\ k # n /\ k - 1 \in 1 .. L
    BY <1>0
  <2>2. \A k \in 1 .. n - 1 : k \in 1 .. L + 1 /\ k < n /\ k \in 1 .. L
    BY <1>0
  <2>3. n \in 1 .. L + 1 /\ ~ (n < n)
    BY <1>0
  <2>4. \A k \in n + 1 .. L + 1 : t[k] = s[k - 1]
    <3> TAKE k \in n + 1 .. L + 1
    <3>1. k \in 1 .. L + 1 /\ ~ (k < n) /\ k # n
      BY <1>0, <2>1
    <3> QED BY <1>2, <3>1
  <2> QED BY <1>2, <2>1, <2>2, <2>3, <2>4
<1>4. \A k \in 1 .. L + 1 : k \in 1 .. n - 1 \/ k = n \/ k \in n + 1 .. L + 1
  BY <1>0
<1>5. t \in Seq(M \cup {i})
  <2>1. \A k \in 1 .. L + 1 : t[k] \in M \cup {i}
    BY <1>0, <1>3, <1>4
  <2>2. t = [k \in 1 .. L + 1 |-> t[k]]
    BY <1>0
  <2>3. [k \in 1 .. L + 1 |-> t[k]] \in Seq(M \cup {i})
    BY <1>0, <2>1
  <2> QED BY <2>2, <2>3
<1>6. \A j, k \in 1 .. L + 1 : t[j] = t[k] => j = k
  <2> SUFFICES ASSUME NEW j \in 1 .. L + 1, NEW k \in 1 .. L + 1, t[j] = t[k] PROVE j = k
    OBVIOUS
  <2> HIDE DEF L
  <2>1. \/ j \in 1 .. L /\ j < n /\ t[j] = s[j]
        \/ j = n /\ t[j] = i
        \/ j - 1 \in 1 .. L /\ j > n /\ t[j] = s[j - 1]
    BY <1>0, <1>3, <1>4
  <2>2. \/ k \in 1 .. L /\ k < n /\ t[k] = s[k]
        \/ k = n /\ t[k] = i
        \/ k - 1 \in 1 .. L /\ k > n /\ t[k] = s[k - 1]
    BY <1>0, <1>3, <1>4
  <2> QED BY <1>0, <1>1, <2>1, <2>2
<1>7. \A x \in M \cup {i} : \E k \in 1 .. L + 1 : t[k] = x
  <2>1. ASSUME NEW x \in M PROVE \E k \in 1 .. L + 1 : t[k] = x
    <3>1. PICK k \in 1 .. L : s[k] = x
      BY DEF ListOK
    <3>2. CASE k < n
      BY <1>0, <1>2, <3>1, <3>2
    <3>3. CASE k >= n
      <4>1. k + 1 \in 1 .. L + 1 /\ t[k + 1] = s[k]
        BY <1>0, <1>2, <3>3
      <4> QED BY <3>1, <4>1
    <3> QED BY <1>0, <3>2, <3>3
  <2>2. n \in 1 .. L + 1 /\ t[n] = i
    BY <1>0, <1>3
  <2> QED BY <2>1, <2>2
<1>8. /\ (IF n = 1 THEN i ELSE f) = At(t, 1)
      /\ (IF n = L + 1 THEN i ELSE l) = At(t, Len(t))
  <2>1. f = At(s, 1) /\ l = At(s, L)
    BY DEF ListOK
  <2> QED BY <1>0, <1>2, <2>1 DEF At
<1>9. /\ nx2[i] = At(s, n) /\ pv2[i] = At(s, n - 1)
      /\ \A x \in M : /\ nx2[x] = IF x = At(s, n - 1) THEN i ELSE nx[x]
                      /\ pv2[x] = IF x = At(s, n) THEN i ELSE pv[x]
  <2>1. At(s, n) # i /\ At(s, n - 1) # i
    BY <1>0 DEF At
  <2> QED BY <1>0, <2>1 DEF SetIfSome
<1>10. \A k \in 1 .. L : nx[s[k]] = At(s, k + 1) /\ pv[s[k]] = At(s, k - 1)
  BY DEF ListOK
<1> HIDE DEF nx2, pv2
<1>11. ASSUME NEW k \in 1 .. L + 1 PROVE nx2[t[k]] = At(t, k + 1)
  <2>1. CASE k < n - 1
    <3>1. k \in 1 .. L /\ t[k] = s[k] /\ k + 1 \in 1 .. L /\ t[k + 1] = s[k + 1]
      BY <1>0, <1>2, <2>1
    <3>2. s[k] # At(s, n - 1)
      BY <1>0, <1>1, <2>1, <3>1 DEF At
    <3> QED BY <1>0, <1>9, <1>10, <3>1, <3>2 DEF At
  <2>2. CASE k = n - 1
    <3>1. k \in 1 .. L /\ t[k] = s[k] /\ At(s, n - 1) = s[k]
      BY <1>0, <1>2, <2>2 DEF At
    <3>2. At(t, k + 1) = i
      BY <1>0, <1>3, <2>2 DEF At
    <3> QED BY <1>0, <1>9, <3>1, <3>2
  <2>3. CASE k = n
    <3>1. At(t, k + 1) = At(s, n)
      BY <1>0, <1>2, <2>3 DEF At
    <3> QED BY <1>3, <1>9, <2>3, <3>1
  <2>4. CASE k > n
    <3>1. k - 1 \in 1 .. L /\ t[k] = s[k - 1] /\ At(t, k + 1) = At(s, k)
      BY <1>0, <1>2, <2>4 DEF At
    <3>2. s[k - 1] # At(s, n - 1)
      BY <1>0, <1>1, <2>4, <3>1 DEF At
    <3>3. nx[s[k - 1]] = At(s, (k - 1) + 1)
      BY <1>10, <3>1
    <3>4. (k - 1) + 1 = k
      BY <1>0
    <3> QED BY <1>0, <1>9, <3>1, <3>2, <3>3, <3>4
  <2> QED BY <1>0, <2>1, <2>2, <2>3, <2>4
<1>12. ASSUME NEW k \in 1 .. L + 1 PROVE pv2[t[k]] = At(t, k - 1)
  <2>1. CASE k < n
    <3>1. k \in 1 .. L /\ t[k] = s[k] /\ At(t, k - 1) = At(s, k - 1)
      BY <1>0, <1>2, <2>1 DEF At
    <3>2. s[k] # At(s, n)
      BY <1>0, <1>1, <2>1, <3>1 DEF At
    <3> QED BY <1>0, <1>9, <1>10, <3>1, <3>2
  <2>2. CASE k = n
    <3>1. At(t, k - 1) = At(s, n - 1)
      BY <1>0, <1>2, <2>2 DEF At
    <3> QED BY <1>3, <1>9, <2>2, <3>1
  <2>3. CASE k = n + 1
    <3>1. n \in 1 .. L /\ t[k] = s[n] /\ At(s, n) = s[n]
      BY <1>0, <1>2, <2>3 DEF At
    <3>2. At(t, k - 1) = i
      BY <1>0, <1>3, <2>3 DEF At
    <3> QED BY <1>0, <1>9, <3>1, <3>2
  <2>4. CASE k > n + 1
    <3>1. k - 1 \in 1 .. L /\ t[k] = s[k - 1] /\ At(t, k - 1) = At(s, k - 2)
      BY <1>0, <1>2, <2>4 DEF At
    <3>2. s[k - 1] # At(s, n)
      BY <1>0, <1>1, <2>4, <3>1 DEF At
    <3>3. pv[s[k - 1]] = At(s, (k - 1) - 1)
      BY <1>10, <3>1
    <3>4. (k - 1) - 1 = k - 2
      BY <1>0
    <3> QED BY <1>0, <1>9, <3>1, <3>2, <3>3, <3>4
  <2> QED BY <1>0, <2>1, <2>2, <2>3, <2>4
<1> QED
  BY <1>0, <1>5, <1>6, <1>7, <1>8, <1>11, <1>12 DEF ListOK, nx2, pv2

(* Node i leaves the links g, of which the one at x becomes v; the end e   *)
(* of a list moves to y when i has no neighbour x on that side.            *)
Unlink(g, i, x, v) == SetIfSome([g EXCEPT ![i] = None], x, v)
EndWithout(e, x, y) == IF x = None THEN y ELSE e

(* Unlinking the node at place n keeps a list a list.                      *)
LEMMA RemoveList ==
  ASSUME NEW N, None \notin N, NEW M \in SUBSET N,
         NEW nx, NEW pv, DOMAIN nx = N, DOMAIN pv = N,
         NEW f, NEW l, NEW s, ListOK(s, M, f, l, nx, pv),
         NEW n \in 1 .. Len(s), NEW t \in Seq(N), Removed(t, s, n)
  PROVE  LET i == s[n]
         IN  ListOK(t, M \ {i}, EndWithout(f, pv[i], nx[i]), EndWithout(l, nx[i], pv[i]),
                    Unlink(nx, i, pv[i], nx[i]), Unlink(pv, i, nx[i], pv[i]))
<1> DEFINE L == Len(s)
           i == s[n]
           nx2 == Unlink(nx, i, pv[i], nx[i])
           pv2 == Unlink(pv, i, nx[i], pv[i])
<1>0. /\ s \in Seq(M) /\ L \in Nat /\ Len(t) = L - 1 /\ n \in Nat /\ n >= 1 /\ n <= L
      /\ \A k \in 1 .. L : s[k] \in M /\ s[k] \in N /\ s[k] # None
      /\ i \in M /\ i # None
  <2>1. s \in Seq(M) /\ Len(t) = Len(s) - 1
    BY DEF ListOK, Removed
  <2>2. Len(s) \in Nat /\ \A k \in 1 .. Len(s) : s[k] \in M
    BY <2>1
  <2> QED BY <2>1, <2>2
<1>1. \A j, k \in 1 .. L : s[j] = s[k] => j = k
  BY DEF ListOK
<1>2. \A k \in 1 .. L - 1 : t[k] = IF k < n THEN s[k] ELSE s[k + 1]
  BY DEF Removed
<1>3. \A k \in 1 .. L : nx[s[k]] = At(s, k + 1) /\ pv[s[k]] = At(s, k - 1)
  BY DEF ListOK
<1>4. nx[i] = At(s, n + 1) /\ pv[i] = At(s, n - 1)
  BY <1>3
<1>5. t \in Seq(M \ {i})
  <2>1. \A k \in 1 .. L - 1 : t[k] \in M \ {i}
    <3> TAKE k \in 1 .. L - 1
    <3>1. k \in 1 .. L /\ k + 1 \in 1 .. L
      BY <1>0
    <3> QED BY <1>0, <1>1, <1>2, <3>1
  <2>2. t = [k \in 1 .. L - 1 |-> t[k]]
    BY <1>0
  <2>3. [k \in 1 .. L - 1 |-> t[k]] \in Seq(M \ {i})
    <3>1. L - 1 \in Nat
      BY <1>0
    <3> QED BY <2>1, <3>1
  <2> QED BY <2>2, <2>3
<1>6. \A j, k \in 1 .. L - 1 : t[j] = t[k] => j = k
  <2> SUFFICES ASSUME NEW j \in 1 .. L - 1, NEW k \in 1 .. L - 1, t[j] = t[k] PROVE j = k
    OBVIOUS
  <2>1. j \in 1 .. L /\ j + 1 \in 1 .. L /\ k \in 1 .. L /\ k + 1 \in 1 .. L
    BY <1>0
  <2> QED BY <1>0, <1>1, <1>2, <2>1
<1>7. \A x \in M \ {i} : \E k \in 1 .. L - 1 : t[k] = x
  <2> TAKE x \in M \ {i}
  <2>1. PICK k \in 1 .. L : s[k] = x
    BY DEF ListOK
  <2>2. CASE k < n
    BY <1>0, <1>2, <2>1, <2>2
  <2>3. CASE k > n
    <3>1. k - 1 \in 1 .. L - 1 /\ t[k - 1] = s[k]
      BY <1>0, <1>2, <2>3
    <3> QED BY <2>1, <3>1
  <2> QED BY <1>0, <2>1, <2>2, <2>3
<1>8. /\ EndWithout(f, pv[i], nx[i]) = At(t, 1)
      /\ EndWithout(l, nx[i], pv[i]) = At(t, Len(t))
  <2>1. f = At(s, 1) /\ l = At(s, L)
    BY DEF ListOK
  <2>2. pv[i] = None <=> n = 1
    BY <1>0, <1>4 DEF At
  <2>3. nx[i] = None <=> n = L
    BY <1>0, <1>4 DEF At
  <2> QED BY <1>0, <1>2, <1>4, <2>1, <2>2, <2>3 DEF At, EndWithout
<1>9. \A x \in M \ {i} : /\ nx2[x] = IF x = At(s, n - 1) THEN At(s, n + 1) ELSE nx[x]
                         /\ pv2[x] = IF x = At(s, n + 1) THEN At(s, n - 1) ELSE pv[x]
  BY <1>0, <1>4 DEF SetIfSome, Unlink
<1> HIDE DEF nx2, pv2, i
<1>10. ASSUME NEW k \in 1 .. L - 1 PROVE nx2[t[k]] = At(t, k + 1)
  <2>0. t[k] \in M \ {i}
    BY <1>0, <1>5
  <2>1. CASE k < n - 1
    <3>1. k \in 1 .. L /\ t[k] = s[k] /\ At(t, k + 1) = At(s, k + 1)
      BY <1>0, <1>2, <2>1 DEF At
    <3>2. s[k] # At(s, n - 1)
      BY <1>0, <1>1, <2>1, <3>1 DEF At
    <3> QED BY <1>3, <1>9, <2>0, <3>1, <3>2
  <2>2. CASE k = n - 1
    <3>1. t[k] = At(s, n - 1) /\ At(t, k + 1) = At(s, n + 1)
      BY <1>0, <1>2, <2>2 DEF At
    <3> QED BY <1>9, <2>0, <3>1
  <2>3. CASE k >= n
    <3>1. k + 1 \in 1 .. L /\ t[k] = s[k + 1] /\ At(t, k + 1) = At(s, (k + 1) + 1)
      BY <1>0, <1>2, <2>3 DEF At
    <3>2. s[k + 1] # At(s, n - 1)
      BY <1>0, <1>1, <2>3, <3>1 DEF At
    <3> QED BY <1>3, <1>9, <2>0, <3>1, <3>2
  <2> QED BY <1>0, <2>1, <2>2, <2>3
<1>11. ASSUME NEW k \in 1 .. L - 1 PROVE pv2[t[k]] = At(t, k - 1)
  <2>0. t[k] \in M \ {i}
    BY <1>0, <1>5
  <2>1. CASE k < n
    <3>1. k \in 1 .. L /\ t[k] = s[k] /\ At(t, k - 1) = At(s, k - 1)
      BY <1>0, <1>2, <2>1 DEF At
    <3>2. s[k] # At(s, n + 1)
      BY <1>0, <1>1, <2>1, <3>1 DEF At
    <3> QED BY <1>3, <1>9, <2>0, <3>1, <3>2
  <2>2. CASE k = n
    <3>1. t[k] = At(s, n + 1) /\ At(t, k - 1) = At(s, n - 1)
      BY <1>0, <1>2, <2>2 DEF At
    <3> QED BY <1>9, <2>0, <3>1
  <2>3. CASE k > n
    <3>1. k + 1 \in 1 .. L /\ t[k] = s[k + 1] /\ At(t, k - 1) = At(s, (k + 1) - 1)
      BY <1>0, <1>2, <2>3 DEF At
    <3>2. s[k + 1] # At(s, n + 1)
      BY <1>0, <1>1, <2>3, <3>1 DEF At
    <3> QED BY <1>3, <1>9, <2>0, <3>1, <3>2
  <2> QED BY <1>0, <2>1, <2>2, <2>3
<1> QED
  BY <1>0, <1>5, <1>6, <1>7, <1>8, <1>10, <1>11 DEF ListOK, nx2, pv2, i

(* The pointers represent the order o of the blocks and the instructions   *)
(* c[b] of every block b.                                                  *)
Represents(o, c) ==
  /\ TypeOK /\ FreshUnlinked
  /\ \A b \in Block \ blocks : next_block[b] = None
  /\ ListOK(o, blocks, first_block, last_block, next_block, prev_block)
  /\ c \in [Block -> Seq(Inst)]
  /\ \A b \in Block : ListOK(c[b], {i \in Inst : block_of[i] = b},
                             first_inst[b], last_inst[b], next, prev)

(* Both iterators yield what the pointers represent.                       *)
Iterated ==
  \A o, c : Represents(o, c) => BlockIter = o /\ [b \in Block |-> InstIter(b)] = c

(* The iterators follow the links of the lists and stop at their ends.     *)
LEMMA IteratorsYield == Iterated
<1> SUFFICES ASSUME NEW o, NEW c, Represents(o, c)
             PROVE  BlockIter = o /\ [b \in Block |-> InstIter(b)] = c
  BY DEF Iterated
<1>1. BlockIter = o
  <2>1. /\ ListOK(o, blocks, first_block, last_block, next_block, prev_block)
        /\ blocks \subseteq Block
    BY DEF Represents, TypeOK
  <2>2. o \in Seq(Block) /\ Chain(o, first_block, next_block)
        /\ \A j, k \in 1 .. Len(o) : o[j] = o[k] => j = k
    <3>1. o \in Seq(blocks)
      BY <2>1 DEF ListOK
    <3>2. o \in Seq(Block)
      BY <2>1, <3>1
    <3> QED BY <2>1, <3>2 DEF ListOK, Chain
  <2>3. Cardinality(Block) \in Nat /\ Len(o) <= Cardinality(Block)
    BY <2>2, LayoutAssumption, ListLength
  <2>4. Cardinality(Block) + 1 \in Nat /\ Len(o) <= Cardinality(Block) + 1
    BY <2>2, <2>3
  <2> QED
    BY <2>2, <2>4, LayoutAssumption, IterIs DEF BlockIter
<1>2. ASSUME NEW b \in Block PROVE InstIter(b) = c[b]
  <2> DEFINE step == [i \in Inst |-> InstIterStep(b, i)]
             s == c[b]
  <2>1. /\ ListOK(s, {i \in Inst : block_of[i] = b}, first_inst[b], last_inst[b], next, prev)
        /\ s \in Seq(Inst)
    BY DEF Represents
  <2>2. /\ \A j, k \in 1 .. Len(s) : s[j] = s[k] => j = k
        /\ \A k \in 1 .. Len(s) : next[s[k]] = At(s, k + 1)
        /\ first_inst[b] = At(s, 1) /\ last_inst[b] = At(s, Len(s))
    BY <2>1 DEF ListOK
  <2>3. \A k \in 1 .. Len(s) : step[s[k]] = At(s, k + 1)
    <3> TAKE k \in 1 .. Len(s)
    <3>1. s[k] \in Inst /\ Len(s) \in 1 .. Len(s) /\ Len(s) \in Nat
      BY <2>1
    <3>2. s[k] = last_inst[b] <=> k = Len(s)
      BY <2>2, <3>1 DEF At
    <3>3. step[s[k]] = IF s[k] = last_inst[b] THEN None ELSE next[s[k]]
      BY <3>1 DEF InstIterStep
    <3>4. k = Len(s) => At(s, k + 1) = None
      BY <3>1 DEF At
    <3> HIDE DEF step
    <3> QED BY <2>2, <3>2, <3>3, <3>4
  <2>4. Chain(s, first_inst[b], step)
    BY <2>2, <2>3 DEF Chain
  <2>5. Cardinality(Inst) \in Nat /\ Len(s) <= Cardinality(Inst)
    BY <2>1, <2>2, LayoutAssumption, ListLength
  <2>6. Cardinality(Inst) + 1 \in Nat /\ Len(s) <= Cardinality(Inst) + 1
    BY <2>1, <2>5
  <2> HIDE DEF step, s
  <2>7. Iter(first_inst[b], step, Cardinality(Inst) + 1) = s
    BY <2>1, <2>4, <2>6, LayoutAssumption, IterIs
  <2> QED
    BY <2>7 DEF InstIter, step, s
<1>3. c = [b \in Block |-> c[b]]
  BY DEF Represents
<1> QED
  BY <1>1, <1>2, <1>3

(* So they do after a step.                                                *)
LEMMA IteratorsYieldNext == Iterated'
BY IteratorsYield, PTL

-----------------------------------------------------------------------------
(* InsertAt puts an element at a place and keeps the others in order.      *)
LEMMA InsertAtInserts ==
  ASSUME NEW S, NEW s \in Seq(S), NEW n \in 1 .. Len(s) + 1, NEW e \in S
  PROVE  Abs!InsertAt(s, n, e) \in Seq(S) /\ Inserted(Abs!InsertAt(s, n, e), s, n, e)
<1> DEFINE L == Len(s)
           x == SubSeq(s, 1, n - 1)
           y == SubSeq(s, n, L)
           z == <<e>>
<1>0. L \in Nat /\ n \in Nat /\ 1 <= n /\ n <= L + 1
  OBVIOUS
<1>1. x \in Seq(S) /\ Len(x) = n - 1 /\ \A k \in 1 .. n - 1 : x[k] = s[k]
  <2>1. 1 \in Int /\ n - 1 \in Int /\ \A k \in 1 .. n - 1 : s[k] \in S
    BY <1>0
  <2>2. /\ x \in Seq(S) /\ Len(x) = IF 1 <= n - 1 THEN n - 1 - 1 + 1 ELSE 0
        /\ \A k \in 1 .. n - 1 - 1 + 1 : x[k] = s[1 + k - 1]
    BY <2>1, SubSeqProperties
  <2> HIDE DEF x
  <2> QED BY <1>0, <2>2
<1>2. y \in Seq(S) /\ Len(y) = L - n + 1 /\ \A k \in 1 .. L - n + 1 : y[k] = s[n + k - 1]
  <2>1. n \in Int /\ L \in Int /\ \A k \in n .. L : s[k] \in S
    BY <1>0
  <2>2. /\ y \in Seq(S) /\ Len(y) = IF n <= L THEN L - n + 1 ELSE 0
        /\ \A k \in 1 .. L - n + 1 : y[k] = s[n + k - 1]
    <3> HIDE DEF L
    <3> QED BY <2>1, SubSeqProperties
  <2> HIDE DEF y, L
  <2> QED BY <1>0, <2>2
<1>3. z \in Seq(S) /\ Len(z) = 1 /\ z[1] = e
  OBVIOUS
<1> HIDE DEF x, y, z, L
<1>4. /\ x \o z \in Seq(S) /\ Len(x \o z) = n
      /\ \A k \in 1 .. n : (x \o z)[k] = IF k < n THEN s[k] ELSE e
  <2>1. /\ x \o z \in Seq(S) /\ Len(x \o z) = Len(x) + Len(z)
        /\ \A k \in 1 .. Len(x) + Len(z) :
             (x \o z)[k] = IF k <= Len(x) THEN x[k] ELSE z[k - Len(x)]
    BY <1>1, <1>3, ConcatProperties
  <2> QED BY <1>0, <1>1, <1>3, <2>1
<1> DEFINE w == x \o z
<1> HIDE DEF w
<1>5. /\ w \o y \in Seq(S) /\ Len(w \o y) = L + 1
      /\ \A k \in 1 .. L + 1 : (w \o y)[k] = IF k < n THEN s[k] ELSE IF k = n THEN e ELSE s[k - 1]
  <2>1. /\ w \o y \in Seq(S) /\ Len(w \o y) = Len(w) + Len(y)
        /\ \A k \in 1 .. Len(w) + Len(y) :
             (w \o y)[k] = IF k <= Len(w) THEN w[k] ELSE y[k - Len(w)]
    <3>1. w \in Seq(S)
      BY <1>4 DEF w
    <3> QED BY <1>2, <3>1, ConcatProperties
  <2>2. Len(w) = n /\ \A k \in 1 .. n : w[k] = IF k < n THEN s[k] ELSE e
    BY <1>4 DEF w
  <2> QED BY <1>0, <1>2, <2>1, <2>2, SMTT(20)
<1>6. Abs!InsertAt(s, n, e) = w \o y
  BY DEF Abs!InsertAt, w, x, y, z, L
<1> QED
  BY <1>5, <1>6 DEF Inserted, L

(* RemoveAt leaves out the element of a place.                             *)
LEMMA RemoveAtRemoves ==
  ASSUME NEW S, NEW s \in Seq(S), NEW n \in 1 .. Len(s)
  PROVE  Abs!RemoveAt(s, n) \in Seq(S) /\ Removed(Abs!RemoveAt(s, n), s, n)
<1> DEFINE L == Len(s)
           x == SubSeq(s, 1, n - 1)
           y == SubSeq(s, n + 1, L)
<1>0. L \in Nat /\ n \in Nat /\ 1 <= n /\ n <= L
  OBVIOUS
<1>1. x \in Seq(S) /\ Len(x) = n - 1 /\ \A k \in 1 .. n - 1 : x[k] = s[k]
  <2>1. 1 \in Int /\ n - 1 \in Int /\ \A k \in 1 .. n - 1 : s[k] \in S
    BY <1>0
  <2>2. /\ x \in Seq(S) /\ Len(x) = IF 1 <= n - 1 THEN n - 1 - 1 + 1 ELSE 0
        /\ \A k \in 1 .. n - 1 - 1 + 1 : x[k] = s[1 + k - 1]
    BY <2>1, SubSeqProperties
  <2> HIDE DEF x
  <2> QED BY <1>0, <2>2
<1>2. y \in Seq(S) /\ Len(y) = L - n /\ \A k \in 1 .. L - n : y[k] = s[n + k]
  <2>1. n + 1 \in Int /\ L \in Int /\ \A k \in n + 1 .. L : s[k] \in S
    BY <1>0
  <2>2. /\ y \in Seq(S) /\ Len(y) = IF n + 1 <= L THEN L - (n + 1) + 1 ELSE 0
        /\ \A k \in 1 .. L - (n + 1) + 1 : y[k] = s[(n + 1) + k - 1]
    <3> HIDE DEF L
    <3> QED BY <2>1, SubSeqProperties
  <2> HIDE DEF y, L
  <2> QED BY <1>0, <2>2
<1> HIDE DEF x, y, L
<1>3. /\ x \o y \in Seq(S) /\ Len(x \o y) = L - 1
      /\ \A k \in 1 .. L - 1 : (x \o y)[k] = IF k < n THEN s[k] ELSE s[k + 1]
  <2>1. /\ x \o y \in Seq(S) /\ Len(x \o y) = Len(x) + Len(y)
        /\ \A k \in 1 .. Len(x) + Len(y) :
             (x \o y)[k] = IF k <= Len(x) THEN x[k] ELSE y[k - Len(x)]
    BY <1>1, <1>2, ConcatProperties
  <2>2. ASSUME NEW k \in 1 .. L - 1
        PROVE  (x \o y)[k] = IF k < n THEN s[k] ELSE s[k + 1]
    <3>1. (x \o y)[k] = IF k <= n - 1 THEN x[k] ELSE y[k - (n - 1)]
      BY <1>0, <1>1, <1>2, <2>1
    <3>2. CASE k < n
      BY <1>0, <1>1, <3>1, <3>2
    <3>0. k \in Nat
      BY <1>0
    <3>3. CASE k >= n
      <4>1. k - (n - 1) \in 1 .. L - n /\ n + (k - (n - 1)) = k + 1
        BY <1>0, <3>3
      <4>2. y[k - (n - 1)] = s[k + 1]
        BY <1>2, <4>1
      <4>3. ~ (k < n) /\ ~ (k <= n - 1)
        BY <1>0, <3>0, <3>3
      <4> QED BY <3>1, <4>2, <4>3
    <3>4. n \in Nat /\ (k < n \/ k >= n)
      BY <1>0, <3>0
    <3> QED BY <3>2, <3>3, <3>4
  <2> QED BY <1>0, <1>1, <1>2, <2>1, <2>2
<1> QED
  BY <1>3 DEF Abs!RemoveAt, Removed, x, y, L

(* The elements of a list are the nodes it is a list of.                   *)
LEMMA ListMember ==
  ASSUME NEW s, NEW M, NEW f, NEW l, NEW nx, NEW pv, ListOK(s, M, f, l, nx, pv), NEW i
  PROVE  i \in Abs!ToSet(s) <=> i \in M
<1>1. DOMAIN s = 1 .. Len(s) /\ \A k \in 1 .. Len(s) : s[k] \in M
  BY DEF ListOK
<1>2. \A x \in M : \E k \in 1 .. Len(s) : s[k] = x
  BY DEF ListOK
<1> QED
  BY <1>1, <1>2 DEF Abs!ToSet

(* Position finds the one place an element of a list stands at.            *)
LEMMA PositionIs ==
  ASSUME NEW s, NEW M, NEW f, NEW l, NEW nx, NEW pv, ListOK(s, M, f, l, nx, pv), NEW i \in M
  PROVE  /\ Abs!Position(s, i) \in 1 .. Len(s) /\ s[Abs!Position(s, i)] = i
<1>1. \E k \in 1 .. Len(s) : s[k] = i
  BY DEF ListOK
<1>2. DOMAIN s = 1 .. Len(s)
  BY DEF ListOK
<1> QED
  BY <1>1, <1>2, Zenon DEF Abs!Position

(* Entering a fresh instruction at place n of block b keeps the pointers   *)
(* representing sequences.                                                 *)
LEMMA EnterRepresents ==
  ASSUME NEW o, NEW c, Represents(o, c), TypeOK',
         NEW i \in Inst, NEW b \in blocks, NEW n \in 1 .. Len(c[b]) + 1,
         NewNode(i, b, At(c[b], n - 1), At(c[b], n)),
         first_inst' = IF n = 1 THEN [first_inst EXCEPT ![b] = i] ELSE first_inst,
         last_inst' = IF n = Len(c[b]) + 1 THEN [last_inst EXCEPT ![b] = i] ELSE last_inst,
         NEW t \in Seq(Inst), Inserted(t, c[b], n, i)
  PROVE  Represents(o, [c EXCEPT ![b] = t])'
<1> DEFINE c2 == [c EXCEPT ![b] = t]
           M(a) == {x \in Inst : block_of[x] = a}
<1>0. /\ b \in Block /\ blocks \subseteq Block /\ block_of[i] = None /\ b # None
      /\ block_of \in [Inst -> OptBlock] /\ DOMAIN next = Inst /\ DOMAIN prev = Inst
      /\ c \in [Block -> Seq(Inst)] /\ i \notin M(b)
      /\ first_inst \in [Block -> OptInst] /\ last_inst \in [Block -> OptInst]
  BY LayoutAssumption DEF Represents, TypeOK, FreshUnlinked, NewNode
<1>1. /\ insts' = insts \cup {i} /\ block_of' = [block_of EXCEPT ![i] = b]
      /\ prev' = SetIfSome([prev EXCEPT ![i] = At(c[b], n - 1)], At(c[b], n), i)
      /\ next' = SetIfSome([next EXCEPT ![i] = At(c[b], n)], At(c[b], n - 1), i)
      /\ UNCHANGED blockVars
  BY DEF NewNode
<1>2. ListOK(c[b], M(b), first_inst[b], last_inst[b], next, prev)
  BY <1>0 DEF Represents
<1>3. ListOK(t, M(b) \cup {i},
             IF n = 1 THEN i ELSE first_inst[b],
             IF n = Len(c[b]) + 1 THEN i ELSE last_inst[b], next', prev')
  BY <1>0, <1>1, <1>2, LayoutAssumption, EnterList, ZenonT(30)
<1>4. /\ M(b)' = M(b) \cup {i}
      /\ \A a \in Block : a # b => M(a)' = M(a)
  <2>1. \A x \in Inst : block_of'[x] = IF x = i THEN b ELSE block_of[x]
    BY <1>0, <1>1
  <2>2. \A a \in Block : a # None
    BY LayoutAssumption
  <2> QED BY <1>0, <2>1, <2>2
<1>5. ListOK(c2[b], M(b)', first_inst'[b], last_inst'[b], next', prev')
  <2>1. c2[b] = t /\ first_inst'[b] = (IF n = 1 THEN i ELSE first_inst[b])
        /\ last_inst'[b] = (IF n = Len(c[b]) + 1 THEN i ELSE last_inst[b])
    BY <1>0
  <2> QED BY <1>3, <1>4, <2>1
<1>6. ASSUME NEW a \in Block, a # b
      PROVE  ListOK(c2[a], M(a)', first_inst'[a], last_inst'[a], next', prev')
  <2>1. ListOK(c[a], M(a), first_inst[a], last_inst[a], next, prev)
    BY DEF Represents
  <2>2. c2[a] = c[a] /\ first_inst'[a] = first_inst[a] /\ last_inst'[a] = last_inst[a]
    BY <1>0, <1>6
  <2>3. M(a)' = M(a)
    BY <1>4, <1>6
  <2>4. \A k \in 0 .. Len(c[b]) + 1 : At(c[b], k) \in M(b) \/ At(c[b], k) = None
    BY <1>2 DEF ListOK, At
  <2>5. /\ At(c[b], n - 1) \in M(b) \/ At(c[b], n - 1) = None
        /\ At(c[b], n) \in M(b) \/ At(c[b], n) = None
    <3>1. Len(c[b]) \in Nat
      BY <1>0
    <3>2. n - 1 \in 0 .. Len(c[b]) + 1 /\ n \in 0 .. Len(c[b]) + 1
      BY <3>1
    <3> QED BY <2>4, <3>2
  <2>6. \A x \in M(a) : next'[x] = next[x] /\ prev'[x] = prev[x]
    <3> TAKE x \in M(a)
    <3>1. x \in Inst /\ x # i /\ x # At(c[b], n - 1) /\ x # At(c[b], n)
      BY <1>0, <1>6, <2>5, LayoutAssumption
    <3> QED BY <1>0, <1>1, <3>1 DEF SetIfSome
  <2>7. \A k \in 1 .. Len(c[a]) : c[a][k] \in M(a)
    BY <2>1 DEF ListOK
  <2>8. \A k \in 1 .. Len(c[a]) : next'[c[a][k]] = At(c[a], k + 1) /\ prev'[c[a][k]] = At(c[a], k - 1)
    BY <2>1, <2>6, <2>7 DEF ListOK
  <2>9. ListOK(c[a], M(a), first_inst[a], last_inst[a], next', prev')
    <3> HIDE DEF M
    <3> QED BY <2>1, <2>8 DEF ListOK
  <2> HIDE DEF M, c2
  <2> QED BY <2>2, <2>3, <2>9
<1>7. /\ ListOK(o, blocks, first_block, last_block, next_block, prev_block)'
      /\ \A a \in Block \ blocks' : next_block'[a] = None
  BY <1>1 DEF Represents, blockVars, ListOK
<1>8. FreshUnlinked'
  BY <1>0, <1>1 DEF Represents, FreshUnlinked, blockVars
<1>9. c2 \in [Block -> Seq(Inst)]
  BY <1>0
<1> QED
  BY <1>5, <1>6, <1>7, <1>8, <1>9 DEF Represents

(* Unlinking the instruction at place n of block b does, too.              *)
LEMMA RemoveRepresents ==
  ASSUME NEW o, NEW c, Represents(o, c), TypeOK', NEW i \in Inst, RemoveInst(i),
         NEW b, b = block_of[i], NEW n \in 1 .. Len(c[b]), c[b][n] = i,
         NEW t \in Seq(Inst), Removed(t, c[b], n)
  PROVE  Represents(o, [c EXCEPT ![b] = t])'
<1> DEFINE c2 == [c EXCEPT ![b] = t]
           M(a) == {x \in Inst : block_of[x] = a}
<1>0. /\ b \in Block /\ b # None /\ blocks \subseteq Block /\ i \in M(b)
      /\ block_of \in [Inst -> OptBlock] /\ DOMAIN next = Inst /\ DOMAIN prev = Inst
      /\ c \in [Block -> Seq(Inst)]
      /\ first_inst \in [Block -> OptInst] /\ last_inst \in [Block -> OptInst]
  BY LayoutAssumption DEF Represents, TypeOK, OptBlock, RemoveInst
<1>1. /\ insts' = insts /\ block_of' = [block_of EXCEPT ![i] = None]
      /\ prev' = SetIfSome([prev EXCEPT ![i] = None], next[i], prev[i])
      /\ next' = SetIfSome([next EXCEPT ![i] = None], prev[i], next[i])
      /\ first_inst' = IF prev[i] = None THEN [first_inst EXCEPT ![b] = next[i]] ELSE first_inst
      /\ last_inst' = IF next[i] = None THEN [last_inst EXCEPT ![b] = prev[i]] ELSE last_inst
      /\ UNCHANGED blockVars
  BY DEF RemoveInst
<1>2. ListOK(c[b], M(b), first_inst[b], last_inst[b], next, prev)
  BY <1>0 DEF Represents
<1>3. ListOK(t, M(b) \ {i},
             IF prev[i] = None THEN next[i] ELSE first_inst[b],
             IF next[i] = None THEN prev[i] ELSE last_inst[b], next', prev')
  <2>1. M(b) \in SUBSET Inst /\ None \notin Inst /\ i = c[b][n]
    BY LayoutAssumption
  <2> DEFINE m == M(b)
             s == c[b]
             f == first_inst[b]
             l == last_inst[b]
  <2>2. m \in SUBSET Inst /\ ListOK(s, m, f, l, next, prev)
    BY <1>2, <2>1
  <2>3. n \in 1 .. Len(s) /\ Removed(t, s, n) /\ i = s[n] /\ t \in Seq(Inst)
    BY <2>1
  <2> HIDE DEF m, s, f, l
  <2>4. ListOK(t, m \ {i}, EndWithout(f, prev[i], next[i]), EndWithout(l, next[i], prev[i]),
               Unlink(next, i, prev[i], next[i]), Unlink(prev, i, next[i], prev[i]))
    BY <1>0, <2>1, <2>2, <2>3, RemoveList
  <2> QED BY <1>1, <2>4 DEF m, f, l, Unlink, EndWithout
<1>4. /\ M(b)' = M(b) \ {i}
      /\ \A a \in Block : a # b => M(a)' = M(a)
  <2>1. \A x \in Inst : block_of'[x] = IF x = i THEN None ELSE block_of[x]
    BY <1>0, <1>1
  <2>2. \A a \in Block : a # None
    BY LayoutAssumption
  <2> QED BY <1>0, <2>1, <2>2
<1>5. ListOK(c2[b], M(b)', first_inst'[b], last_inst'[b], next', prev')
  <2>1. /\ c2[b] = t
        /\ first_inst'[b] = (IF prev[i] = None THEN next[i] ELSE first_inst[b])
        /\ last_inst'[b] = (IF next[i] = None THEN prev[i] ELSE last_inst[b])
    BY <1>0, <1>1
  <2> HIDE DEF M, c2
  <2> QED BY <1>3, <1>4, <2>1
<1>6. ASSUME NEW a \in Block, a # b
      PROVE  ListOK(c2[a], M(a)', first_inst'[a], last_inst'[a], next', prev')
  <2>1. ListOK(c[a], M(a), first_inst[a], last_inst[a], next, prev)
    BY DEF Represents
  <2>2. c2[a] = c[a] /\ first_inst'[a] = first_inst[a] /\ last_inst'[a] = last_inst[a]
    BY <1>0, <1>1, <1>6
  <2>3. M(a)' = M(a)
    BY <1>4, <1>6
  <2>4. /\ prev[i] \in M(b) \/ prev[i] = None
        /\ next[i] \in M(b) \/ next[i] = None
    <3>1. /\ prev[i] = At(c[b], n - 1) /\ next[i] = At(c[b], n + 1)
          /\ \A k \in 1 .. Len(c[b]) : c[b][k] \in M(b)
      <4> HIDE DEF M
      <4>1. c[b] \in Seq(M(b))
        BY <1>2 DEF ListOK
      <4>2. \A k \in 1 .. Len(c[b]) : c[b][k] \in M(b)
        BY <4>1
      <4>3. next[c[b][n]] = At(c[b], n + 1) /\ prev[c[b][n]] = At(c[b], n - 1)
        BY <1>2 DEF ListOK
      <4> QED BY <4>2, <4>3
    <3> HIDE DEF M
    <3> QED BY <3>1 DEF At
  <2>5. \A x \in M(a) : next'[x] = next[x] /\ prev'[x] = prev[x]
    <3> TAKE x \in M(a)
    <3>1. x \in Inst /\ x # i /\ x # prev[i] /\ x # next[i]
      BY <1>0, <1>6, <2>4, LayoutAssumption
    <3> QED BY <1>0, <1>1, <3>1 DEF SetIfSome
  <2>6. \A k \in 1 .. Len(c[a]) : c[a][k] \in M(a)
    BY <2>1 DEF ListOK
  <2>7. \A k \in 1 .. Len(c[a]) : next'[c[a][k]] = At(c[a], k + 1) /\ prev'[c[a][k]] = At(c[a], k - 1)
    BY <2>1, <2>5, <2>6 DEF ListOK
  <2>8. ListOK(c[a], M(a), first_inst[a], last_inst[a], next', prev')
    <3> HIDE DEF M
    <3> QED BY <2>1, <2>7 DEF ListOK
  <2> HIDE DEF M, c2
  <2> QED BY <2>2, <2>3, <2>8
<1>7. /\ ListOK(o, blocks, first_block, last_block, next_block, prev_block)'
      /\ \A a \in Block \ blocks' : next_block'[a] = None
  BY <1>1 DEF Represents, blockVars, ListOK
<1>8. FreshUnlinked'
  BY <1>0, <1>1 DEF Represents, FreshUnlinked, blockVars
<1>9. c2 \in [Block -> Seq(Inst)]
  BY <1>0
<1> QED
  BY <1>5, <1>6, <1>7, <1>8, <1>9 DEF Represents

(* A block appended stands behind all others.                              *)
LEMMA AppendBlockRepresents ==
  ASSUME NEW o, NEW c, Represents(o, c), TypeOK', NEW b \in Block, AppendBlock(b)
  PROVE  Represents(Append(o, b), c)'
<1> DEFINE n == Len(o) + 1
           t == Append(o, b)
<1>0. /\ blocks \subseteq Block /\ b \in Block \ blocks /\ None \notin Block
      /\ next_block \in [Block -> OptBlock] /\ prev_block \in [Block -> OptBlock]
      /\ next_block[b] = None
      /\ ListOK(o, blocks, first_block, last_block, next_block, prev_block)
  BY LayoutAssumption DEF Represents, TypeOK, AppendBlock
<1>1. o \in Seq(blocks) /\ Len(o) \in Nat /\ n \in 1 .. Len(o) + 1
  BY <1>0 DEF ListOK
<1>2. /\ At(o, n) = None /\ At(o, n - 1) = last_block
      /\ (first_block = None) <=> (n = 1)
  <2>1. first_block = At(o, 1) /\ last_block = At(o, Len(o))
    BY <1>0 DEF ListOK
  <2>2. \A k \in 1 .. Len(o) : o[k] # None
    BY <1>0, <1>1
  <2>3. n \in Nat /\ n - 1 = Len(o) /\ n > Len(o) /\ (n = 1 <=> Len(o) = 0)
    BY <1>1
  <2> HIDE DEF n
  <2>4. 1 \in 1 .. Len(o) <=> n # 1
    BY <1>1, <2>3
  <2> QED BY <1>1, <2>1, <2>2, <2>3, <2>4 DEF At
<1>3. t \in Seq(Block) /\ Inserted(t, o, n, b)
  <2>1. o \in Seq(Block)
    BY <1>0, <1>1
  <2>2. /\ t \in Seq(Block) /\ Len(t) = Len(o) + 1
        /\ \A k \in 1 .. Len(o) + 1 : t[k] = IF k <= Len(o) THEN o[k] ELSE b
    BY <2>1
  <2> HIDE DEF t
  <2> QED BY <1>1, <2>2 DEF Inserted
<1> HIDE DEF t, n
<1>4. /\ next_block' = SetIfSome([next_block EXCEPT ![b] = At(o, n)], At(o, n - 1), b)
      /\ prev_block' = SetIfSome([prev_block EXCEPT ![b] = At(o, n - 1)], At(o, n), b)
  <2>1. [next_block EXCEPT ![b] = None] = next_block
    BY <1>0
  <2> QED BY <1>2, <2>1 DEF AppendBlock, SetIfSome
<1>5. ListOK(t, blocks \cup {b},
             IF n = 1 THEN b ELSE first_block,
             IF n = Len(o) + 1 THEN b ELSE last_block, next_block', prev_block')
  <2>1. DOMAIN next_block = Block /\ DOMAIN prev_block = Block
    BY <1>0
  <2> QED BY <1>0, <1>1, <1>3, <1>4, <2>1, EnterList
<1>6. ListOK(t, blocks', first_block', last_block', next_block', prev_block')
  <2>1. /\ blocks' = blocks \cup {b} /\ last_block' = b
        /\ first_block' = (IF n = 1 THEN b ELSE first_block)
    BY <1>2 DEF AppendBlock
  <2>2. n = Len(o) + 1
    BY DEF n
  <2> QED BY <1>5, <2>1, <2>2
<1>7. \A a \in Block \ blocks' : next_block'[a] = None
  <2> TAKE a \in Block \ blocks'
  <2>1. a \in Block \ blocks /\ a # b
    BY DEF AppendBlock
  <2>2. last_block \in blocks \/ last_block = None
    BY <1>0, <1>1 DEF ListOK, At
  <2>3. next_block[a] = None /\ a # last_block
    BY <2>1, <2>2, <1>0 DEF Represents
  <2> QED BY <1>0, <2>1, <2>3 DEF AppendBlock, SetIfSome
<1>8. FreshUnlinked' /\ c \in [Block -> Seq(Inst)]
  BY DEF Represents, FreshUnlinked, AppendBlock, instVars
<1>9. ASSUME NEW a \in Block
      PROVE  ListOK(c[a], {x \in Inst : block_of[x] = a}, first_inst[a], last_inst[a], next, prev)'
  BY DEF Represents, AppendBlock, instVars
<1> QED
  BY <1>6, <1>7, <1>8, <1>9 DEF Represents, t

(* The invariant of the refinement.                                        *)
Represented == \E o, c : Represents(o, c)

(* The empty layout.                                                       *)
LEMMA InitRepresents == Init => Represented /\ Abs!Init
<1> SUFFICES ASSUME Init PROVE Represented /\ Abs!Init
  OBVIOUS
<1> DEFINE c == [b \in Block |-> <<>>]
<1>1. /\ <<>> \in Seq({}) /\ <<>> \in Seq(Inst) /\ Len(<<>>) = 0
      /\ At(<<>>, 1) = None /\ At(<<>>, 0) = None
  BY DEF At
<1>2. TypeOK /\ FreshUnlinked
  BY LayoutAssumption DEF Init, TypeOK, OptBlock, OptInst, FreshUnlinked
<1>3. ListOK(<<>>, blocks, first_block, last_block, next_block, prev_block)
  BY <1>1 DEF Init, ListOK
<1>4. ASSUME NEW b \in Block
      PROVE  ListOK(c[b], {i \in Inst : block_of[i] = b}, first_inst[b], last_inst[b], next, prev)
  <2>1. {i \in Inst : block_of[i] = b} = {}
    BY LayoutAssumption DEF Init
  <2>2. c[b] = <<>> /\ first_inst[b] = None /\ last_inst[b] = None
    BY DEF Init
  <2> HIDE DEF c
  <2> QED BY <1>1, <2>1, <2>2 DEF ListOK
<1>5. Represents(<<>>, c)
  <2>1. c \in [Block -> Seq(Inst)] /\ \A b \in Block \ blocks : next_block[b] = None
    BY DEF Init
  <2> QED BY <1>2, <1>3, <1>4, <2>1 DEF Represents
<1>6. BlockIter = <<>> /\ [b \in Block |-> InstIter(b)] = c
  BY <1>5, IteratorsYield DEF Iterated
<1> QED
  BY <1>5, <1>6 DEF Represented, Abs!Init, Init

(* A step of the pointers that enters i is a step of the sequences that    *)
(* places i.                                                               *)
LEMMA EnterPlaces ==
  ASSUME NEW o, NEW c, Represents(o, c), TypeOK',
         NEW i \in Inst, NEW b \in blocks, NEW n \in 1 .. Len(c[b]) + 1,
         NewNode(i, b, At(c[b], n - 1), At(c[b], n)),
         first_inst' = IF n = 1 THEN [first_inst EXCEPT ![b] = i] ELSE first_inst,
         last_inst' = IF n = Len(c[b]) + 1 THEN [last_inst EXCEPT ![b] = i] ELSE last_inst,
         NEW t \in Seq(Inst), Inserted(t, c[b], n, i)
  PROVE  Represented' /\ Abs!Place(i, b, t)
<1>1. Represents(o, [c EXCEPT ![b] = t])'
  BY EnterRepresents
<1>2. BlockIter = o /\ [a \in Block |-> InstIter(a)] = c
  BY IteratorsYield DEF Iterated
<1>3. BlockIter' = o /\ [a \in Block |-> InstIter(a)]' = [c EXCEPT ![b] = t]
  BY <1>1, IteratorsYieldNext DEF Iterated
<1>4. b \in Abs!ToSet(o)
  BY ListMember DEF Represents
<1>5. i \notin insts /\ insts' = insts \cup {i}
  BY DEF NewNode
<1> QED
  BY <1>1, <1>2, <1>3, <1>4, <1>5 DEF Represented, Abs!Place

(* The pointers of a block, in the terms of its sequence.                  *)
LEMMA BlockList ==
  ASSUME NEW o, NEW c, Represents(o, c), NEW b \in Block
  PROVE  /\ c[b] \in Seq(Inst) /\ Len(c[b]) \in Nat
         /\ \A k \in 1 .. Len(c[b]) : /\ c[b][k] \in Inst /\ c[b][k] # None
                                      /\ next[c[b][k]] = At(c[b], k + 1)
                                      /\ prev[c[b][k]] = At(c[b], k - 1)
         /\ \A j, k \in 1 .. Len(c[b]) : c[b][j] = c[b][k] => j = k
         /\ first_inst[b] = At(c[b], 1) /\ last_inst[b] = At(c[b], Len(c[b]))
<1>1. c[b] \in Seq(Inst)
  BY DEF Represents
<1>2. ListOK(c[b], {x \in Inst : block_of[x] = b}, first_inst[b], last_inst[b], next, prev)
  BY DEF Represents
<1>3. Len(c[b]) \in Nat /\ \A k \in 1 .. Len(c[b]) : c[b][k] \in Inst /\ c[b][k] # None
  BY <1>1, LayoutAssumption
<1> QED
  BY <1>1, <1>2, <1>3 DEF ListOK

(* Where an instruction stands in the list of its block.                   *)
LEMMA PlaceOf ==
  ASSUME NEW o, NEW c, Represents(o, c), NEW i \in Inst, block_of[i] # None
  PROVE  LET b == block_of[i]
             n == Abs!Position(c[b], i)
         IN  /\ b \in blocks /\ b \in Block
             /\ i \in Abs!ToSet(c[b])
             /\ n \in 1 .. Len(c[b]) /\ c[b][n] = i
<1> DEFINE b == block_of[i]
<1>1. b \in blocks /\ b \in Block
  BY DEF Represents, TypeOK, FreshUnlinked
<1> HIDE DEF b
<1>2. ListOK(c[b], {x \in Inst : block_of[x] = b}, first_inst[b], last_inst[b], next, prev)
  BY <1>1 DEF Represents
<1>3. i \in {x \in Inst : block_of[x] = b}
  BY DEF b
<1> DEFINE M == {x \in Inst : block_of[x] = b}
<1> HIDE DEF M
<1>4. ListOK(c[b], M, first_inst[b], last_inst[b], next, prev) /\ i \in M
  BY <1>2, <1>3 DEF M
<1>5. i \in Abs!ToSet(c[b])
  BY <1>4, ListMember
<1>6. Abs!Position(c[b], i) \in 1 .. Len(c[b]) /\ c[b][Abs!Position(c[b], i)] = i
  BY <1>4, PositionIs
<1> QED
  BY <1>1, <1>5, <1>6 DEF b

(* Every step of the pointers is a step of the sequences, or none.         *)
LEMMA StepImplements ==
  Represented /\ TypeOK' /\ [Next]_vars => Represented' /\ [Abs!Next]_(Abs!vars)
<1> SUFFICES ASSUME NEW o, NEW c, Represents(o, c), TypeOK', [Next]_vars
             PROVE  Represented' /\ [Abs!Next]_(Abs!vars)
  BY DEF Represented
<1>0. BlockIter = o /\ [a \in Block |-> InstIter(a)] = c
  BY IteratorsYield DEF Iterated
<1>t. /\ TypeOK /\ blocks \subseteq Block /\ None \notin Block /\ None \notin Inst
      /\ first_inst \in [Block -> OptInst] /\ last_inst \in [Block -> OptInst]
  BY LayoutAssumption DEF Represents, TypeOK
<1>1. ASSUME NEW b \in Block, AppendBlock(b) PROVE Represented' /\ Abs!Next
  <2>1. Represents(Append(o, b), c)'
    BY <1>1, AppendBlockRepresents
  <2>2. BlockIter' = Append(o, b) /\ [a \in Block |-> InstIter(a)]' = c
    BY <2>1, IteratorsYieldNext DEF Iterated
  <2>3. b \notin Abs!ToSet(o)
    BY <1>1, ListMember DEF Represents, AppendBlock
  <2>4. insts' = insts
    BY <1>1 DEF AppendBlock, instVars
  <2>5. Abs!AppendBlock(b)
    BY <1>0, <2>2, <2>3, <2>4 DEF Abs!AppendBlock
  <2> QED BY <2>1, <2>5 DEF Represented, Abs!Next
<1>2. ASSUME NEW i \in Inst, NEW b \in Block, AppendInst(i, b) PROVE Represented' /\ Abs!Next
  <2> DEFINE s == c[b]
             n == Len(s) + 1
             t == Append(s, i)
  <2>1. /\ s \in Seq(Inst) /\ Len(s) \in Nat
        /\ \A k \in 1 .. Len(s) : s[k] # None
        /\ first_inst[b] = At(s, 1) /\ last_inst[b] = At(s, Len(s))
    BY BlockList
  <2>2. t \in Seq(Inst) /\ Inserted(t, s, n, i)
    <3>1. /\ t \in Seq(Inst) /\ Len(t) = Len(s) + 1
          /\ \A k \in 1 .. Len(s) + 1 : t[k] = IF k <= Len(s) THEN s[k] ELSE i
      BY <2>1
    <3> HIDE DEF t, s
    <3> QED BY <2>1, <3>1 DEF Inserted
  <2>3. /\ n \in 1 .. Len(s) + 1 /\ At(s, n) = None /\ At(s, n - 1) = last_inst[b]
        /\ (first_inst[b] = None) <=> (n = 1)
    BY <2>1 DEF At
  <2>4. /\ b \in blocks /\ NewNode(i, b, At(s, n - 1), At(s, n))
        /\ first_inst' = IF n = 1 THEN [first_inst EXCEPT ![b] = i] ELSE first_inst
        /\ last_inst' = IF n = Len(s) + 1 THEN [last_inst EXCEPT ![b] = i] ELSE last_inst
    BY <1>2, <2>3 DEF AppendInst
  <2> HIDE DEF n
  <2>5. Represented' /\ Abs!Place(i, b, t)
    <3> HIDE DEF t
    <3> QED BY <2>2, <2>3, <2>4, EnterPlaces
  <2>6. Abs!AppendInst(i, b)
    BY <1>0, <2>5 DEF Abs!AppendInst
  <2> QED BY <2>5, <2>6 DEF Abs!Next
<1>3. ASSUME NEW i \in Inst, NEW b \in Block, InsertAtStart(i, b) PROVE Represented' /\ Abs!Next
  <2> DEFINE s == c[b]
             t == <<i>> \o s
  <2>1. /\ s \in Seq(Inst) /\ Len(s) \in Nat
        /\ \A k \in 1 .. Len(s) : s[k] # None
        /\ first_inst[b] = At(s, 1) /\ last_inst[b] = At(s, Len(s))
    BY BlockList
  <2>2. t \in Seq(Inst) /\ Inserted(t, s, 1, i)
    <3> DEFINE z == <<i>>
    <3>1. z \in Seq(Inst) /\ Len(z) = 1 /\ z[1] = i
      OBVIOUS
    <3> HIDE DEF z, s
    <3>2. /\ z \o s \in Seq(Inst) /\ Len(z \o s) = Len(z) + Len(s)
          /\ \A k \in 1 .. Len(z) + Len(s) :
               (z \o s)[k] = IF k <= Len(z) THEN z[k] ELSE s[k - Len(z)]
      BY <2>1, <3>1, ConcatProperties
    <3>3. Inserted(z \o s, s, 1, i)
      BY <2>1, <3>1, <3>2 DEF Inserted
    <3> QED BY <3>2, <3>3 DEF z
  <2>3. /\ 1 \in 1 .. Len(s) + 1 /\ At(s, 1 - 1) = None /\ At(s, 1) = first_inst[b]
        /\ (last_inst[b] = None) <=> (1 = Len(s) + 1)
    BY <2>1 DEF At
  <2>4. /\ b \in blocks /\ NewNode(i, b, At(s, 1 - 1), At(s, 1))
        /\ first_inst' = IF 1 = 1 THEN [first_inst EXCEPT ![b] = i] ELSE first_inst
        /\ last_inst' = IF 1 = Len(s) + 1 THEN [last_inst EXCEPT ![b] = i] ELSE last_inst
    BY <1>3, <2>3 DEF InsertAtStart
  <2>5. Represented' /\ Abs!Place(i, b, t)
    <3> HIDE DEF t
    <3> QED BY <2>2, <2>3, <2>4, EnterPlaces
  <2>6. Abs!InsertAtStart(i, b)
    BY <1>0, <2>5 DEF Abs!InsertAtStart
  <2> QED BY <2>5, <2>6 DEF Abs!Next
<1>4. ASSUME NEW at \in Inst, NEW i \in Inst, InsertBefore(at, i) PROVE Represented' /\ Abs!Next
  <2>0. PICK b : b = block_of[at]
    OBVIOUS
  <2>s. PICK s : s = c[b]
    OBVIOUS
  <2>n. PICK n : n = Abs!Position(s, at)
    OBVIOUS
  <2>t. PICK t : t = Abs!InsertAt(s, n, i)
    OBVIOUS
  <2>1. /\ b \in blocks /\ b \in Block /\ at \in Abs!ToSet(s)
        /\ n \in 1 .. Len(s) /\ s[n] = at
    BY <1>4, <2>0, <2>s, <2>n, PlaceOf DEF InsertBefore
  <2>2. /\ s \in Seq(Inst) /\ Len(s) \in Nat
        /\ prev[s[n]] = At(s, n - 1)
        /\ \A j, k \in 1 .. Len(s) : s[j] = s[k] => j = k
        /\ first_inst[b] = At(s, 1)
    BY <2>1, <2>s, BlockList
  <2>3. /\ n \in 1 .. Len(s) + 1 /\ n # Len(s) + 1 /\ At(s, n) = at /\ At(s, n - 1) = prev[at]
        /\ (first_inst[b] = at) <=> (n = 1)
    BY <2>1, <2>2 DEF At
  <2>4. t \in Seq(Inst) /\ Inserted(t, s, n, i)
    BY <2>2, <2>3, <2>t, InsertAtInserts
  <2>5. /\ NewNode(i, b, At(s, n - 1), At(s, n))
        /\ first_inst' = IF n = 1 THEN [first_inst EXCEPT ![b] = i] ELSE first_inst
        /\ last_inst' = IF n = Len(s) + 1 THEN [last_inst EXCEPT ![b] = i] ELSE last_inst
    BY <1>4, <2>0, <2>3 DEF InsertBefore
  <2>6. Represented' /\ Abs!Place(i, b, t)
    BY <2>1, <2>3, <2>4, <2>5, <2>s, EnterPlaces
  <2>7. Abs!InsertBefore(at, i, b)
    BY <1>0, <2>1, <2>6, <2>s, <2>n, <2>t DEF Abs!InsertBefore
  <2> QED BY <2>1, <2>6, <2>7 DEF Abs!Next
<1>5. ASSUME NEW at \in Inst, NEW i \in Inst, InsertAfter(at, i) PROVE Represented' /\ Abs!Next
  <2>0. PICK b : b = block_of[at]
    OBVIOUS
  <2>s. PICK s : s = c[b]
    OBVIOUS
  <2>n. PICK n : n = Abs!Position(s, at)
    OBVIOUS
  <2>m. PICK m : m = n + 1
    OBVIOUS
  <2>t. PICK t : t = Abs!InsertAt(s, m, i)
    OBVIOUS
  <2>1. /\ b \in blocks /\ b \in Block /\ at \in Abs!ToSet(s)
        /\ n \in 1 .. Len(s) /\ s[n] = at
    BY <1>5, <2>0, <2>s, <2>n, PlaceOf DEF InsertAfter
  <2>2. s \in Seq(Inst) /\ Len(s) \in Nat /\ next[s[n]] = At(s, n + 1)
    BY <2>1, <2>s, BlockList
  <2>3. /\ m \in 1 .. Len(s) + 1 /\ m # 1 /\ m # Len(s) + 1
        /\ At(s, m - 1) = at /\ At(s, m) = next[at]
    <3>1. next[at] # None
      BY <1>5 DEF InsertAfter
    <3> QED BY <2>1, <2>2, <2>m, <3>1 DEF At
  <2>4. t \in Seq(Inst) /\ Inserted(t, s, m, i)
    BY <2>2, <2>3, <2>t, InsertAtInserts
  <2>5. /\ NewNode(i, b, At(s, m - 1), At(s, m))
        /\ first_inst' = IF m = 1 THEN [first_inst EXCEPT ![b] = i] ELSE first_inst
        /\ last_inst' = IF m = Len(s) + 1 THEN [last_inst EXCEPT ![b] = i] ELSE last_inst
    BY <1>5, <2>0, <2>3 DEF InsertAfter
  <2>6. Represented' /\ Abs!Place(i, b, t)
    BY <2>1, <2>3, <2>4, <2>5, <2>s, EnterPlaces
  <2>7. Abs!InsertAfter(at, i, b)
    BY <1>0, <2>1, <2>6, <2>s, <2>n, <2>m, <2>t DEF Abs!InsertAfter
  <2> QED BY <2>1, <2>6, <2>7 DEF Abs!Next
<1>6. ASSUME NEW i \in Inst, RemoveInst(i) PROVE Represented' /\ Abs!Next
  <2>0. PICK b : b = block_of[i]
    OBVIOUS
  <2>s. PICK s : s = c[b]
    OBVIOUS
  <2>n. PICK n : n = Abs!Position(s, i)
    OBVIOUS
  <2>t. PICK t : t = Abs!RemoveAt(s, n)
    OBVIOUS
  <2>1. /\ b \in blocks /\ b \in Block /\ i \in Abs!ToSet(s)
        /\ n \in 1 .. Len(s) /\ s[n] = i
    BY <1>6, <2>0, <2>s, <2>n, PlaceOf DEF RemoveInst
  <2>2. t \in Seq(Inst) /\ Removed(t, s, n)
    <3>1. s \in Seq(Inst)
      BY <2>1, <2>s DEF Represents
    <3> QED BY <2>1, <2>t, <3>1, RemoveAtRemoves
  <2>3. Represents(o, [c EXCEPT ![b] = t])'
    BY <1>6, <2>0, <2>s, <2>1, <2>2, RemoveRepresents
  <2>4. BlockIter' = o /\ [x \in Block |-> InstIter(x)]' = [c EXCEPT ![b] = t]
    BY <2>3, IteratorsYieldNext DEF Iterated
  <2>5. insts' = insts
    BY <1>6 DEF RemoveInst
  <2>6. Abs!RemoveInst(i, b)
    BY <1>0, <2>1, <2>4, <2>5, <2>s, <2>n, <2>t DEF Abs!RemoveInst
  <2>7. Represented'
    BY <2>3 DEF Represented
  <2> QED BY <2>1, <2>6, <2>7 DEF Abs!Next
<1>7. CASE UNCHANGED vars
  <2>0. /\ blocks' = blocks /\ first_block' = first_block /\ last_block' = last_block
        /\ next_block' = next_block /\ prev_block' = prev_block
        /\ first_inst' = first_inst /\ last_inst' = last_inst /\ insts' = insts
        /\ block_of' = block_of /\ prev' = prev /\ next' = next
    BY <1>7 DEF vars, blockVars, instVars
  <2>1. Represents(o, c)'
    BY <2>0 DEF Represents, FreshUnlinked
  <2>2. BlockIter' = o /\ [x \in Block |-> InstIter(x)]' = c
    BY <2>1, IteratorsYieldNext DEF Iterated
  <2> QED BY <1>0, <1>7, <2>1, <2>2 DEF Represented, Abs!vars, vars, instVars
<1> QED
  BY <1>1, <1>2, <1>3, <1>4, <1>5, <1>6, <1>7 DEF Next

(***************************************************************************)
(* What block_iter and inst_iter show of the layout changes as if it kept  *)
(* plain sequences: append_block and append_inst add at an end,            *)
(* insert_inst_before and insert_inst_after put a fresh instruction next   *)
(* to its anchor, remove_inst takes one out, and no operation drops,       *)
(* repeats or reorders anything else.                                      *)
(***************************************************************************)
THEOREM LayoutImplementsLayoutSeq == Spec => ImplementsLayoutSeq
<1>1. Init => Represented /\ Abs!Init
  BY InitRepresents
<1>2. Represented => TypeOK
  BY DEF Represented, Represents
<1>3. TypeOK /\ [Next]_vars => TypeOK'
  BY TypeStep
<1>4. Represented /\ [Next]_vars => Represented' /\ [Abs!Next]_(Abs!vars)
  BY <1>2, <1>3, StepImplements
<1> QED
  BY <1>1, <1>4, PTL DEF Spec, ImplementsLayoutSeq, Abs!Spec
=============================================================================
