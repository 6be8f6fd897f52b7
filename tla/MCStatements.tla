---------------------------- MODULE MCStatements ----------------------------
(***************************************************************************)
(* Functions of two levels of compound statements: every loop or `if'      *)
(* around a body that starts with another loop or `if'.                    *)
(***************************************************************************)
EXTENDS Statements

Jumps == {Break, Continue, Return(TRUE)}

Small  == {<<>>, <<Use>>} \cup {<<j>> : j \in Jumps}
Loops(B) == {While(b) : b \in B}
            \cup {For(c, h, b) : c \in BOOLEAN, h \in BOOLEAN, b \in B}
Ifs(B)   == {If(b, e) : b \in B \ {<<>>}, e \in Small}
Dos(B)   == {DoWhile(b) : b \in B}

Inner  == Loops(Small) \cup Ifs(Small)
Bodies(C) == {<<c>> : c \in C} \cup {<<c, x>> : c \in C, x \in {Use} \cup Jumps}

\* A continue of an endless loop with a loop expression whose body does not
\* reach its end: the block it jumps to is never filled.
RECURSIVE Jumps1(_, _)
Jumps1(b, k) ==
    \E i \in 1..Len(b) :
       \/ b[i].k = k
       \/ b[i].k = "if" /\ (Jumps1(b[i].then, k) \/ Jumps1(b[i].else, k))

RECURSIVE EmptyNext(_)
EmptyNext(b) ==
    \E i \in 1..Len(b) :
       \/ /\ b[i].k = "for"
          /\ ~b[i].cond /\ b[i].next
          /\ Jumps1(b[i].body, "continue")
          /\ ~resolve_block(b[i].body, new_scope(<<>>), "anon").reach
       \/ b[i].k \in {"while", "for", "do"} /\ EmptyNext(b[i].body)
       \/ b[i].k = "if" /\ (EmptyNext(b[i].then) \/ EmptyNext(b[i].else))

RECURSIVE HasDo(_)
HasDo(b) == \E i \in 1..Len(b) :
               \/ b[i].k = "do"
               \/ b[i].k \in {"while", "for"} /\ HasDo(b[i].body)
               \/ b[i].k = "if" /\ (HasDo(b[i].then) \/ HasDo(b[i].else))

\* A break or continue that comes, in its loop, behind a do-while
Leaves(b) == Jumps1(b, "break") \/ Jumps1(b, "continue")

RECURSIVE AfterDo(_)
AfterDo(b) ==
    \/ \E i, j \in 1..Len(b) : i < j /\ HasDo(<<b[i]>>) /\ Leaves(<<b[j]>>)
    \/ \E i \in 1..Len(b) :
         \/ b[i].k \in {"while", "for", "do"} /\ AfterDo(b[i].body)
         \/ /\ b[i].k = "if"
            /\ \/ AfterDo(b[i].then) \/ AfterDo(b[i].else)
               \/ HasDo(b[i].then) /\ Leaves(b[i].else)

Fun(kind, b) == [kind |-> kind, body |-> b]

Nested ==
    {<<c>> : c \in Loops(Bodies(Inner)) \cup Dos(Bodies(Inner))}
    \cup {<<c, Use>> : c \in {While(b) : b \in Bodies(Inner \cup Dos(Small))}
                        \cup Loops({<<c>> : c \in Dos(Small)})
                        \cup {If(b, e) : b \in Bodies(Inner), e \in {<<>>, <<Return(TRUE)>>}}}
    \cup Bodies(Ifs({<<c>> : c \in Inner \cup Dos(Small)}))

MCFunctions ==
    {Fun(k, b) : k \in {"named", "anon"},
                 b \in {b \in Nested : ~EmptyNext(b) /\ ~AfterDo(b)}}
    \cup {Fun("void", <<c, Return(FALSE)>>) : c \in Inner}

\* while (c) { do { } while (d); break; }
AfterDoFunctions == {Fun("void", <<While(<<DoWhile(<<Use>>), Break>>), Use>>)}
=============================================================================
