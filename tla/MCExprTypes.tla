---------------------------- MODULE MCExprTypes ----------------------------
(***************************************************************************)
(* Every operator over variables of every type and place, and operators    *)
(* nested two deep.                                                        *)
(***************************************************************************)
EXTENDS Integers, Sequences, OlaTypes

V(name) == <<"var", name>>
Var(place, ty) == [place |-> place, ty |-> ty]

MCEnv == [x |-> Var("local", U32), f |-> Var("local", Field), b |-> Var("local", Bool),
          a |-> Var("local", Address), h |-> Var("local", Hash), s |-> Var("local", Str),
          d |-> Var("local", Bytes), e |-> Var("local", Enum), o |-> Var("local", Contract),
          st |-> Var("local", Struct), arr |-> Var("local", Array(U32, <<2>>)),
          dyn |-> Var("local", Array(U32, <<0>>)),
          gx |-> Var("storage", U32), gf |-> Var("storage", Field), gb |-> Var("storage", Bool),
          ga |-> Var("storage", Address), gst |-> Var("storage", Struct),
          gdyn |-> Var("storage", Array(U32, <<0>>)), gd |-> Var("storage", Bytes),
          gm |-> Var("storage", Mapping(Address, U32)),
          k |-> Var("constant", U32)]

MCFields == <<<<"n", U32>>, <<"p", Field>>, <<"q", Address>>>>

Member(n, f)  == <<"member", V(n), f>>
Num(n)        == <<"num", n>>

\* Operands of two-place operators, and those of operators with one operand.
Operands == {V(n) : n \in {"x", "f", "b", "a", "s", "e", "gx", "gf", "ga"}}
            \cup {Num(3), Num(33), Member("st", "n"), Member("st", "p"), Member("gst", "n")}
Leaves   == {V(n) : n \in DOMAIN MCEnv \ {"k"}} \cup Operands
            \cup {Num(0), Num(32), <<"bool">>, <<"addr">>, <<"hash">>, <<"str">>, <<"fields">>,
                  <<"enum">>, <<"index", V("arr"), V("x")>>, <<"index", V("gm"), V("a")>>}
Small    == {V("x"), V("gx"), V("f"), V("b"), V("a"), Num(3)}

Ops2 == {"add", "sub", "mul", "div", "mod", "pow", "bitor", "bitand", "bitxor", "shl", "shr",
         "more", "less", "moreeq", "lesseq", "eq", "ne", "or", "and"}

Types == {U32, Field, Bool, Address, Hash, Str, Bytes, Enum, Contract, Struct,
          Array(U32, <<2>>), Array(U32, <<0>>)}
Decl(t) == <<"decl", t>>
At   == {Decl(U32), Decl(Field), Decl(Bool), <<"stmt">>, <<"encode">>}
AtAll == At \cup {Decl(Address), Decl(Bytes), Decl(Array(U32, <<0>>))}

\* Left out is what has no code or the wrong one: an operator on two
\* addresses, a shift or complement of what must be loaded first, a product
\* whose type is not known, fields taken for a field, an element of fields in
\* storage.
Addresses == {V("a"), V("ga")}
Plain     == {V("x"), V("b"), V("a"), V("s"), Num(3), Num(33)}
Strings   == {V("d"), V("gd"), <<"fields">>}
Both(op, l, r) == op \in {"eq", "ne", "more", "less", "moreeq", "lesseq"}
                  \/ ~({l, r} \subseteq Addresses)

Two     == {<<op, l, r>> \in (Ops2 \ {"shl", "shr", "mul", "pow"}) \X Operands \X Operands :
               Both(op, l, r)}
Wide    == {<<op, l, r>> \in {"mul", "pow"} \X Operands \X Operands : Both(op, l, r)}
Shifts  == ({"shl"} \X Operands \X Plain) \cup ({"shr"} \X Plain \X Plain)
           \cup {<<"bitnot", l>> : l \in Plain \cup {V("f")}}
One  == {<<"not", l>> : l \in Leaves}
        \cup {<<"to", t, l>> : t \in Types \ {Field}, l \in Leaves}
        \cup {<<"to", Field, l>> : l \in Leaves \ Strings}
        \cup {<<"new", t, l>> : t \in Types, l \in {V("x"), V("gx"), V("f"), Num(3)}}
        \cup {<<"member", l, n>> : l \in Leaves, n \in {"length", "n", "q"}}
        \cup {<<"slice", l, V("x"), r>> : l \in Leaves, r \in {V("gx"), V("b"), Num(3)}}
Inner == {<<q, l, m>> \in {"add", "sub", "shl"} \X Small \X Small :
             (q = "shl" => m \in Plain) /\ Both(q, l, m)}
Deep  == {"add", "mul", "less", "eq"} \X Inner \X Small
Places == {<<"index", l, r>> : l \in Leaves \ {V("gd")}, r \in Small}
          \cup {<<"cond", c, l, r>> : c \in {V("b"), V("gb"), V("x")},
                                      l \in Leaves, r \in {V("x"), V("s"), V("gd"), Num(3)}}
Row(l, r)  == <<"arr", <<l, r>>>>
Literals == {Row(l, r) : l \in Leaves, r \in Small}
            \cup {Row(Row(V("x"), Num(3)), r) :
                     r \in {Row(Num(0), V("gx")), <<"arr", <<V("x")>>>>, V("x")}}
            \cup {<<"arr", <<Row(V("x"), Num(1)), Row(Num(2), Num(3)), Row(Num(4), Num(5))>>>>,
                  <<"arr", <<Row(Row(Num(1), Num(2)), Row(Num(3), Num(4))),
                             Row(Row(Num(5), Num(6)), Row(Num(7), V("x")))>>>>}
Stmts == {<<op, l>> : op \in {"incr", "decr"}, l \in Leaves}
         \cup {<<"assign", l, r>> : l \in Leaves, r \in Leaves \ Strings}
         \cup {<<"assignop", op, l, r>> : op \in {"add", "mul", "sub"}, l \in Operands, r \in Small}
         \cup {<<"assignop", op, V(l), r>> : op \in {"div", "bitand", "shl"},
                                             l \in {"x", "f", "gx", "gf", "a"}, r \in Plain}

In(E, A) == {[e |-> e, at |-> at, const |-> FALSE] : e \in E, at \in A}
MCInputs == In(Two \cup Shifts, At) \cup In(Wide, At \ {<<"encode">>})
            \cup In(One \cup (Leaves \ Strings), AtAll \ {Decl(Field)})
            \cup In(Deep, {Decl(U32)})
            \cup In(Places, {Decl(U32), Decl(Address), <<"encode">>})
            \cup In(Literals, {Decl(Array(U32, <<2>>)), Decl(Array(U32, <<2, 2>>)),
                               Decl(Array(U32, <<2, 3>>)), Decl(Array(U32, <<0>>))})
            \cup In(Stmts, {<<"stmt">>})
            \cup {[e |-> e, at |-> Decl(U32), const |-> TRUE] : e \in Deep \cup Stmts}
=============================================================================
