----------------------------- MODULE MCBindings -----------------------------
(* Small functions for Bindings: a and b are numbers, h is a hash, s and t *)
(* are strings, m is a struct.                                             *)
EXTENDS Bindings

MCTypeOf == [a |-> "int", b |-> "int", h |-> "addr", s |-> "ref", t |-> "ref", m |-> "mem"]

Fun(ps, rs, b) == [params |-> ps, returns |-> rs, body |-> b]
Block(b)   == <<Mark("block")>> \o b \o <<Mark("end")>>
If(b)      == <<Mark("if")>> \o b \o <<Mark("end")>>
IfElse(b, c) == <<Mark("if")>> \o b \o <<Mark("else")>> \o c \o <<Mark("end")>>
While(b)   == <<Mark("while")>> \o b \o <<Mark("end")>>
Wraps(b, c) == {Block(b), If(b), IfElse(b, c), While(b)}

\* Scopes: two names, declared, assigned and used in and behind blocks.
Simple == {<<Decl("a", Lit)>>, <<Decl("a", NoInit)>>, <<Decl("a", Var("a"))>>, <<Decl("b", Var("a"))>>,
           <<Set("a", Lit)>>, <<Set("b", Var("a"))>>, <<Use("a")>>, <<Use("b")>>,
           <<Destr(<<New("a"), New("b")>>, <<<<Lit, Lit>>>>)>>,
           <<Destr(<<New("a"), Skip>>, <<<<Lit>>>>)>>,
           <<Destr(<<New("a"), New("a")>>, <<<<Lit, Lit>>>>)>>,
           <<Destr(<<Skip, New("b")>>, <<<<Lit, Var("a")>>>>)>>}
Scoped == {p \o w \o q : p \in Simple \union {<<>>},
                         w \in UNION {Wraps(b, c) : b \in Simple, c \in {<<Use("a")>>, <<Decl("b", Lit)>>}},
                         q \in {<<Use("a")>>, <<Use("b")>>, <<Decl("a", Lit), Use("a")>>}}
MCScopes ==
    {Fun(ps, rs, b) : ps \in {<<>>, <<"a">>}, rs \in {<<>>}, b \in Scoped}
    \union {Fun(ps, rs, <<Set("a", Lit), r>>) : ps \in {<<"a">>, <<"b">>, <<"a", "a">>},
                        rs \in {<<"a">>, <<"">>, <<"b">>},
                        r \in {Ret(<<Var("a")>>), Ret(<<Lit, Lit>>)}}
    \union {Fun(ps, rs, <<Set("a", Lit), Use("a")>>) : ps \in {<<"a">>, <<"b">>, <<"a", "a">>},
                        rs \in {<<"a">>, <<"b">>}}

\* Places: variables of every type.  References are assigned on straight paths,
\* words anywhere; in the second set the return value has a name.
Start    == <<Decl("a", Lit), Decl("h", NoInit), Decl("s", NoInit), Decl("t", Var("s")), Decl("m", NoInit),
              Set("m", Lit)>>
Straight == {<<>>, <<Set("s", Lit)>>, <<Set("s", Lit), Set("t", Var("s"))>>,
             <<Set("t", Lit), Destr(<<Old("s"), Old("t")>>, <<<<Var("t"), Var("s")>>>>)>>}
Flows    == {<<Set("a", Lit)>>, <<Set("a", Var("b")), Set("b", Lit)>>, <<Set("h", Lit)>>,
             <<Use("a"), Set("a", Lit)>>, <<Use("s"), Use("m")>>,
             <<Destr(<<Skip, Skip>>, <<<<Lit, Var("a")>>, <<Var("b"), Lit>>>>)>>}
Locals   == {<<Decl("b", NoInit), Use("b"), Set("b", Var("a"))>>,
             <<Decl("t", Lit), Use("t"), Set("t", Var("s")), Use("t")>>,
             <<Destr(<<New("b"), New("h")>>, <<<<Var("a"), Lit>>>>), Set("a", Lit), Use("b"), Use("h")>>}
MCPlaces ==
    {Fun(<<"b">>, <<"">>, Start \o x \o w \o y \o <<Use("a"), Use("h"), Use("t"), Ret(<<Var("s")>>)>>) :
        x \in Straight, y \in Straight, w \in UNION {Wraps(f, <<Set("a", Lit), Set("h", Lit)>>) : f \in Flows}}
    \union {Fun(<<"s">>, <<"a">>, w \o v \o r) :
        w \in UNION {Wraps(f, <<Set("a", Lit)>>) : f \in Locals},
        v \in {While(f) : f \in Locals},
        r \in {<<>>, <<Ret(<<Var("a")>>)>>}}
    \union {Fun(<<"a", "s">>, <<"t", "m">>, <<Ret(<<Var("s"), Lit>>)>>), Fun(<<"a">>, <<>>, <<>>),
            Fun(<<"a">>, <<>>, <<Use("a"), Ret(<<>>)>>)}

MCSources == MCScopes \union MCPlaces
=============================================================================
