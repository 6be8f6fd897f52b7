------------------------------ MODULE MCImports ------------------------------
EXTENDS Imports

A == <<"r", "a">>
B == <<"r", "b">>
D == <<"r", "d", "c">>

Imp(spec, as) == [spec |-> spec, as |-> as]
Use(kind, path) == [kind |-> kind, path |-> path]
Con(name, body) == [name |-> name, structs |-> <<[name |-> "S", field |-> <<>>]>>, vars |-> <<>>,
                    fns |-> <<"f">>, body |-> body]
OfType(c, path) == [c EXCEPT !.vars = <<path>>]
WithField(c, path) == [c EXCEPT !.structs = Append(@, [name |-> "T", field |-> path])]
Src(imports, contracts_) == [imports |-> imports, contracts |-> contracts_]
Job(a, b, c) == [fs |-> (A :> a) @@ (B :> b) @@ (D :> c), top |-> A, dirs |-> <<<<"r">>, <<"r", "d">>>>]

\* Uses of what another file may have, seen from a contract P.
Contracts(name) ==
    {Con(name, <<>>), Con(name, <<Use("field", <<"S">>)>>), Con(name, <<Use("field", <<"M", "R", "S">>)>>),
     Con(name, <<Use("call", <<"R", "f">>)>>), OfType(Con(name, <<>>), <<"R", "S">>),
     WithField(Con(name, <<>>), <<"M", "Q", "S">>)}

\* The file in the directory is found by its place, from the directory above, or
\* on the import path.
ToB(as) == {Imp(<<".", "b">>, as)}
ToD(as) == {Imp(<<"d", "c">>, as), Imp(<<"c">>, as)}
Names == {Plain, "M"}

Lists(S) == {<<>>} \union {<<x>> : x \in S} \union {<<x, y>> : x, y \in S}

\* a imports b, the other file, or both; one of these the other, or none.
FromA == {l \in Lists(UNION {ToB(as) \union ToD(as) : as \in Names}) : Len(l) < 2 \/ l[1].spec # l[2].spec}
FromB == {<<>>, <<Imp(<<"d", "c">>, Plain)>>, <<Imp(<<"c">>, "M")>>}
FromD == {<<>>, <<Imp(<<"..", "b">>, Plain)>>, <<Imp(<<"b">>, "M")>>, <<Imp(<<"e">>, Plain)>>}

MCTrees ==
    {Job(Src(ia, <<pa>>), Src(ib, <<Con(nb, <<>>)>>), Src(<<>>, <<Con("R", <<>>), Con("V", <<>>)>>)) :
        ia \in FromA, pa \in Contracts("P"), ib \in FromB, nb \in {"Q", "R"}}
    \union
    {Job(Src(ia, <<Con("P", <<>>)>>), Src(<<>>, <<Con("Q", <<>>)>>), Src(id, <<pd>>)) :
        ia \in FromA, id \in FromD, pd \in Contracts("V")}
\* Files that import each other, in a circle of two or three, without a use
\* across the circle.
MCCircles ==
    {Job(Src(<<ia>>, <<Con("P", <<>>), Con("U", <<>>)>>), Src(ib, <<Con("Q", <<>>)>>), Src(id, <<Con("R", <<>>)>>)) :
        ia \in ToB(Plain) \union ToB("M") \union ToD(Plain),
        ib \in {<<Imp(<<"a">>, as)>> : as \in {Plain, "N"}}
               \union {<<i, Imp(<<"a">>, Plain)>> : i \in ToD(Plain)},
        id \in {<<Imp(<<"..", "a">>, Plain)>>, <<Imp(<<"c">>, "N")>>, <<Imp(<<"b">>, Plain)>>}}
MCInputs == MCTrees \union MCCircles
==============================================================================
