------------------------------ MODULE MCCalls ------------------------------
(***************************************************************************)
(* Calls of one, two or three functions of a name, with arguments of every *)
(* sort, and the built-in functions, methods and struct literals.          *)
(***************************************************************************)
EXTENDS Integers, Sequences, OlaTypes

U32s   == Array(U32, <<0>>)
NoOpts == [kind |-> "none", args |-> <<>>]

Local(ty)  == [place |-> "local", ty |-> ty]
Stored(ty) == [place |-> "storage", ty |-> ty]

MCEnv == [x |-> Local(U32), f |-> Local(Field), b |-> Local(Bool), a |-> Local(Address),
          h |-> Local(Hash), s |-> Local(Str), d |-> Local(Bytes), o |-> Local(Contract),
          st |-> Local(Struct), arr |-> Local(Array(U32, <<2>>)), dyn |-> Local(U32s),
          gx |-> Stored(U32), ga |-> Stored(Address), go |-> Stored(Contract),
          gdyn |-> Stored(U32s), gdd |-> Stored(Array(U32, <<0, 0>>)), gd |-> Stored(Bytes),
          gfix |-> Stored(Array(U32, <<2>>)), gm |-> Stored(Mapping(Address, U32)),
          gst |-> Stored(Struct)]
MCFields == <<<<"n", U32>>, <<"q", Address>>>>

V(n)   == <<"var", n>>
Num    == <<"num", 3>>
StrLit    == <<"str">>
Member == <<"member", V("st"), "n">>

F(name, ids, tys, returns) == [name |-> name, ids |-> ids, tys |-> tys, returns |-> returns]
Call(form, name, args) ==
    [form |-> form, name |-> name, args |-> args, names |-> <<>>, opts |-> NoOpts, on |-> Num, tys |-> <<>>]
NamedCall(form, name, names, args) == [Call(form, name, args) EXCEPT !.names = names]
Method(on, name, args) == [Call("method", name, args) EXCEPT !.on = V(on)]
Opts(os) == [kind |-> "args", args |-> os]

In(fns, c, at) == [fns |-> fns, call |-> c, at |-> at, const |-> FALSE]
Stmt     == <<"stmt">>
Value(t) == <<"value", t>>
List(ts) == <<"list", ts>>

\* Overloads of f by their parameter types.
Sigs   == {<<>>, <<U32>>, <<Field>>, <<Address>>, <<Str>>, <<U32, U32>>, <<Address, U32>>}
Overload(tys) == F("f", SubSeq(<<"a", "b">>, 1, Len(tys)), tys, <<U32>>)
Fns1   == {<<Overload(t)>> : t \in Sigs}
Fns2   == {<<Overload(t), Overload(u)>> : t \in Sigs, u \in Sigs}
Same   == {t \in Sigs : Len(t) = 1}
Fns3   == {<<Overload(t), Overload(u), Overload(v)>> : t \in Same, u \in Same, v \in Same}
Leaves == {V("x"), V("gx"), V("f"), V("a"), V("ga"), V("s"), V("gm"), Num, StrLit, Member}
Few    == {V("x"), V("gx"), V("a"), Num}
Args   == {<<>>} \cup {<<e>> : e \in Leaves} \cup (Few \X Few)

Positionals == {In(fns, Call("pos", "f", args), Stmt) : fns \in Fns1 \cup Fns2, args \in Args}
               \cup {In(fns, Call("pos", "f", <<e>>), Stmt) : fns \in Fns3, e \in Leaves}
               \cup {In(<<>>, Call("library", "f", args), Value(U32)) : args \in Args}
               \cup {In(<<>>, Call("external", "f", args), Value(U32)) : args \in Args}

\* Named calls of functions whose parameters have the same names, or none.
Unnamed == F("f", <<"a", "">>, <<U32, U32>>, <<U32>>)
Pairs   == {<<Overload(t), Overload(u)>> : t \in {<<U32, U32>>, <<Address, U32>>}, u \in {<<U32, U32>>, <<Address, U32>>}}
Nameds  == {In(fns, NamedCall("named", "f", names, args), Stmt) :
               fns \in {<<Overload(<<U32, U32>>)>>, <<Overload(<<Address, U32>>)>>, <<Unnamed>>, <<Unnamed, Overload(<<U32, U32>>)>>} \cup Pairs,
               names \in {<<"a", "b">>, <<"b", "a">>, <<"a", "a">>, <<"a", "c">>}, args \in Few \X Few}

LibNames == {"u32_sqrt", "u32_array_sort", "assert", "print", "poseidon_hash", "fields_concat",
             "block_number", "block_timestamp", "sequence_address", "tx_version", "chain_id",
             "caller_address", "nonce", "signature_length", "signature", "tx_hash",
             "origin_address", "code_address", "current_address", "get_selector", "check_ecdsa"}
Builtins == {In(<<>>, Call("builtin", n, args), Stmt) :
                n \in LibNames, args \in Args \cup {<<V("b")>>, <<V("b"), StrLit>>, <<V("h"), V("d"), V("gd")>>}}

\* Options of an external call; a call in a constant.
Gas   == <<"gas", Num>>
Optss == {NoOpts, Opts(<<Gas>>), Opts(<<Gas, <<"value", V("gx")>>>>), Opts(<<Gas, Gas>>),
          Opts(<<<<"fee", Num>>>>), Opts(<<<<"gas", StrLit>>>>), [NoOpts EXCEPT !.kind = "empty"]}
Optional == {[c EXCEPT !.opts = o] : o \in Optss,
                c \in {Call("external", "g", <<>>), Call("pos", "f", <<>>), Call("library", "f", <<>>),
                       NamedCall("named", "f", <<>>, <<>>), Call("abi", "encode", <<>>),
                       Method("a", "call", <<V("d")>>), Method("a", "staticcall", <<V("d")>>)}}
OptionIns == {In(<<Overload(<<>>)>>, IF c.form = "external" THEN [c EXCEPT !.on = V("o")] ELSE c, Value(Bytes)) : c \in Optional}
ConstIns  == {[i EXCEPT !.const = TRUE] : i \in {j \in OptionIns : j.call.opts = NoOpts}}

StructCalls == {Call("struct", "", args) : args \in Args}
               \cup {NamedCall("namedstruct", "", names, args) :
                        names \in {<<"n", "q">>, <<"q", "n">>, <<"n", "r">>}, args \in Few \X Few}

MCResolve == Positionals \cup Nameds \cup Builtins
             \cup {In(<<>>, c, Value(Struct)) : c \in StructCalls}

MCLibrary  == <<F("f", <<"a">>, <<U32>>, <<U32>>), F("f", <<"a">>, <<Address>>, <<U32>>)>>
MCExternal == <<F("f", <<"a">>, <<U32>>, <<U32>>), F("f", <<"a">>, <<Field>>, <<U32>>),
                F("f", <<"a">>, <<Str>>, <<U32>>), F("g", <<>>, <<>>, <<Bytes>>),
                F("two", <<>>, <<>>, <<U32, Bool>>), F("none", <<>>, <<>>, <<>>)>>

(***************************************************************************)
(* Calls whose code is looked at                                           *)
(***************************************************************************)
Places == {Stmt, Value(U32), Value(Bool), Value(Bytes), List(<<U32>>), List(<<U32, Bool>>), List(<<>>)}
Rets   == {<<>>, <<U32>>, <<U32, Bool>>}
Single   == {<<F("f", <<"a">>, <<t>>, r), F("g", <<>>, <<>>, <<>>)>> : t \in {U32, Address, Str}, r \in Rets}
\* A value is one result, unless the arguments are named.
One(fns, at) == at[1] = "value" => Len(fns[1].returns) <= 1

Internal == {i \in {In(fns, c, at) : fns \in Single, at \in Places,
                       c \in {Call("pos", "f", <<e>>) : e \in Leaves}
                             \cup {NamedCall("named", "f", <<"a">>, <<V("gx")>>)}} :
                i.call.form = "named" \/ One(i.fns, i.at)}
Libraries == {In(<<>>, Call("library", "f", <<e>>), at) : e \in Leaves, at \in Places}

\* A call of another contract whose results are used.
Externals == {In(<<>>, [Call("external", n, args) EXCEPT !.on = V(o)], at) :
                 n \in {"f", "g"}, args \in {<<>>, <<V("gx")>>, <<V("f")>>, <<StrLit>>}, o \in {"o", "go"},
                 at \in Places \ {Stmt}}
             \cup {In(<<>>, [Call("external", "two", <<>>) EXCEPT !.on = V(o)], at) :
                 o \in {"o", "go"}, at \in {List(<<U32, Bool>>), List(<<U32>>)}}

Printed == {V(n) : n \in DOMAIN MCEnv \ {"o", "go", "gm"}} \cup {Num, StrLit, Member}
LibCalls == {In(<<>>, Call("builtin", "print", <<e>>), Stmt) : e \in Printed}
            \cup {In(<<>>, Call("builtin", n, args), at) :
                     n \in LibNames \ {"print", "signature_length"},
                     args \in {<<>>, <<V("gx")>>, <<V("b")>>, <<V("b"), StrLit>>, <<StrLit>>, <<V("gd")>>, <<V("gdyn")>>, <<V("d"), V("gd")>>,
                               <<V("h"), V("d"), V("gd")>>},
                     at \in {Stmt, Value(U32), Value(Bytes), Value(Address)}}

AbiCalls == {In(<<>>, Call("abi", "encode", args), Value(Bytes)) : args \in Args}
            \cup {In(<<>>, Call("abi", "encodeWithSignature", <<StrLit>> \o args), Value(Bytes)) : args \in Args}
            \cup {In(<<>>, Call("abi", "encodeWithSignature", <<>>), Value(Bytes))}
            \cup {In(<<>>, [Call("abi", "decode", args) EXCEPT !.tys = ts], at) :
                     args \in {<<>>, <<V("d")>>, <<V("gd")>>, <<V("x")>>}, at \in {Value(U32), List(<<U32>>)},
                     ts \in {<<U32>>, <<NoType>>, <<Mapping(Address, U32)>>}}
            \cup {In(<<>>, [Call("abi", "decode", <<V("d")>>) EXCEPT !.tys = <<U32, Bool>>], at) :
                     at \in {List(<<U32, Bool>>), List(<<U32>>)}}

\* push and pop of arrays in storage (in memory they are only refused here), and
\* calls of an address with fields.
Methods == {In(<<>>, Method(n, m, args), Stmt) :
               n \in {"gdyn", "gdd", "gd", "gfix", "arr", "x", "gm"}, m \in {"push", "pop", "concat"},
               args \in {<<>>, <<V("gx")>>, <<Num>>, <<V("a")>>, <<Num, Num>>}}
           \cup {In(<<>>, Method(n, "pop", <<>>), Value(U32)) : n \in {"gdyn", "gd"}}
           \cup {In(<<>>, Method("gdd", "push", <<>>), Value(U32s))}
           \cup {In(<<>>, Method(n, m, args), at) :
                    n \in {"a", "ga", "x"}, m \in {"call", "delegatecall", "staticcall"}, at \in {Stmt, Value(Bytes)},
                    args \in {<<>>, <<V("d")>>, <<V("gd")>>, <<V("x")>>, <<V("dyn")>>}}

MCCode == Internal \cup Libraries \cup Externals \cup LibCalls \cup AbiCalls \cup Methods
          \cup OptionIns \cup ConstIns \cup {In(<<>>, c, Value(Struct)) : c \in StructCalls}
=============================================================================
