----------------------------- MODULE ExprTypes -----------------------------
(***************************************************************************)
(* How an expression gets its type and its code.  sema/expression resolves *)
(* a parsed expression, with a hint of the type that is wanted, into a     *)
(* typed tree, inserting loads and conversions; irgen/expression.rs turns  *)
(* the tree into LLVM values and trusts the types: a pointer where it      *)
(* expects a number stops the compiler, and a storage slot where it        *)
(* expects a number is taken for one.                                      *)
(*                                                                         *)
(* A type is a tuple that starts with its name.  A number is known by the  *)
(* count of its bits (BigInt::bits), which is all that the conversions     *)
(* look at.  A typed tree is a record of kind, type, operands and, for a   *)
(* number, its bits.  There is one struct, one enum and one contract.      *)
(***************************************************************************)
EXTENDS Integers, Sequences, OlaTypes

CONSTANTS
    Inputs,   \* records: the expression e, the place at it stands in, and
              \* whether it is inside a constant (ExprContext::constant)
    Env,      \* for every variable its place (local, storage, constant) and type
    Fields    \* the fields of the struct: a sequence of <<name, type>>

VARIABLES
    in,       \* the expression that is compiled
    ast,      \* the typed tree, or Err
    code,     \* what the value that irgen returns is
    pc

vars == <<in, ast, code, pc>>

Node(k, ty, kids) == [k |-> k, ty |-> ty, kids |-> kids, bits |-> 0]
Number(ty, bits)  == [k |-> "num", ty |-> ty, kids |-> <<>>, bits |-> bits]
Err == Node("err", NoType, <<>>)

(***************************************************************************)
(* Types                                                                   *)
(***************************************************************************)
deref_any(t)    == IF t[1] \in {"ref", "sref"} THEN t[2] ELSE t
deref_memory(t) == IF t[1] = "ref" THEN t[2] ELSE t
is_contract_storage(t) == t[1] = "sref"
is_mapping(t)   == deref_any(t)[1] = "mapping" /\ t[1] # "ref"

is_fixed_reference_type(t) ==
    \/ t[1] = "struct"
    \/ t[1] = "array" /\ \A i \in DOMAIN t[3] : t[3][i] # 0

is_reference_type(t) ==
    deref_any(deref_any(t))[1] \in {"struct", "array", "fields", "string", "mapping"}

is_integer(t) == deref_any(deref_any(t))[1] \in {"uint", "field"}

\* The bits of a type; StorageRef has the width of a u32 whatever it refers to.
bits(t) ==
    LET d == deref_memory(t) IN
    CASE d[1] = "uint" -> d[2]
      [] d[1] = "bool" -> 1
      [] d[1] \in {"address", "contract", "hash"} -> 256
      [] OTHER -> 32

InnerElem(t) == IF Len(t[3]) > 1 THEN Array(t[2], SubSeq(t[3], 1, Len(t[3]) - 1))
                                 ELSE t[2]

storage_array_elem(t) ==
    LET d == deref_any(t) IN
    CASE d[1] = "mapping" -> SRef(d[2])
      [] d[1] = "array"   -> SRef(InnerElem(d))
      [] OTHER            -> U32

array_deref(t) ==
    LET d == deref_memory(t) IN
    IF d[1] = "array" THEN Ref(InnerElem(d)) ELSE Ref(U32)

(***************************************************************************)
(* Conversions                                                             *)
(***************************************************************************)
\* type_bits; 0 stands for the error.
type_bits(t) ==
    LET d == deref_any(deref_any(t)) IN
    CASE d[1] = "uint" -> d[2] [] d[1] = "field" -> 64 [] OTHER -> 0

coerce_number(l0, r0) ==
    LET l == deref_any(l0) r == deref_any(r0)
        w == IF type_bits(l) >= type_bits(r) THEN type_bits(l) ELSE type_bits(r)
    IN CASE l = r /\ l[1] \in {"contract", "address", "hash", "field"} -> l
         [] l = Field /\ r[1] = "uint" -> l
         [] l[1] = "uint" /\ r = Field -> r
         [] type_bits(l) = 0 \/ type_bits(r) = 0 -> NoType
         [] OTHER -> Uint(w)

coerce(l, r) ==
    IF deref_any(l) = deref_any(r) THEN deref_any(l) ELSE coerce_number(l, r)

cast_types(x, to) ==
    LET f == x.ty[1] t == to[1] IN
    CASE x.ty = Address /\ to = Ref(Address) -> Node("getref", to, <<x>>)
      [] f = "uint" /\ t = "uint" ->
            IF x.ty[2] > to[2] THEN Err ELSE Node("zext", to, <<x>>)
      [] x.ty = U32 /\ t = "field" -> x
      [] {f, t} = {"field", "fields"} -> Node("bytescast", to, <<x>>)
      [] {f, t} \in {{"hash", "address"}, {"string", "fields"}, {"address", "contract"}}
            -> Node("cast", to, <<x>>)
      [] x.ty = U32 /\ t = "address" -> Node("cast", to, <<x>>)
      [] f \in {"hash", "address"} /\ t = "fields" -> Node("cast", to, <<x>>)
      [] OTHER -> Err

\* A literal is converted at once, when its bits are fewer than those of the type.
CastNumber(x, to) ==
    CASE to[1] = "uint" -> IF x.bits >= to[2] THEN Err ELSE Number(to, x.bits)
      [] to = Field     -> IF x.ty # U32 THEN Err ELSE Number(to, x.bits)
      [] to \in {Address, Hash} /\ x.ty = U32 -> Node(to[1], to, <<>>)
      [] OTHER -> cast_types(x, to)

RECURSIVE cast(_, _)
cast(x, to) ==
    CASE x.k = "err" \/ to = NoType -> Err
      [] x.ty = to -> x
      [] x.ty[1] = "ref" ->
            IF is_fixed_reference_type(x.ty[2])
            THEN IF x.ty[2] = to THEN x ELSE Err
            ELSE cast(Node("load", x.ty[2], <<x>>), to)
      [] x.ty[1] = "sref" -> cast(Node("sload", x.ty[2], <<x>>), to)
      [] x.k = "num" -> CastNumber(x, to)
      [] /\ x.k = "arrlit" /\ to[1] = "array"
         /\ x.ty[2] = to[2] /\ Len(x.ty[3]) = 1 /\ to[3] = <<0>> -> Node("cast", to, <<x>>)
      [] OTHER -> cast_types(x, to)

(***************************************************************************)
(* Leaves                                                                  *)
(***************************************************************************)
Unknown   == <<"unknown">>
Discard   == <<"discard">>
Integer   == <<"integer">>
Type(t)   == <<"type", t>>

\* A number takes the type that is wanted, whatever its size.
bigint_to_expression(n, hint) ==
    CASE hint[1] = "type" /\ ~is_integer(hint[2]) -> Err
      [] hint[1] = "type" -> Number(hint[2], n)
      [] n > 256 -> Err
      [] OTHER   -> Number(U32, n)

variable(name, const) ==
    LET v == Env[name] IN
    CASE v.place = "local"    -> IF const THEN Err ELSE Node("var", v.ty, <<>>)
      [] v.place = "constant" -> Node("const", v.ty, <<>>)
      [] v.place = "storage"  -> IF const THEN Err ELSE Node("svar", SRef(v.ty), <<>>)

\* The literals whose type does not depend on the hint.
Literal(e) ==
    CASE e[1] = "bool"   -> Node("bool", Bool, <<>>)
      [] e[1] = "addr"   -> Node("address", Address, <<>>)
      [] e[1] = "hash"   -> Node("hash", Hash, <<>>)
      [] e[1] = "str"    -> Node("alloc", Str, <<Number(U32, 3)>>)
      [] e[1] = "fields" -> Node("alloc", Bytes, <<Number(U32, 3)>>)
      [] e[1] = "enum"   -> Number(Enum, 1)

(***************************************************************************)
(* Array literals.  The sub-arrays must have one length; their elements    *)
(* are listed in order and the dimensions innermost first.                 *)
(***************************************************************************)
NoArray == [ok |-> FALSE, dims |-> <<>>, flat |-> <<>>]

RECURSIVE Subarrays(_)
Subarrays(es) ==
    IF es # <<>> /\ es[1][1] = "arr"
    THEN LET subs == [i \in DOMAIN es |-> IF es[i][1] = "arr" THEN Subarrays(es[i][2])
                                                           ELSE NoArray]
             flat[i \in 0..Len(es)] == IF i = 0 THEN <<>> ELSE flat[i - 1] \o subs[i].flat
         IN IF \A i \in DOMAIN es : subs[i].ok /\ Len(es[i][2]) = Len(es[1][2])
            THEN [ok |-> TRUE, flat |-> flat[Len(es)], dims |-> Append(subs[1].dims, Len(es))]
            ELSE NoArray
    ELSE IF \E i \in DOMAIN es : es[i][1] = "arr" THEN NoArray
    ELSE [ok |-> TRUE, flat |-> es, dims |-> <<Len(es)>>]

check_subarrays(es) == Subarrays(es)

(***************************************************************************)
(* Operators.  Each takes the operands already resolved, with the hints    *)
(* that expression below gives them.                                       *)
(***************************************************************************)
Failed(xs) == \E i \in DOMAIN xs : xs[i].k = "err"
Typed(k, ty, kids) == IF Failed(kids) THEN Err ELSE Node(k, ty, kids)

\* What is done with a value that several cases look at.
With(x, K(_)) == K(x)

\* A conversion of what has failed, or to no type, fails.
Binary(k, l, r, ty) == Typed(k, ty, <<cast(l, ty), cast(r, ty)>>)

\* Operators that a field does not have, spelt as they are in a tree.
NotOnField == {"div", "mod", "pow", "bitor", "bitand", "bitxor", "shl", "shr", "bitnot",
               "more", "less", "moreeq", "lesseq"}

Arithmetic(k, l, r) ==
    With(coerce_number(l.ty, r.ty), LAMBDA ty :
        IF Failed(<<l, r>>) \/ (k \in NotOnField /\ ty = Field) THEN Err ELSE Binary(k, l, r, ty))

\* divide and modulo refuse the literal zero.
divide(k, l, r) == IF r.k = "num" /\ r.bits = 0 THEN Err ELSE Arithmetic(k, l, r)

Boolean(n) == IF n.k = "err" THEN Err ELSE [n EXCEPT !.ty = Bool]

compare(k, l, r) == Boolean(Arithmetic(k, l, r))

is_string_equal(l, r) == deref_any(l.ty) = Str /\ deref_any(r.ty) = Str

equal(k, l, r) ==
    IF Failed(<<l, r>>) THEN Err
    ELSE Boolean(Binary(IF is_string_equal(l, r) THEN "strcmp" ELSE k, l, r, coerce(l.ty, r.ty)))

\* The right operand of a shift is brought to the width of the left one; it is
\* not loaded when the two widths agree.
cast_shift_arg(x, width, ty) ==
    CASE width = bits(ty) -> x
      [] width < bits(ty) -> Node("zext", ty, <<x>>)
      [] OTHER            -> Node("trunc", ty, <<x>>)

\* The wrong way: the left operand is not loaded.
shift_leftRef(l, r) ==
    IF Failed(<<l, r>>) \/ type_bits(l.ty) = 0 \/ type_bits(r.ty) = 0 \/ deref_any(l.ty) = Field
    THEN Err
    ELSE Node("shl", l.ty, <<l, cast_shift_arg(r, type_bits(r.ty), l.ty)>>)

shift_left(l, r) ==
    LET ty == deref_any(l.ty) IN
    IF Failed(<<l, r>>) \/ type_bits(l.ty) = 0 \/ type_bits(r.ty) = 0 \/ ty = Field
    THEN Err
    ELSE Node("shl", ty, <<cast(l, ty), cast_shift_arg(r, type_bits(r.ty), ty)>>)

\* The left operand keeps its type: a reference is not loaded.
shift_right(l, r) ==
    IF Failed(<<l, r>>) \/ type_bits(l.ty) = 0 \/ type_bits(r.ty) = 0 \/ l.ty = Field
    THEN Err
    ELSE Node("shr", l.ty, <<l, cast_shift_arg(r, type_bits(r.ty), l.ty)>>)

not(x) == IF x.ty = Field THEN Err ELSE Typed("not", Bool, <<cast(x, Bool)>>)

bitwise_not(x) ==
    IF x.k = "err" \/ x.ty = Field \/ type_bits(x.ty) = 0 THEN Err
    ELSE Node("bitnot", x.ty, <<x>>)

logical(k, l, r) == Binary(k, l, r, Bool)

ConditionalOperator(c, l, r) ==
    With(coerce(l.ty, r.ty), LAMBDA ty : Typed("cond", ty, <<cast(c, Bool), cast(l, ty), cast(r, ty)>>))

(***************************************************************************)
(* Assignments                                                             *)
(***************************************************************************)
incr_decr(k, x) ==
    CASE x.k \in {"err", "const"} -> Err
      [] x.k = "var" -> IF x.ty[1] \in {"uint", "field"} THEN Node(k, x.ty, <<x>>) ELSE Err
      [] x.ty[1] = "ref" /\ x.ty[2][1] \in {"uint", "field"} -> Node(k, x.ty[2], <<x>>)
      [] x.ty[1] = "sref" /\ x.ty[2][1] = "uint" -> Node(k, x.ty[2], <<x>>)
      [] OTHER -> Err

assign_single(x, val) ==
    IF \/ Failed(<<x, val>>) \/ x.k = "const"
       \/ x.k # "var" /\ x.ty[1] \notin {"ref", "sref"}
    THEN Err
    ELSE Typed("assign", deref_any(x.ty), <<x, cast(val, IF x.k = "var" THEN x.ty ELSE deref_any(x.ty))>>)

\* The value of x k= set (the closure op of assign_expr).
Compound(k, ty, left, set) ==
    With(IF k \in {"shl", "shr"} THEN cast_shift_arg(set, type_bits(set.ty), ty) ELSE cast(set, ty),
         LAMBDA right :
            IF \/ k \in {"shl", "shr"} /\ type_bits(set.ty) = 0
               \/ k \in {"div", "mod"} /\ right.k = "num" /\ right.bits = 0
            THEN Err ELSE Typed(k, ty, <<left, right>>))

\* Only a variable whose own type is field is refused; a field behind a
\* reference is not.
assign_expr(k, x, set) ==
    With(IF x.k = "var" THEN x.ty ELSE deref_any(x.ty), LAMBDA ty :
        IF \/ Failed(<<x, set>>) \/ x.k = "const"
           \/ k \notin {"add", "sub", "mul"} /\ x.ty = Field
           \/ x.k # "var" /\ x.ty[1] \notin {"ref", "sref"}
           \/ ty[1] \notin {"uint", "field"}
           \/ x.ty[1] = "sref" /\ ty = Field
        THEN Err
        ELSE Typed("assign", IF x.k = "var" THEN Void ELSE ty,
                   <<x, Compound(k, ty, IF x.k = "var" THEN x ELSE cast(x, ty), set)>>))

(***************************************************************************)
(* Places                                                                  *)
(***************************************************************************)
IsArray(t) == t[1] \in {"array", "string", "fields"}

\* An array is loaded unless it is a fixed one.
Loaded(a) == IF is_fixed_reference_type(deref_memory(a.ty)) THEN a ELSE cast(a, deref_any(a.ty))

array_subscript(a, i) ==
    IF \/ Failed(<<a, i>>) \/ deref_any(i.ty)[1] # "uint"
       \/ ~IsArray(deref_any(a.ty))
    THEN Err
    ELSE Node("subscript", IF is_contract_storage(a.ty) THEN storage_array_elem(a.ty) ELSE array_deref(a.ty),
              <<IF is_contract_storage(a.ty) THEN a ELSE Loaded(a), cast(i, deref_any(i.ty))>>)

mapping_subscript(a, i) ==
    Typed("subscript", storage_array_elem(a.ty), <<a, cast(i, deref_any(a.ty)[3])>>)

array_slice(a, from, to) ==
    IF \/ Failed(<<a, from, to>>) \/ is_mapping(a.ty)
       \/ deref_any(from.ty)[1] # "uint" \/ deref_any(to.ty)[1] # "uint"
       \/ ~IsArray(deref_any(a.ty)) \/ is_contract_storage(a.ty)
    THEN Err
    ELSE Node("slice", Bytes, <<Loaded(a), cast(from, deref_any(from.ty)), cast(to, deref_any(to.ty))>>)

FieldNo(name) == {i \in DOMAIN Fields : Fields[i][1] = name}

member_access(x, name) ==
    LET ty == deref_memory(x.ty)
        y  == IF x.ty[1] = "ref" THEN Node("load", x.ty, <<x>>) ELSE x
    IN CASE x.k = "err" -> Err
         [] deref_any(x.ty) = Struct ->
               IF FieldNo(name) = {} THEN Err
               ELSE LET i == CHOOSE j \in FieldNo(name) : TRUE
                    IN Node("member", IF is_contract_storage(x.ty) THEN SRef(Fields[i][2])
                                                                   ELSE Ref(Fields[i][2]), <<x>>)
         [] name # "length" -> Err
         [] ty[1] = "array" -> IF ty[3][Len(ty[3])] = 0 THEN Node("length", U32, <<y>>)
                                                        ELSE Number(U32, ty[3][Len(ty[3])])
         [] ty[1] \in {"string", "fields"} -> Node("length", U32, <<y>>)
         [] is_contract_storage(ty) /\ IsArray(ty[2]) -> Node("slength", U32, <<x>>)
         [] OTHER -> Err

new(ty, size) ==
    IF \/ ty[1] = "array" /\ ty[3][Len(ty[3])] # 0
       \/ ~IsArray(ty) \/ size.k = "err" \/ deref_any(size.ty)[1] # "uint"
    THEN Err ELSE Typed("alloc", ty, <<cast(size, U32)>>)

(***************************************************************************)
(* resolve_expression.rs, expression                                       *)
(***************************************************************************)
Sums     == {"sub", "bitor", "bitand", "bitxor"}
Orders   == {"more", "less", "moreeq", "lesseq"}

RECURSIVE expression(_, _, _)

\* The elements of a literal take the type of the first, or the one wanted.
array_literal(es, hint, c) ==
    With(check_subarrays(es), LAMBDA s :
    With(IF hint[1] = "type" /\ hint[2][1] = "array" THEN Type(hint[2][2]) ELSE hint, LAMBDA h :
        IF ~s.ok \/ s.flat = <<>> THEN Err
        ELSE With(expression(s.flat[1], h, c), LAMBDA x1 :
             With(IF h[1] = "type" THEN h[2] ELSE x1.ty, LAMBDA ty :
                Typed(IF c THEN "constarr" ELSE "arrlit", Array(ty, s.dims),
                      [i \in DOMAIN s.flat |->
                          cast(IF i = 1 THEN x1 ELSE expression(s.flat[i], Type(ty), c), ty)])))))

\* When nothing is known of the type that is wanted, the operands are resolved
\* again with a hint of twice the width.
Wider(ty) == Type(Uint(IF bits(ty) >= 128 THEN 256 ELSE 2 * bits(ty)))

SumOf(e, hint, c, l, r, ty) ==
    IF Failed(<<l, r>>) \/ ty = NoType THEN Err
    ELSE Binary("add", IF hint = Unknown THEN expression(e[2], Wider(ty), c) ELSE l,
                       IF hint = Unknown THEN expression(e[3], Wider(ty), c) ELSE r, ty)

addition(e, hint, c) ==
    With(expression(e[2], hint, c), LAMBDA l : With(expression(e[3], hint, c), LAMBDA r :
        SumOf(e, hint, c, l, r, coerce_number(l.ty, r.ty))))

ProductOf(e, hint, c, l, r, ty) ==
    CASE Failed(<<l, r>>) \/ ty = NoType -> Err
      [] hint = Unknown -> expression(e, Wider(ty), c)
      [] OTHER -> Binary("mul", l, r, ty)

multiply(e, hint, c) ==
    With(expression(e[2], hint, c), LAMBDA l : With(expression(e[3], hint, c), LAMBDA r :
        ProductOf(e, hint, c, l, r, coerce_number(l.ty, r.ty))))

power(e, hint, c) ==
    LET b == expression(e[2], IF hint = Unknown THEN Type(Uint(256)) ELSE hint, c) IN
    IF hint = Unknown /\ expression(e[2], hint, c).k = "err" THEN Err
    ELSE Arithmetic("pow", b, expression(e[3], hint, c))

\* Expressions that change a variable: none of them is constant.
Change(e) ==
    CASE e[1] \in {"incr", "decr"} -> incr_decr(e[1], expression(e[2], Unknown, FALSE))
      [] e[1] = "assign" ->
            LET x == expression(e[2], Unknown, FALSE)
            IN assign_single(x, expression(e[3], Type(deref_any(x.ty)), FALSE))
      [] e[1] = "assignop" ->
            LET x == expression(e[3], Unknown, FALSE)
                h == IF e[2] \in {"shl", "shr"} THEN Unknown ELSE Type(deref_any(x.ty))
            IN assign_expr(e[2], x, expression(e[4], h, FALSE))

\* Elements, slices and members, explicit conversions and new.
Part(e, hint, c) ==
    CASE e[1] = "index" ->
            LET a == expression(e[2], Unknown, c) IN
            IF a.k # "err" /\ is_mapping(a.ty)
            THEN mapping_subscript(a, expression(e[3], Type(deref_any(a.ty)[3]), c))
            ELSE array_subscript(a, expression(e[3], Type(U32), c))
      [] e[1] = "slice" -> array_slice(expression(e[2], Unknown, c),
                              expression(e[3], Type(U32), c), expression(e[4], Type(U32), c))
      [] e[1] = "member" -> member_access(expression(e[2], hint, c), e[3])
      [] e[1] = "to"     -> cast(expression(e[3], Unknown, c), e[2])
      [] e[1] = "new"    -> IF c THEN Err ELSE new(e[2], expression(e[3], Type(U32), c))

expression(e, hint, c) ==
    CASE e[1] = "num" -> bigint_to_expression(e[2], hint)
      [] e[1] = "var" -> variable(e[2], c)
      [] e[1] = "arr" -> array_literal(e[2], hint, c)
      [] e[1] = "add" -> addition(e, hint, c)
      [] e[1] = "mul" -> multiply(e, hint, c)
      [] e[1] = "pow" -> power(e, hint, c)
      [] e[1] \in Sums -> Arithmetic(e[1], expression(e[2], hint, c), expression(e[3], hint, c))
      [] e[1] \in {"div", "mod"} ->
            divide(e[1], expression(e[2], hint, c), expression(e[3], hint, c))
      [] e[1] = "shl" -> shift_left(expression(e[2], hint, c), expression(e[3], Unknown, c))
      [] e[1] = "shr" -> shift_right(expression(e[2], hint, c), expression(e[3], Unknown, c))
      [] e[1] \in Orders -> compare(e[1], expression(e[2], Integer, c), expression(e[3], Integer, c))
      [] e[1] = "ne" -> equal("ne", expression(e[2], Integer, c), expression(e[3], Integer, c))
      [] e[1] = "eq" ->
            With(expression(e[2], Integer, c), LAMBDA l : With(expression(e[3], Integer, c), LAMBDA r :
            With(IF is_string_equal(l, r) THEN Integer ELSE Type(coerce(l.ty, r.ty)), LAMBDA h :
                IF Failed(<<l, r>>) \/ h = Type(NoType) THEN Err
                ELSE equal("eq", expression(e[2], h, c), expression(e[3], h, c)))))
      [] e[1] = "not"    -> not(expression(e[2], hint, c))
      [] e[1] = "bitnot" -> bitwise_not(expression(e[2], hint, c))
      [] e[1] \in {"or", "and"} ->
            logical(e[1], expression(e[2], Type(Bool), c), expression(e[3], Type(Bool), c))
      [] e[1] = "cond" -> ConditionalOperator(expression(e[2], hint, c),
                             expression(e[3], hint, c), expression(e[4], hint, c))
      [] e[1] \in {"incr", "decr", "assign", "assignop"} -> IF c THEN Err ELSE Change(e)
      [] e[1] \in {"index", "slice", "member", "to", "new"} -> Part(e, hint, c)
      [] OTHER -> Literal(e)

\* How the other parts of sema call it: outside constants.
resolve_expression(e, hint) == expression(e, hint, FALSE)

(***************************************************************************)
(* Code.  A value is a number (int), a pointer (ptr) or the number of a    *)
(* storage slot (slot).  panic stops the compiler; wrong is a value taken  *)
(* for something it is not.                                                *)
(***************************************************************************)
Shape(t) ==
    CASE t[1] \in {"uint", "field", "bool", "enum", "void"} -> "int"
      [] t[1] = "sref" -> "slot"
      [] OTHER -> "ptr"

Bad == {"panic", "wrong"}

\* The first operand that cannot be used, or good.
Uses(ds, good) ==
    IF \E i \in DOMAIN ds : ds[i] \in Bad
    THEN ds[CHOOSE i \in DOMAIN ds : ds[i] \in Bad /\ \A j \in 1..(i - 1) : ds[j] \notin Bad]
    ELSE good

\* into_int_value: a slot passes for a number, a pointer does not.
Ints(ds, good) ==
    CASE Uses(ds, "ok") # "ok" -> Uses(ds, "ok")
      [] \E i \in DOMAIN ds : ds[i] = "ptr"  -> "panic"
      [] \E i \in DOMAIN ds : ds[i] = "slot" -> "wrong"
      [] OTHER -> good

Pointers(ds, good) ==
    CASE Uses(ds, "ok") # "ok" -> Uses(ds, "ok")
      [] \E i \in DOMAIN ds : ds[i] # "ptr" -> "panic"
      [] OTHER -> good

\* Values that are stored or passed on as they are.
Stored(xs, ds, good) ==
    CASE Uses(ds, "ok") # "ok" -> Uses(ds, "ok")
      [] \E i \in DOMAIN ds : ds[i] # Shape(xs[i].ty) -> "wrong"
      [] OTHER -> good

number_literal(n) == IF n.ty \in {U32, Field, Enum} THEN "int" ELSE "panic"

\* The types that the comparisons are written for.
compare_code(n, ds) ==
    LET t == n.kids[1].ty IN
    CASE t \in {Address, Contract, Hash} -> Pointers(ds, "int")
      [] t = U32 -> Ints(ds, "int")
      [] t \in {Bool, Field, Enum} /\ n.k \in {"eq", "ne"} -> Ints(ds, "int")
      [] OTHER -> "panic"

cast_code(n, ds) ==
    LET f == n.kids[1].ty t == n.ty IN
    CASE n.kids[1].k = "arrlit" -> Uses(ds, "ptr")
      [] {f, t} \in {{Str, Bytes}, {Hash, Address}, {Address, Contract}} -> Uses(ds, ds[1])
      [] f = U32 /\ t \in {Hash, Address} -> Ints(ds, "ptr")
      [] f \in {Hash, Address} /\ t = Bytes -> Pointers(ds, "ptr")
      [] OTHER -> "panic"

subscript_code(n, ds) ==
    LET a == n.kids[1].ty i == n.kids[2].ty IN
    CASE Uses(ds, "ok") # "ok" -> Uses(ds, "ok")
      [] is_mapping(a) ->
            IF i \in {U32, Field, Bool, Hash, Address, Bytes, Str} THEN "slot" ELSE "panic"
      [] is_contract_storage(a) -> Ints(<<ds[2]>>, "slot")
      [] OTHER -> Ints(<<ds[2]>>, Pointers(<<ds[1]>>, "ptr"))

assign_code(n, ds) ==
    LET x == n.kids[1] IN
    IF x.k = "var" THEN Stored(<<n.kids[2]>>, <<ds[2]>>, ds[2])
    ELSE Stored(n.kids, ds, ds[1])

conditional_operator(n, ds) ==
    CASE Ints(<<ds[1]>>, "ok") # "ok" -> Ints(<<ds[1]>>, "ok")
      [] is_fixed_reference_type(n.ty) -> "wrong"
      [] OTHER -> Stored(n.kids, ds, ds[2])

RECURSIVE Code(_)
Code(n) ==
    LET ds == [i \in DOMAIN n.kids |-> Code(n.kids[i])] IN
    CASE n.k = "num" -> number_literal(n)
      [] n.k = "bool" -> "int"
      [] n.k \in {"address", "hash"} -> "ptr"
      [] n.k = "var"  -> Shape(n.ty)
      [] n.k = "svar" -> "slot"
      [] n.k \in {"add", "sub", "mul", "pow", "bitor", "bitand", "bitxor", "shl", "shr",
                  "not", "bitnot", "or", "and"} -> Ints(ds, "int")
      [] n.k \in {"div", "mod"} -> Stored(n.kids, ds, Ints(ds, "int"))
      [] n.k \in Orders \cup {"eq", "ne"} -> compare_code(n, ds)
      [] n.k = "strcmp" -> Pointers(ds, "int")
      [] n.k = "load"   -> Pointers(ds, Shape(deref_memory(n.ty)))
      [] n.k = "sload"  -> IF ds[1] = "slot" THEN Shape(n.ty) ELSE Uses(ds, "wrong")
      [] n.k = "cast"   -> cast_code(n, ds)
      [] n.k = "bytescast" -> IF n.ty = Bytes THEN Ints(ds, "ptr") ELSE "panic"
      [] n.k = "cond"   -> conditional_operator(n, ds)
      [] n.k = "assign" -> assign_code(n, ds)
      [] n.k \in {"incr", "decr"} ->
            IF n.kids[1].k = "var" THEN "ptr" ELSE Uses(ds, ds[1])
      [] n.k = "subscript" -> subscript_code(n, ds)
      [] n.k = "member"  -> Uses(ds, Shape(n.ty))
      [] n.k = "slice"   -> Ints(<<ds[2], ds[3]>>, Pointers(<<ds[1]>>, "ptr"))
      [] n.k = "length"  -> Pointers(ds, "int")
      [] n.k = "slength" -> Uses(ds, "int")
      [] n.k = "arrlit"  -> Stored(n.kids, ds, "ptr")
      [] n.k = "alloc"   -> Ints(ds, "ptr")
      [] OTHER -> "panic"    \* zext, trunc, getref, const, constarr

\* The index path that irgen gives to the i-th element (from 0) of a literal.
RECURSIVE IndexPath(_, _)
IndexPath(i, dims) ==
    IF dims = <<>> THEN <<>>
    ELSE Append(IndexPath(i \div dims[1], Tail(dims)), i % dims[1])

\* The wrong way: the number is not divided between two dimensions.
ElementIndexFlat(i, dims) == [k \in DOMAIN dims |-> i % dims[Len(dims) + 1 - k]]

ElementIndex(i, dims) == IndexPath(i, dims)

(***************************************************************************)
(* The places an expression may stand in: the initial value of a variable  *)
(* of some type, a statement, and an argument of abi.encode.               *)
(***************************************************************************)
Wanted(at) == CASE at[1] = "decl" -> Type(at[2]) [] at[1] = "stmt" -> Discard [] at[1] = "encode" -> Unknown

Resolved(i) ==
    With(expression(i.e, Wanted(i.at), i.const), LAMBDA x :
        IF i.at[1] = "stmt" THEN x ELSE cast(x, IF i.at[1] = "decl" THEN i.at[2] ELSE deref_any(x.ty)))

Init == in \in Inputs /\ ast = Err /\ code = "none" /\ pc = "sema"

Resolve ==
    /\ pc = "sema"
    /\ ast' = Resolved(in)
    /\ pc' = IF ast'.k = "err" THEN "refused" ELSE "irgen"
    /\ UNCHANGED <<in, code>>

Generate ==
    /\ pc = "irgen"
    /\ code' = Code(ast)
    /\ pc' = "done"
    /\ UNCHANGED <<in, ast>>

Next == Resolve \/ Generate
Spec == Init /\ [][Next]_vars

(***************************************************************************)
(* Properties                                                              *)
(***************************************************************************)
\* An expression that sema accepts has code: irgen meets no tree it has no case
\* for and no value of the wrong sort (irgen/expression.rs), and what it
\* returns is what the type of the expression says, except for a statement,
\* whose value nobody uses.
CodeMatchesType ==
    pc = "done" =>
        /\ code \notin Bad
        /\ in.at[1] # "stmt" => code = Shape(ast.ty)

\* The element that the source names by a path of indices is stored where the
\* code for that path looks for it (check_subarrays against the index list that
\* irgen builds for an array literal).
RECURSIVE AtPath(_, _)
AtPath(es, path) == IF Len(path) = 1 THEN es[path[1] + 1]
                    ELSE AtPath(es[path[1] + 1][2], Tail(path))

LiteralPlaced ==
    pc = "done" /\ in.e[1] = "arr" =>
        LET s == check_subarrays(in.e[2]) IN
        /\ s.ok
        /\ \A i \in DOMAIN s.flat :
              AtPath(in.e[2], ElementIndex(i - 1, s.dims)) = s.flat[i]
=============================================================================
