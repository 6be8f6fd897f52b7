------------------------------- MODULE Calls -------------------------------
(***************************************************************************)
(* How a call finds its function and becomes code.  sema/expression/       *)
(* function_call.rs tries the functions of a name one after the other,     *)
(* collecting diagnostics on the way; sema/corelib.rs does the same for    *)
(* the built-in functions; literals.rs fills in the fields of a struct.    *)
(* irgen/functions.rs declares the functions in the LLVM module and        *)
(* irgen/expression.rs, emit_function_call, looks the callee up there.     *)
(*                                                                         *)
(* Arguments are expressions of ExprTypes, resolved with its operators.    *)
(* A function is a record of its name, the names of its parameters (the    *)
(* empty string for none), their types and the types it returns.           *)
(***************************************************************************)
EXTENDS Integers, Sequences, FiniteSets, OlaTypes

CONSTANTS
    Inputs,     \* records: the functions fns of the contract, the call and its place at
    Library,    \* the functions of a library contract
    External,   \* the functions of the contract that variables of type contract refer to
    Env, Fields \* the variables and the fields of the struct (ExprTypes)

VARIABLES
    in,       \* the call that is compiled
    cand,     \* the next candidate
    errs,     \* the sorts of diagnostics of the candidates so far (errors)
    fits,     \* the candidates of an external call that fit (resolved_calls)
    diag,     \* whether an error was reported: the program is then not compiled
    tree,     \* the typed call, or Err
    code,     \* what the call does in the generated code
    pc

vars == <<in, cand, errs, fits, diag, tree, code, pc>>

X == INSTANCE ExprTypes WITH Inputs <- {}, in <- in, ast <- tree, code <- code, pc <- pc

Unresolved == <<"unresolved">>

NoTree == [form |-> "none", fn |-> 0, args |-> <<>>, returns |-> <<>>]
Tree(form, fn, args, returns) == [form |-> form, fn |-> fn, args |-> args, returns |-> returns]

call == in.call

(***************************************************************************)
(* The functions of a name                                                 *)
(***************************************************************************)
P(name, tys, returns) == [name |-> name, tys |-> tys, returns |-> returns]
U32s == Array(U32, <<0>>)

\* LIB_FUNCTIONS; the three functions of the namespace abi are apart, below.
LibFunctions ==
    <<P("u32_sqrt", <<U32>>, <<U32>>), P("u32_array_sort", <<U32s>>, <<U32s>>),
      P("assert", <<Bool>>, <<Void>>), P("assert", <<Bool, Str>>, <<Void>>),
      P("print", <<Unresolved>>, <<>>), P("poseidon_hash", <<Bytes>>, <<Hash>>),
      P("fields_concat", <<Bytes, Bytes>>, <<Bytes>>),
      P("block_number", <<>>, <<U32>>), P("block_timestamp", <<>>, <<U32>>),
      P("sequence_address", <<>>, <<Address>>), P("tx_version", <<>>, <<U32>>),
      P("chain_id", <<>>, <<U32>>), P("caller_address", <<>>, <<Address>>),
      P("nonce", <<>>, <<U32>>), P("signature_length", <<>>, <<U32>>),
      P("signature", <<>>, <<Bytes>>), P("tx_hash", <<>>, <<Hash>>),
      P("origin_address", <<>>, <<Address>>), P("code_address", <<>>, <<Address>>),
      P("current_address", <<>>, <<Address>>), P("get_selector", <<Str>>, <<U32>>),
      P("check_ecdsa", <<Hash, Bytes, Bytes>>, <<Bool>>)>>

Table ==
    CASE call.form \in {"pos", "named"} -> in.fns
      [] call.form = "library" -> Library
      [] call.form = "builtin" -> LibFunctions
      [] call.form = "external" -> External
      [] OTHER -> <<>>

\* The candidates, in the order of their numbers (all_functions is a BTreeMap).
available_functions ==
    SelectSeq([i \in DOMAIN Table |-> i], LAMBDA i : Table[i].name = call.name)

(***************************************************************************)
(* Arguments                                                               *)
(***************************************************************************)
With(x, K(_)) == K(x)
Failed(xs) == \E i \in DOMAIN xs : xs[i].k = "err"

\* A parameter of print has no type: its argument is left as it is.
Converted(x, ty) == IF ty = Unresolved THEN x ELSE X!cast(x, ty)
evaluate_argument(e, ty) ==
    Converted(X!resolve_expression(e, IF ty = Unresolved THEN X!Unknown ELSE X!Type(ty)), ty)

Positional(f) == [i \in DOMAIN call.args |-> evaluate_argument(call.args[i], f.tys[i])]

\* The last of the arguments with a name (arguments is a HashMap).
Given(id) == {i \in DOMAIN call.names : call.names[i] = id}
LastGiven(id) == CHOOSE i \in Given(id) : \A j \in Given(id) : j <= i

Named(f) ==
    [i \in DOMAIN f.tys |-> IF Given(f.ids[i]) = {} THEN X!Err
                            ELSE evaluate_argument(call.args[LastGiven(f.ids[i])], f.tys[i])]

\* The wrong way: a function without results has no result type at all.
function_returnsNone(f, at) == IF at[1] = "stmt" THEN <<Void>> ELSE f.returns

\* A result that is not wanted, or that does not exist, is void.
function_returns(f, at) ==
    IF f.returns # <<>> /\ at[1] # "stmt" THEN f.returns ELSE <<Void>>

\* The wrong way: a failed conversion ends the search too.
NonCastingAny(es) == es # {}

\* Candidates are given up for good when there is an error other than a
\* failed conversion.
extend_non_casting(es) == "error" \in es

(***************************************************************************)
(* Call options, {gas: ..., value: ...}: a sequence of names with          *)
(* expressions, or a block that is none.                                   *)
(***************************************************************************)
collect_call_args == call.opts.kind \in {"none", "args"}

parse_call_args ==
    LET o == call.opts.args IN
    /\ \A i, j \in DOMAIN o : i # j => o[i][1] # o[j][1]
    /\ \A i \in DOMAIN o : /\ o[i][1] \in {"value", "gas"}
                           /\ evaluate_argument(o[i][2], U32).k # "err"

HasOpt(name) == \E i \in DOMAIN call.opts.args : call.opts.args[i][1] = name

(***************************************************************************)
(* Steps                                                                   *)
(***************************************************************************)
Init ==
    /\ in \in Inputs
    /\ cand = 1 /\ errs = {} /\ fits = {} /\ diag = FALSE
    /\ tree = NoTree /\ code = "none" /\ pc = "start"

Refuse   == pc' = "refused" /\ diag' = TRUE
Found(t) == tree' = t /\ pc' = "use"

\* A result that is unwrapped where there is none stops the compiler.
Panic == [NoTree EXCEPT !.form = "panic"]
Settle(t) ==
    CASE t = NoTree -> Refuse /\ UNCHANGED tree
      [] t = Panic  -> pc' = "panic" /\ UNCHANGED <<diag, tree>>
      [] OTHER      -> Found(t) /\ UNCHANGED diag

Listed  == {"pos", "library", "named", "builtin", "external"}

\* What is looked at before the candidates: the options, the place (a constant
\* has no calls) and, where they are resolved for their own sake, the arguments.
Options ==
    CASE call.form = "named" -> call.opts.kind = "none"
      [] call.form \in {"library", "abi"} -> call.opts.kind = "none"
      [] call.form = "external" -> parse_call_args
      [] OTHER -> TRUE

Resolvable ==
    call.form \in {"pos", "library", "external"} =>
        \A i \in DOMAIN call.args : X!resolve_expression(call.args[i], X!Unknown).k # "err"

function_call_expr ==
    /\ pc = "start" /\ call.form \in Listed
    /\ IF collect_call_args /\ Options /\ Resolvable /\ ~in.const
       THEN pc' = "try" /\ UNCHANGED diag
       ELSE Refuse
    /\ UNCHANGED <<in, cand, errs, fits, tree, code>>

More == pc = "try" /\ cand <= Len(available_functions)
Fn   == Table[available_functions[cand]]
Only == Len(available_functions) = 1

\* The candidate does not fit, for a reason of this sort.
Mismatch(sort, giveUp) ==
    /\ errs' = errs \cup {sort}
    /\ IF giveUp /\ extend_non_casting(errs') THEN Refuse /\ UNCHANGED cand
       ELSE cand' = cand + 1 /\ UNCHANGED <<pc, diag>>
    /\ UNCHANGED tree

function_call_pos_args ==
    /\ More /\ call.form \in {"pos", "library"}
    /\ IF Len(Fn.tys) # Len(call.args) THEN Mismatch("error", FALSE)
       ELSE \E xs \in {Positional(Fn)} :
            IF Failed(xs) THEN Mismatch("cast", ~Only)
            ELSE /\ Found(Tree(call.form, available_functions[cand], xs, function_returns(Fn, in.at)))
                 /\ UNCHANGED <<cand, errs, diag>>
    /\ UNCHANGED <<in, fits, code>>

\* A name given twice is reported before the first candidate, and a parameter
\* without an argument at once, whatever the later candidates are.
function_call_named_args ==
    /\ More /\ call.form = "named"
    /\ LET duplicate == \E id \in {call.names[i] : i \in DOMAIN call.names} : Cardinality(Given(id)) > 1
           missing   == \E i \in DOMAIN Fn.ids : Fn.ids[i] # "" /\ Given(Fn.ids[i]) = {}
       IN diag' = (diag \/ duplicate \/ missing)
    /\ \E xs \in {Named(Fn)} :
          IF /\ \A i \in DOMAIN Fn.ids : Fn.ids[i] # ""
             /\ Len(Fn.tys) = Len(call.args) /\ ~Failed(xs)
          THEN /\ Found(Tree("named", available_functions[cand], xs, function_returns(Fn, in.at)))
               /\ UNCHANGED <<cand, errs>>
          ELSE /\ errs' = errs \cup {"cast"} /\ cand' = cand + 1
               /\ UNCHANGED <<pc, tree>>
    /\ UNCHANGED <<in, fits, code>>

\* resolve_call: the number of arguments counts as a failed conversion here.
\* get_selector is given the selector in front of its argument, which must be a
\* string literal.
resolve_call ==
    /\ More /\ call.form = "builtin"
    /\ \E xs \in {IF Len(Fn.tys) # Len(call.args) THEN <<X!Err>> ELSE Positional(Fn)} :
       IF Failed(xs) THEN Mismatch("cast", ~Only)
       ELSE IF Fn.name = "get_selector" /\ call.args[1][1] # "str"
       THEN Refuse /\ UNCHANGED <<cand, errs, tree>>
       ELSE /\ Found(Tree("builtin", available_functions[cand],
                          (IF Fn.name = "get_selector" THEN <<X!Number(U32, 32)>> ELSE <<>>) \o xs,
                          Fn.returns))
            /\ UNCHANGED <<cand, errs, diag>>
    /\ UNCHANGED <<in, fits, code>>

\* Every candidate of an external call is tried.
contract_call_pos_args ==
    /\ More /\ call.form = "external"
    /\ fits' = IF Len(Fn.tys) = Len(call.args) /\ ~Failed(Positional(Fn))
               THEN fits \cup {available_functions[cand]} ELSE fits
    /\ cand' = cand + 1
    /\ UNCHANGED <<in, errs, diag, tree, code, pc>>

OneFits == Cardinality(fits) = 1

\* The address is the first argument of the tree.
contract_call_match(i, on) ==
    LET f == External[i] IN
    Tree("external", i, <<X!cast(on, Contract)>> \o Positional(f), function_returns(f, in.at))

NoneLeft ==
    /\ pc = "try" /\ cand > Len(available_functions)
    /\ IF call.form = "external" /\ OneFits
       THEN /\ Found(contract_call_match(CHOOSE i \in fits : \A j \in fits : i <= j,
                                         X!resolve_expression(call.on, X!Unknown)))
            /\ UNCHANGED diag
       ELSE Refuse /\ UNCHANGED tree
    /\ UNCHANGED <<in, cand, errs, fits, code>>

(***************************************************************************)
(* Struct literals                                                         *)
(***************************************************************************)
struct_literal ==
    /\ pc = "start" /\ call.form = "struct"
    /\ \E xs \in {IF Len(call.args) # Len(Fields) THEN <<X!Err>>
                  ELSE [i \in DOMAIN Fields |-> evaluate_argument(call.args[i], Fields[i][2])]} :
          IF Failed(xs) THEN Refuse /\ UNCHANGED tree
          ELSE Found(Tree("struct", 0, xs, <<Struct>>)) /\ UNCHANGED diag
    /\ UNCHANGED <<in, cand, errs, fits, code>>

\* The value for the fields of a name: one, or none if the name is unknown.
NamedValue(e, nos) ==
    IF nos = {} THEN X!Err ELSE evaluate_argument(e, Fields[CHOOSE j \in nos : TRUE][2])

\* A field that no argument names keeps the literal false.
named_struct_literal ==
    /\ pc = "start" /\ call.form = "namedstruct"
    /\ \E xs \in {[i \in DOMAIN call.args |-> NamedValue(call.args[i], X!FieldNo(call.names[i]))]} :
          IF Len(call.args) # Len(Fields) \/ Failed(xs)
          THEN Refuse /\ UNCHANGED tree
          ELSE /\ Found(Tree("struct", 0,
                             [j \in DOMAIN Fields |->
                                 IF Given(Fields[j][1]) = {} THEN X!Node("bool", Bool, <<>>)
                                 ELSE xs[LastGiven(Fields[j][1])]], <<Struct>>))
               /\ UNCHANGED diag
    /\ UNCHANGED <<in, cand, errs, fits, code>>

(***************************************************************************)
(* abi.encode, abi.encodeWithSignature and abi.decode.  The types of a     *)
(* decode are call.tys; NoType stands for one that is missing or named.    *)
(***************************************************************************)
Decodable == \A i \in DOMAIN call.tys : call.tys[i] # NoType /\ ~X!is_mapping(call.tys[i])

abi_decode ==
    IF Len(call.args) # 1 THEN NoTree
    ELSE With(evaluate_argument(call.args[1], Bytes), LAMBDA data :
            IF data.k = "err" \/ ~Decodable THEN NoTree ELSE Tree("decode", 0, <<data>>, call.tys))

\* An argument is loaded; it keeps its type.
Encoded(x) ==
    IF x.k = "err" \/ X!is_mapping(x.ty) THEN X!Err ELSE X!cast(x, X!deref_any(x.ty))

\* The first argument of encodeWithSignature is replaced by its selector.
abi_encode ==
    LET skip == IF call.name = "encode" THEN 0 ELSE 1 IN
    IF Len(call.args) < skip THEN NoTree
    ELSE With([i \in 1..(Len(call.args) - skip) |->
                  Encoded(X!resolve_expression(call.args[i + skip], X!Unknown))], LAMBDA xs :
            IF Failed(xs) THEN NoTree
            ELSE Tree("encode", 0, (IF skip = 1 THEN <<X!Number(U32, 32)>> ELSE <<>>) \o xs, <<Bytes>>))

\* function_selector fails for anything but a string literal, and its result is
\* unwrapped.
SelectorPanics ==
    call.name = "encodeWithSignature" /\ call.args # <<>> /\ call.args[1][1] # "str"

resolve_namespace_call ==
    /\ pc = "start" /\ call.form = "abi"
    /\ \E t \in {CASE ~Options \/ in.const -> NoTree
                   [] SelectorPanics -> Panic
                   [] call.name = "decode" -> abi_decode
                   [] OTHER -> abi_encode} : Settle(t)
    /\ UNCHANGED <<in, cand, errs, fits, code>>

(***************************************************************************)
(* Methods: push and pop of arrays, and calls of an address                *)
(***************************************************************************)
IsFixed(t) == t[1] = "array" /\ t[3][Len(t[3])] # 0
Dynamic(t) == \/ t[1] \in {"string", "fields"}
              \/ t[1] = "array" /\ \E i \in DOMAIN t[3] : t[3][i] = 0
HasDynamic(t) == \/ Dynamic(t)
                 \/ t = Struct /\ \E i \in DOMAIN Fields : Dynamic(Fields[i][2])
ElemOf(t)  == IF t[1] = "array" THEN X!InnerElem(t) ELSE U32

Pushed(v, x, ty) == IF x.k = "err" THEN NoTree ELSE Tree("push", 0, <<v, x>>, <<ty>>)

\* Of the elements that push() adds without a value only references to them can
\* be used, and only when the elements are references themselves.
try_storage_reference(v) ==
    LET ty == X!deref_any(v.ty) elem == ElemOf(ty)
        n  == Len(call.args)
    IN CASE IsFixed(ty) -> NoTree
         [] call.name = "push" /\ n = 0 ->
               Tree("push", 0, <<v>>,
                    <<IF X!is_reference_type(elem) THEN SRef(elem) ELSE elem>>)
         [] call.name = "push" /\ n = 1 ->
               Pushed(v, evaluate_argument(call.args[1], elem), Void)
         [] call.name = "pop" /\ n = 0 ->
               Tree("pop", 0, <<v>>, <<IF ty[1] = "array" /\ in.at[1] = "stmt" THEN Void ELSE elem>>)
         [] OTHER -> NoTree

\* The same of an array in memory, where a reference to one has no element type.
try_type_method(v) ==
    LET ty == X!deref_any(v.ty) n == Len(call.args) IN
    CASE ~Dynamic(ty) \/ ty = Str -> NoTree
         [] call.name = "push" /\ v.ty[1] = "ref" -> Panic
         [] call.name = "push" /\ n = 0 -> Tree("push", 0, <<v>>, <<ElemOf(ty)>>)
         [] call.name = "push" /\ n = 1 ->
               Pushed(v, evaluate_argument(call.args[1], ElemOf(ty)), ElemOf(ty))
         [] call.name = "pop" /\ n = 0 ->
               IF v.ty[1] # "array" THEN Panic ELSE Tree("pop", 0, <<v>>, <<v.ty[2]>>)
         [] OTHER -> NoTree

\* The payload is fields, or an array or struct of fixed length.
RawTree(x, data, to) ==
    LET ty == X!deref_any(x.ty) IN
    IF Failed(<<x, data, to>>) \/ ~(ty = Bytes \/ (ty[1] \in {"array", "struct"} /\ ~HasDynamic(ty)))
    THEN NoTree ELSE Tree("raw", 0, <<to, data>>, <<Bytes>>)

RawCall(v) ==
    IF ~parse_call_args \/ (call.name # "call" /\ HasOpt("value")) \/ Len(call.args) # 1 THEN NoTree
    ELSE With(X!resolve_expression(call.args[1], X!Type(Bytes)),
              LAMBDA x : RawTree(x, X!cast(x, X!deref_any(x.ty)), X!cast(v, Address)))

MethodTree(v) ==
    LET ty == X!deref_any(v.ty) IN
    CASE v.k = "err" \/ ~collect_call_args \/ in.const -> NoTree
      [] call.name \in {"push", "pop"} /\ v.ty[1] = "sref" /\ ty[1] \in {"array", "fields"}
            -> try_storage_reference(v)
      [] call.name \in {"push", "pop"} -> try_type_method(v)
      [] call.name \in {"call", "delegatecall", "staticcall"} /\ ty = Address -> RawCall(v)
      [] OTHER -> NoTree

method_call_pos_args ==
    /\ pc = "start" /\ call.form = "method"
    /\ \E v \in {X!resolve_expression(call.on, X!Unknown)} : \E t \in {MethodTree(v)} : Settle(t)
    /\ UNCHANGED <<in, cand, errs, fits, code>>

(***************************************************************************)
(* The place of the call: the value of a variable of some type, a          *)
(* statement, or the right side of a list of types (a destructuring).      *)
(***************************************************************************)
\* Void results are none; the others are converted one by one, to see whether
\* they can be.
destructure_values(returns, tys) ==
    LET rs == IF returns = <<Void>> THEN <<>> ELSE returns IN
    /\ Len(rs) = Len(tys)
    /\ \A i \in DOMAIN tys : X!cast(X!Node("var", rs[i], <<>>), tys[i]).k # "err"

\* ty() asserts that there is one result; named_call_expr checks it first.
Use ==
    /\ pc = "use"
    /\ CASE in.at[1] = "stmt" -> pc' = "irgen" /\ UNCHANGED diag
         [] in.at[1] = "list" ->
               IF destructure_values(tree.returns, in.at[2]) THEN pc' = "irgen" /\ UNCHANGED diag
               ELSE Refuse
         [] in.at[1] = "value" /\ Len(tree.returns) # 1 ->
               IF tree.form = "named" THEN Refuse ELSE pc' = "panic" /\ UNCHANGED diag
         [] OTHER ->
               IF X!cast(X!Node("var", tree.returns[1], <<>>), in.at[2]).k = "err" THEN Refuse
               ELSE pc' = "irgen" /\ UNCHANGED diag
    /\ UNCHANGED <<in, cand, errs, fits, tree, code>>

(***************************************************************************)
(* Code.  values is the number of values emit_function_call returns;       *)
(* callee the function of the module that runs.                            *)
(***************************************************************************)
Code(is, callee, values) == [is |-> is, callee |-> callee, values |-> values]

\* The functions of the module; one of a library is added when it is called
\* (add_external_functions), with the number that follows.
Module == in.fns \o (IF tree.form = "library" THEN <<Library[tree.fn]>> ELSE <<>>)
Own    == IF tree.form = "library" THEN Len(in.fns) + 1 ELSE tree.fn

\* Functions that the module has before those of the contract, with a body.
CoreFunctions == {"heap_malloc", "vector_new", "memcpy", "fields_concat"}

\* A function is declared once for its name, and defined as often as the name
\* is used: the first definition runs.
gen_functions == \A i \in DOMAIN Module : Module[i].name \notin CoreFunctions
Declared(name) == CHOOSE i \in DOMAIN Module :
                      Module[i].name = name /\ \A j \in 1..(i - 1) : Module[j].name # name
Bodies(name) == Cardinality({i \in DOMAIN Module : Module[i].name = name})

\* Arguments that are of the sort their parameter is.
ArgsFit(args, tys) ==
    /\ Len(args) = Len(tys)
    /\ \A i \in DOMAIN args : X!Code(args[i]) = X!Shape(tys[i])

RECURSIVE debug_print(_)
debug_print(ty) ==
    CASE ty[1] \in {"bool", "uint", "field", "enum", "address", "hash", "fields", "string"} -> TRUE
      [] ty[1] \in {"ref", "sref", "array"} -> debug_print(ty[2])
      [] ty = Struct -> \A i \in DOMAIN Fields : debug_print(Fields[i][2])
      [] OTHER -> FALSE

\* One value; there is no code for signature_length.
LibCode ==
    LET f == LibFunctions[tree.fn] a == tree.args IN
    CASE f.name = "print" ->
            Code(IF debug_print(a[1].ty) /\ X!Code(a[1]) \notin X!Bad THEN "ok" ELSE "panic", 0, 1)
      [] f.name = "get_selector" -> Code(IF X!Code(a[1]) = "int" THEN "ok" ELSE "panic", 0, 1)
      [] f.name = "signature_length" -> Code("panic", 0, 1)
      [] OTHER -> Code(IF ArgsFit(a, f.tys) THEN "ok" ELSE "wrong", 0, 1)

\* The results of a call that returns more than one go through memory.
InternalCall ==
    LET f == Module[Own] callee == Declared(f.name) IN
    CASE ~gen_functions -> Code("panic", 0, 0)
      [] ArgsFit(tree.args, Module[callee].tys) ->
            Code("ok", callee, IF Len(f.returns) <= 1 THEN 1 ELSE Len(f.returns))
      [] OTHER -> Code("wrong", callee, 0)

\* Results are decoded when there are some and the first of the tree is not void.
ExternalCall ==
    LET f == External[tree.fn]
        values == IF f.returns # <<>> /\ tree.returns[1] # Void THEN Len(f.returns) ELSE 0
    IN Code(IF ArgsFit(tree.args, <<Contract>> \o f.tys) THEN "ok" ELSE "wrong", tree.fn, values)

\* external_call takes the payload for fields: a length and what follows it.
RawCode == Code(IF tree.args[2].ty = Bytes /\ ArgsFit(tree.args, <<Address, Bytes>>)
                THEN "ok" ELSE "wrong", 0, 1)

\* push and pop of an array in memory are marked as to be done.  What push
\* returns is the slot.
ArrayMethod ==
    CASE X!Code(tree.args[1]) # "slot" -> Code("todo", 0, 1)
      [] tree.form = "push" /\ in.at[1] = "value" /\ tree.returns[1][1] # "sref" -> Code("wrong", 0, 1)
      [] OTHER -> Code("ok", 0, 1)

Types(args) == [i \in DOMAIN args |-> X!deref_any(args[i].ty)]

emit_function_call ==
    CASE tree.form \in {"pos", "named", "library"} -> InternalCall
      [] tree.form = "external" -> ExternalCall
      [] tree.form = "raw" -> RawCode
      [] tree.form = "decode" -> Code("ok", 0, Len(tree.returns))
      [] tree.form = "builtin" -> LibCode
      [] tree.form \in {"push", "pop"} -> ArrayMethod
      [] tree.form = "encode" -> Code(IF ArgsFit(tree.args, Types(tree.args)) THEN "ok" ELSE "wrong", 0, 1)
      [] tree.form = "struct" ->
            Code(IF ArgsFit(tree.args, [i \in DOMAIN Fields |-> Fields[i][2]]) THEN "ok" ELSE "wrong", 0, 1)

\* A value or a statement takes the first value, a destructuring one per type.
Wanted == IF in.at[1] = "list" THEN Len(in.at[2]) ELSE 1

Generate ==
    /\ pc = "irgen" /\ ~diag
    /\ code' = emit_function_call
    /\ pc' = IF code'.is = "panic" \/ code'.values < Wanted THEN "panic" ELSE "done"
    /\ UNCHANGED <<in, cand, errs, fits, diag, tree>>

Next ==
    \/ function_call_expr \/ function_call_pos_args \/ function_call_named_args
    \/ resolve_call \/ contract_call_pos_args \/ NoneLeft
    \/ struct_literal \/ named_struct_literal
    \/ resolve_namespace_call \/ method_call_pos_args
    \/ Use \/ Generate

Spec == Init /\ [][Next]_vars

(***************************************************************************)
(* Properties                                                              *)
(***************************************************************************)
\* Whether the arguments of the call are what f takes, by position or by name.
Fits(f) ==
    /\ Len(f.tys) = Len(call.args)
    /\ call.form = "named" => \A i \in DOMAIN f.ids : f.ids[i] # "" /\ Cardinality(Given(f.ids[i])) = 1
    /\ \A i \in DOMAIN f.tys :
          evaluate_argument(call.args[IF call.form = "named" THEN LastGiven(f.ids[i]) ELSE i],
                            f.tys[i]).k # "err"

Fitting == {i \in DOMAIN Table : Table[i].name = call.name /\ Fits(Table[i])}

\* Each parameter, and each field of a struct, is given the argument with its
\* name or at its position, converted to its type (literals.rs,
\* function_call_named_args).
Source(ids, i) == IF call.names = <<>> THEN call.args[i] ELSE call.args[LastGiven(ids[i])]

PlacedAs(ids, tys) ==
    /\ call.names # <<>> => \A i \in DOMAIN tys : Given(ids[i]) # {}
    /\ tree.args = [i \in DOMAIN tys |-> evaluate_argument(Source(ids, i), tys[i])]

Parameters ==
    IF tree.form = "struct" THEN [ids |-> [i \in DOMAIN Fields |-> Fields[i][1]],
                                  tys |-> [i \in DOMAIN Fields |-> Fields[i][2]]]
    ELSE Table[tree.fn]
ArgsPlaced == tree.form \in {"pos", "library", "named", "struct"} => PlacedAs(Parameters.ids, Parameters.tys)

\* A call goes, with its arguments in their places, to the first function of its
\* name that takes them, and is refused while candidates are tried only if there
\* is none (function_call_pos_args, function_call_named_args, resolve_call); an
\* external call, whose candidates are all tried, is refused if there are several.
FirstFit ==
    /\ pc \in {"use", "irgen", "done"} => ArgsPlaced
    /\ call.form \in Listed /\ pc \in {"use", "refused"} => With(Fitting, LAMBDA fs :
          /\ pc = "use" =>
                /\ ~diag
                /\ tree.fn \in fs
                /\ IF call.form = "external" THEN fs = {tree.fn} ELSE \A i \in fs : tree.fn <= i
          /\ pc = "refused" /\ tree = NoTree /\ ~in.const /\ collect_call_args /\ Options
             /\ Resolvable /\ call.name # "get_selector" =>
                IF call.form = "external" THEN Cardinality(fs) # 1 ELSE fs = {})

\* A call that is accepted has code: the compiler does not stop, the function
\* that runs is the one the call was resolved to, its arguments are values of
\* the sorts it expects, and there are as many results as the place takes
\* (emit_function_call, gen_functions).
CallHasCode ==
    /\ pc # "panic"
    /\ pc = "done" => /\ code.is = "ok"
                      /\ tree.form \in {"pos", "named", "library"} => code.callee = Own
=============================================================================
