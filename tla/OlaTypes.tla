------------------------------ MODULE OlaTypes ------------------------------
(***************************************************************************)
(* The types of the language (Type of sema/ast.rs).  A type is a tuple     *)
(* that starts with its name.  Ref and SRef are references to memory and   *)
(* to storage; a dimension of 0 is a dynamic one.  NoType stands for the   *)
(* type of what could not be resolved.                                     *)
(***************************************************************************)
Uint(n)  == <<"uint", n>>
U32      == Uint(32)
Field    == <<"field">>
Bool     == <<"bool">>
Address  == <<"address">>
Hash     == <<"hash">>
Str      == <<"string">>
Bytes    == <<"fields">>
Enum     == <<"enum">>
Struct   == <<"struct">>
Contract == <<"contract">>
Void     == <<"void">>
NoType   == <<"none">>
Ref(t)   == <<"ref", t>>
SRef(t)  == <<"sref", t>>
Array(t, dims)  == <<"array", t, dims>>
Mapping(key, t) == <<"mapping", t, key>>
=============================================================================
