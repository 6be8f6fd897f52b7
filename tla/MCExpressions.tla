--------------------------- MODULE MCExpressions ---------------------------
(***************************************************************************)
(* Expressions: their types and code, the constants among them, and calls. *)
(* Each part compiles one expression in a behaviour; part names it, and    *)
(* the variables of the other parts are idle.  Calls are compiled twice,   *)
(* overloaded ones to see which function is found ("resolve") and others   *)
(* to see what code they get ("code").                                     *)
(***************************************************************************)
EXTENDS Integers, Sequences

CONSTANTS Parts,
          TypeInputs, TypeEnv, TypeFields,
          ResolveInputs, CodeInputs, CallEnv, CallFields, Library, External,
          W, MaxExp, ExpBits, MinusBits, Exprs

ASSUME ExpressionsAssumption ==
    MaxExp \in Nat /\ {W, ExpBits, MinusBits} \subseteq Nat \ {0}

VARIABLES part, pc,
          in, ast, code,                     \* types; calls too, but for ast
          cand, errs, fits, diag, tree,      \* calls
          expr, value, errors, dim, result   \* constants

T == INSTANCE ExprTypes WITH Inputs <- TypeInputs, Env <- TypeEnv, Fields <- TypeFields
R == INSTANCE Calls WITH Inputs <- ResolveInputs, Env <- CallEnv, Fields <- CallFields
G == INSTANCE Calls WITH Inputs <- CodeInputs, Env <- CallEnv, Fields <- CallFields
F == INSTANCE ConstFold

callVars == <<cand, errs, fits, diag, tree>>
foldVars == <<expr, value, errors, dim, result>>
vars == <<part, pc, in, ast, code, callVars, foldVars>>

NoCall == cand = 0 /\ errs = 0 /\ fits = 0 /\ diag = 0 /\ tree = 0
NoFold == expr = 0 /\ value = 0 /\ errors = 0 /\ dim = 0 /\ result = 0

Init ==
    /\ part \in Parts
    /\ \/ part = "types" /\ T!Init /\ NoCall /\ NoFold
       \/ part = "resolve" /\ R!Init /\ ast = 0 /\ NoFold
       \/ part = "code" /\ G!Init /\ ast = 0 /\ NoFold
       \/ part = "fold" /\ F!Init /\ in = 0 /\ ast = 0 /\ code = 0 /\ NoCall

TypeStep == part = "types" /\ T!Next /\ UNCHANGED <<part, callVars, foldVars>>
CallStep == part \in {"resolve", "code"} /\ G!Next /\ UNCHANGED <<part, ast, foldVars>>
FoldStep == part = "fold" /\ F!Next /\ UNCHANGED <<part, in, ast, code, callVars>>

Next == TypeStep \/ CallStep \/ FoldStep
Spec == Init /\ [][Next]_vars

----------------------------------------------------------------------------
TypeExamples == INSTANCE MCExprTypes
CallExamples == INSTANCE MCCalls

MCTypeInputs    == TypeExamples!MCInputs
MCTypeEnv       == TypeExamples!MCEnv
MCTypeFields    == TypeExamples!MCFields
MCResolveInputs == CallExamples!MCResolve
MCCodeInputs    == CallExamples!MCCode
MCCallEnv       == CallExamples!MCEnv
MCCallFields    == CallExamples!MCFields
MCLibrary       == CallExamples!MCLibrary
MCExternal      == CallExamples!MCExternal

\* Every expression of two levels over a few literals and a variable.  Powers and
\* shifts have literal operands, small enough not to pass the modulus (57 for
\* words of three bits).
N(n)   == <<"num", n>>
X      == <<"var">>
Leaves == {N(0), N(1), N(3), N(7), X}
Sums   == {"add", "sub", "mul", "div", "mod", "and", "or", "xor"}
Powers == ({"pow"} \X {N(0), N(1), N(3), X} \X {N(0), N(2), N(3)})
          \cup ({"shl", "shr"} \X {N(1), N(6), X} \X {N(0), N(2), N(5)})
One    == (Sums \X Leaves \X Leaves) \cup Powers \cup {<<"bitnot", X>>}
MCExprs == One \cup Leaves \cup {<<"bitnot", e>> : e \in {X} \cup (Sums \X {N(3), X} \X {N(7), X})}
           \cup (Sums \X One \X Leaves)
           \cup (Sums \X {N(3), X} \X One)

----------------------------------------------------------------------------
\* Types (sema/expression against irgen/expression.rs): an expression that is
\* accepted has code, whose value is of the sort its type says.
CodeMatchesType == part = "types" => T!CodeMatchesType

\* Types (check_subarrays against irgen): the elements of an array literal are
\* stored where the indices of the source find them.
LiteralPlaced == part = "types" => T!LiteralPlaced

\* Constants (sema/eval.rs against irgen/u32_op.rs): an accepted constant has the
\* value that the program computes and that a dimension would have, and what is
\* refused would stop the program.
FoldedIsComputed == part = "fold" => F!FoldedIsComputed

\* Calls (sema/expression/function_call.rs): a call goes to the first function of
\* its name that takes its arguments, each in the place of its name or position.
FirstFit == part = "resolve" => R!FirstFit

\* Calls (emit_function_call, gen_functions of irgen): a call that is accepted has
\* code, which runs the function that was found.
CallHasCode == part = "code" => G!CallHasCode
=============================================================================
