----------------------------- MODULE MCFrontEnd -----------------------------
(***************************************************************************)
(* From source files to the statements of a function: the files that       *)
(* import each other, the structs they declare, the names of the local     *)
(* variables and the control flow.  The compiler does these one after the  *)
(* other and each leaves the others' results alone, so a behaviour is a    *)
(* behaviour of one of them, named by part; the variables of the others    *)
(* are idle.  Parts selects the parts a configuration looks at.            *)
(***************************************************************************)
EXTENDS Naturals, Sequences

CONSTANTS Parts, Inputs, Programs, Sources, TypeOf, MaxPasses, Functions

VARIABLES part,
          in, files, contracts, vsyms, errors, stack,        \* imports
          structs,                                           \* imports, structs
          recursive, infinite, todo, paths, cursor, changes,
          offsets, storage_offsets,                          \* structs
          phase,                                             \* all but imports
          fn, i, sym, diag, table, code, mem, env, passes, got, want,  \* bindings
          body,                                              \* bindings, statements
          func, cfg, at, rest                                \* statements

I == INSTANCE MCImports
D == INSTANCE Structs
B == INSTANCE MCBindings
S == INSTANCE MCStatements

(* The files, structs and functions compiled. *)
Files     == INSTANCE MCImports WITH Inputs <- {}
Scopes    == INSTANCE MCBindings WITH Sources <- {}, TypeOf <- <<>>, MaxPasses <- 0
Bodies    == INSTANCE MCStatements WITH Functions <- {}

MCInputs         == Files!MCInputs
MCSources        == Scopes!MCSources
MCTypeOf         == Scopes!MCTypeOf
MCFunctions      == Bodies!MCFunctions
AfterDoFunctions == Bodies!AfterDoFunctions

(* Two structs, one of up to two fields of every kind, and three structs   *)
(* with chosen fields.                                                     *)
Ty(k, n) == [k |-> k, to |-> n]
Word     == Ty("word", 0)
Map      == Ty("mapw", 0)
Kinds    == {Word, Map} \cup {Ty(k, n) : k \in {"direct", "dyn", "fixed", "map"}, n \in 1..2}
Three    == {Word} \cup {Ty(k, n) : k \in {"direct", "map"}, n \in 1..3}

MCPrograms ==
    {<<a, b>> : a \in {<<>>} \cup {<<x>> : x \in Kinds}
                      \cup {<<x, y>> : x \in Kinds,
                                      y \in {Word, Map, Ty("direct", 2), Ty("dyn", 1), Ty("fixed", 2)}},
                b \in {<<>>} \cup {<<x>> : x \in Kinds}
                      \cup {<<x, Ty("direct", 1)>> : x \in {Word, Ty("map", 2)}}}
    \cup {<<a, b, c>> : a \in {<<x>> : x \in Three},
                        b \in {<<x, Word>> : x \in Three},
                        c \in {<<x, y>> : x \in Three, y \in {Word, Ty("direct", 1)}}}

ASSUME FrontEndAssumption ==
  /\ \A x \in DOMAIN TypeOf : TypeOf[x] \in B!Types
  /\ MaxPasses \in Nat

importVars == <<in, files, contracts, vsyms, errors, stack>>
structVars == <<recursive, infinite, todo, paths, cursor, changes, offsets, storage_offsets>>
bindVars == <<fn, i, sym, diag, table, code, mem, env, passes, got, want>>
flowVars == <<func, cfg, at, rest>>
vars == <<part, importVars, structs, structVars, phase, bindVars, body, flowVars>>

NoImports == /\ in = 0 /\ files = 0 /\ contracts = 0 /\ vsyms = 0 /\ errors = 0
             /\ stack = <<0>>
NoStructs == /\ recursive = 0 /\ infinite = 0 /\ todo = 0 /\ paths = 0 /\ cursor = 0
             /\ changes = 0 /\ offsets = 0 /\ storage_offsets = 0
NoBindings == /\ fn = 0 /\ i = 0 /\ sym = 0 /\ diag = 0 /\ table = 0 /\ code = 0
              /\ mem = 0 /\ env = 0 /\ passes = 0 /\ got = 0 /\ want = 0
NoFlow == func = 0 /\ cfg = 0 /\ at = 0 /\ rest = 0

Init ==
  /\ part \in Parts
  /\ \/ part = "imports" /\ I!Init /\ NoStructs /\ NoBindings /\ NoFlow
        /\ phase = "idle" /\ body = 0
     \/ part = "structs" /\ D!Init /\ NoImports /\ NoBindings /\ NoFlow /\ body = 0
     \/ part = "bindings" /\ B!Init /\ NoImports /\ NoStructs /\ NoFlow /\ structs = 0
     \/ part = "statements" /\ S!Init /\ NoImports /\ NoStructs /\ NoBindings /\ structs = 0

ImportStep == part = "imports" /\ I!Next
              /\ UNCHANGED <<part, structVars, phase, bindVars, body, flowVars>>
StructStep == part = "structs" /\ D!Next
              /\ UNCHANGED <<part, importVars, bindVars, body, flowVars>>
BindingStep == part = "bindings" /\ B!Next
               /\ UNCHANGED <<part, importVars, structs, structVars, flowVars>>
StatementStep == part = "statements" /\ S!Next
                 /\ UNCHANGED <<part, importVars, structs, structVars, bindVars>>

Next == ImportStep \/ StructStep \/ BindingStep \/ StatementStep

(* The compiler goes on while it can. *)
Spec == Init /\ [][Next]_vars /\ WF_vars(ImportStep) /\ WF_vars(StructStep)

----------------------------------------------------------------------------
(* Imports (sema): the files are accepted exactly when every import, type, *)
(* field and function that is used is there and every name means one       *)
(* thing, whatever the order of reading; then each file was read and each  *)
(* contract resolved once (resolve_import, contracts_to_resolve).          *)
AcceptedRight == part = "imports" => I!AcceptedRight

(* Imports (sema_file): reading ends, whatever imports what.               *)
Ends == part = "imports" => I!Ends

(* Structs (find_struct_recursion, check_infinite_struct_size of           *)
(* sema/types.rs): a program is rejected for an infinite struct if and,    *)
(* where structs lead back in one way, only if a struct contains itself.   *)
InfiniteFound == part = "structs" => D!InfiniteFound

(* Structs (struct_offsets): the passes over the structs come to an end    *)
(* with offsets that agree with the final sizes of the fields.             *)
OffsetsSettle == <>(part = "structs" => D!AtRest)

(* Names (sema/symtable.rs, sema/statements.rs): the resolver accepts the  *)
(* functions whose names are declared, visible and declared once, and a    *)
(* use has the number of the declaration it means.                         *)
ScopesRespected == part = "bindings" => B!ScopesRespected

(* Names (irgen/statements.rs): a function that is accepted gets code, and *)
(* the code reads of a variable what was last assigned to it.              *)
ReadsLastWrite == part = "bindings" => B!ReadsLastWrite

(* Statements (irgen/statements.rs): whatever the conditions turn out to   *)
(* be, the blocks evaluate what the statements call for, in their order.   *)
SameTrace == part = "statements" => S!SameTrace
=============================================================================
