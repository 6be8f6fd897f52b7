------------------------------ MODULE Structs ------------------------------
(***************************************************************************)
(* Struct declarations once their field types are resolved                 *)
(* (sema/types.rs, resolve_fields): find_struct_recursion marks fields     *)
(* that lead back to their struct and fields that would make it endless,   *)
(* struct_offsets then repeats its passes over all structs until the       *)
(* offsets of the fields stay the same.                                    *)
(*                                                                         *)
(* The edges of the graph of structs come out of a hash set, so the order  *)
(* in which structs are visited and the cycle that is found first are      *)
(* choices of the model.                                                   *)
(***************************************************************************)
EXTENDS Integers, Sequences, FiniteSets, FiniteSetsExt, SequencesExt

CONSTANTS
    Programs      \* sequences of structs; a struct is a sequence of fields

(***************************************************************************)
(* A field type: a word, a mapping between words, or a struct, a dynamic   *)
(* array, an array of FixedLen, or a mapping of structs.                   *)
(***************************************************************************)
FixedLen == 2

VARIABLES
    structs,     \* the program
    recursive, infinite,   \* sets of <<struct, field>>: the two flags
    todo,        \* the nodes find_struct_recursion has still to visit
    paths,       \* the simple paths to the node visited, not yet walked
    phase,       \* "find", "walk", "offsets", "done", "panic", "overflow"
    cursor, changes,       \* struct_offsets: the next struct, its flag
    offsets, storage_offsets

vars == <<structs, recursive, infinite, todo, paths, phase, cursor, changes,
          offsets, storage_offsets>>

Structs   == 1..Len(structs)
Fields(n) == 1..Len(structs[n])
HasStruct(ty) == ty.k \in {"direct", "dyn", "fixed", "map"}

\* The edges <<a, b, f>>: field f of a leads to struct b.
collect_struct_edges ==
    {<<a, structs[a][f].to, f>> :
        <<a, f>> \in {<<a, f>> \in Structs \X (1..3) :
                        f \in Fields(a) /\ HasStruct(structs[a][f])}}

Edges       == collect_struct_edges
node_count  == Max({0} \cup {e[1] : e \in Edges} \cup {e[2] : e \in Edges})
edges_connecting(a, b) == {e \in Edges : e[1] = a /\ e[2] = b}

\* The paths from a to b of at most len edges that visit no node twice, but
\* for an end that may be the start.
all_simple_paths(a, b, len) ==
    LET N == node_count
        E == {<<e[1], e[2]>> : e \in Edges}
    IN  {p \in UNION {[1..k -> 1..N] : k \in 2..(N + 1)} :
            /\ p[1] = a /\ p[Len(p)] = b
            /\ Len(p) - 1 <= len
            /\ \A i, j \in 1..(Len(p) - 1) : i # j => p[i] # p[j]
            /\ \A i \in 2..(Len(p) - 1) : p[i] # b
            /\ \A i \in 1..(Len(p) - 1) : <<p[i], p[i + 1]>> \in E}

\* mutant: the bound petgraph takes by default
CyclesShort(n) == all_simple_paths(n, n, Max({node_count - 1, 1}))

Cycles(n)  == all_simple_paths(n, n, node_count + 1)
\* without a bound petgraph looks for paths of fewer edges than nodes
PathsTo(n) == UNION {all_simple_paths(a, n, Max({node_count - 1, 1})) :
                        a \in Structs}

-----------------------------------------------------------------------------
\* Only a struct held directly makes its holder endless.
Endless(ty) == ty.k = "direct"

Offenders(cycle) ==
    {<<e[1], e[3]>> : e \in {e \in Edges :
        /\ \E i \in 1..(Len(cycle) - 1) : e[1] = cycle[i] /\ e[2] = cycle[i + 1]
        /\ Endless(structs[e[1]][e[3]])}}

check_infinite_struct_size(cycle) ==
    IF \A i \in 1..(Len(cycle) - 1) :
         \E e \in edges_connecting(cycle[i], cycle[i + 1]) :
            Endless(structs[e[1]][e[3]])
    THEN infinite \cup Offenders(cycle)
    ELSE infinite

\* Walking a path marks every field on it, from its start on.
RECURSIVE Walk(_, _, _)
Walk(path, i, inf) ==
    IF i = Len(path) THEN inf
    ELSE LET here == {<<e[1], e[3]>> :
                        e \in edges_connecting(path[i], path[i + 1])}
             next == IF \E f \in Fields(path[i + 1]) : <<path[i + 1], f>> \in inf
                     THEN inf \cup here ELSE inf
         IN  Walk(path, i + 1, next)

FieldsOn(path) ==
    {<<e[1], e[3]>> : e \in {e \in Edges :
        \E i \in 1..(Len(path) - 1) : e[1] = path[i] /\ e[2] = path[i + 1]}}

-----------------------------------------------------------------------------
(* Sizes *)

\* A mapping has no size in memory; a size of 0 stands for a struct whose
\* offsets are not there yet.
storage_size(ty) ==
    LET of(n) == IF offsets[n] = <<>> THEN 0 ELSE Last(offsets[n])
    IN  CASE ty.k = "fixed"            -> FixedLen * of(ty.to)
          [] ty.k \in {"direct", "dyn"} -> of(ty.to)
          [] OTHER                     -> 1

\* the fields that take slots
Counted(n) == {f \in Fields(n) : <<n, f>> \notin infinite}

\* the structs storage_slots calls itself for: arrays count their elements
\* whether or not their length is known
SlotsDeep(n) == {structs[n][f].to : f \in {f \in Counted(n) :
                   structs[n][f].k \in {"direct", "dyn", "fixed"}}}

RECURSIVE Below(_)
Below(S) == LET T == S \cup UNION {SlotsDeep(n) : n \in S}
            IN  IF T = S THEN S ELSE Below(T)
SlotsEndless(n) == \E m \in Below({n}) : m \in Below(SlotsDeep(m))

RECURSIVE struct_slots(_)
storage_slots(ty) ==
    CASE ty.k \in {"direct", "dyn"} -> struct_slots(ty.to)
      [] ty.k = "fixed"             -> FixedLen * struct_slots(ty.to)
      [] OTHER                      -> 1
struct_slots(n) ==
    FoldSet(LAMBDA f, acc : acc + storage_slots(structs[n][f]), 0, Counted(n))

\* the fields the size of a struct in memory is made of
InMemory(n) == {f \in Fields(n) : <<n, f>> \notin recursive}

\* The offset of each field in memory and the overall size
new_offsets(n) ==
    [i \in 1..(Len(structs[n]) + 1) |->
        FoldSet(LAMBDA f, acc : acc + storage_size(structs[n][f]), 0,
                {f \in InMemory(n) : f < i})]

\* The offsets in storage: fields of endless size have none.
new_storage_offsets(n) ==
    LET kept == SetToSortSeq(Counted(n), <)
    IN  [i \in 1..(Len(kept) + 1) |->
            FoldSet(LAMBDA j, acc : acc + storage_slots(structs[n][kept[j]]), 0,
                    1..(i - 1))]

\* align_of takes the largest alignment of the fields, of the structs inside
\* as well: there must be one.
RECURSIVE Inside(_)
Inside(S) == LET T == S \cup UNION {{structs[n][f].to : f \in
                           {f \in InMemory(n) : structs[n][f].k = "direct"}} :
                           n \in S}
             IN  IF T = S THEN S ELSE Inside(T)
NoAlignment(n) == \E f \in Fields(n) :
    /\ structs[n][f].k = "direct"
    /\ \E m \in Inside({structs[n][f].to}) : structs[m] = <<>>
NoSize(n) == \E f \in InMemory(n) : structs[n][f].k \in {"map", "mapw"}

-----------------------------------------------------------------------------
Init ==
    /\ structs \in Programs
    /\ recursive = {} /\ infinite = {}
    /\ todo = {e[1] : e \in Edges} \cup {e[2] : e \in Edges}
    /\ paths = {}
    /\ phase = "find"
    /\ cursor = 1 /\ changes = FALSE
    /\ offsets = [n \in Structs |-> <<>>]
    /\ storage_offsets = [n \in Structs |-> <<>>]

\* One node: the first cycle found through it, then the paths that lead to it
find_struct_recursion(n) ==
    /\ phase = "find"
    /\ n \in todo
    /\ todo' = todo \ {n}
    /\ IF Cycles(n) = {}
       THEN UNCHANGED <<infinite, paths, phase>>
       ELSE /\ \E cycle \in Cycles(n) :
                  infinite' = check_infinite_struct_size(cycle)
            /\ paths' = PathsTo(n)
            /\ phase' = "walk"
    /\ UNCHANGED <<structs, recursive, cursor, changes, offsets, storage_offsets>>

\* The paths are walked struct by struct.
check_recursive_struct_field(path) ==
    /\ phase = "walk"
    /\ path \in paths
    /\ \A q \in paths : path[1] <= q[1]
    /\ recursive' = recursive \cup FieldsOn(path)
    /\ infinite' = Walk(path, 1, infinite)
    /\ paths' = paths \ {path}
    /\ UNCHANGED <<structs, todo, phase, cursor, changes, offsets, storage_offsets>>

Walked ==
    /\ phase = "walk" /\ paths = {}
    /\ phase' = "find"
    /\ UNCHANGED <<structs, recursive, infinite, todo, paths, cursor, changes,
                   offsets, storage_offsets>>

Found ==
    /\ phase = "find" /\ todo = {}
    /\ phase' = "offsets"
    /\ UNCHANGED <<structs, recursive, infinite, todo, paths, cursor, changes,
                   offsets, storage_offsets>>

\* mutant: only the storage offsets are compared
ChangedStorage(n) == storage_offsets[n] # new_storage_offsets(n)

Changed(n) == \/ offsets[n] # new_offsets(n)
              \/ storage_offsets[n] # new_storage_offsets(n)

\* One struct of a pass.
struct_offsets ==
    /\ phase = "offsets"
    /\ cursor <= Len(structs)
    /\ IF NoAlignment(cursor) \/ NoSize(cursor)
       THEN /\ phase' = "panic"
            /\ UNCHANGED <<offsets, storage_offsets, changes, cursor>>
       ELSE IF \E m \in SlotsDeep(cursor) : SlotsEndless(m)
       THEN /\ phase' = "overflow"
            /\ UNCHANGED <<offsets, storage_offsets, changes, cursor>>
       ELSE /\ offsets' = [offsets EXCEPT ![cursor] = new_offsets(cursor)]
            /\ storage_offsets' =
                 [storage_offsets EXCEPT ![cursor] = new_storage_offsets(cursor)]
            /\ changes' = (changes \/ Changed(cursor))
            /\ cursor' = cursor + 1
            /\ UNCHANGED phase
    /\ UNCHANGED <<structs, recursive, infinite, todo, paths>>

\* The end of a pass: another one if something changed.
EndPass ==
    /\ phase = "offsets"
    /\ cursor > Len(structs)
    /\ phase' = IF changes THEN "offsets" ELSE "done"
    /\ cursor' = 1
    /\ changes' = FALSE
    /\ UNCHANGED <<structs, recursive, infinite, todo, paths, offsets,
                   storage_offsets>>

Ended == phase \in {"done", "panic", "overflow"} /\ UNCHANGED vars

Next == \/ \E n \in Structs : find_struct_recursion(n)
        \/ \E path \in paths : check_recursive_struct_field(path)
        \/ Walked \/ Found
        \/ struct_offsets \/ EndPass \/ Ended

Spec == Init /\ [][Next]_vars /\ WF_vars(Next)

-----------------------------------------------------------------------------
(* What the sizes of structs really are *)

\* A struct holds another one for good, directly or as a fixed array.
Holds(n)   == {structs[n][f].to : f \in {f \in Fields(n) :
                  structs[n][f].k \in {"direct", "fixed"}}}
RECURSIVE Held(_)
Held(S)    == LET T == S \cup UNION {Holds(n) : n \in S}
              IN  IF T = S THEN S ELSE Held(T)
EndlessStruct(n) == \E m \in Held({n}) : m \in Held(Holds(m))

\* The program has no struct that leads back to itself in two ways, and
\* none that does so through a fixed array.
OneWayBack ==
    /\ \A n \in Structs : Cardinality(Cycles(n)) <= 1
    /\ \A e \in Edges : structs[e[1]][e[3]].k = "fixed" =>
          \A c \in UNION {Cycles(n) : n \in Structs} :
             ~\E i \in 1..(Len(c) - 1) : c[i] = e[1] /\ c[i + 1] = e[2]
NoArrayBack ==
    \A e \in Edges : structs[e[1]][e[3]].k = "dyn" =>
       \A n \in Structs : \A c \in Cycles(n) :
          ~\E i \in 1..(Len(c) - 1) : c[i] = e[1] /\ c[i + 1] = e[2]

(***************************************************************************)
(* A program is rejected for a struct of infinite size only if one of its  *)
(* structs does contain itself, mappings and arrays that lead back are no  *)
(* reason; and it is rejected then, whatever order the structs are visited *)
(* in, where no struct leads back to itself in two ways                    *)
(* (find_struct_recursion, check_infinite_struct_size).                    *)
(***************************************************************************)
Searched == phase \notin {"find", "walk"}
InfiniteFound ==
    LET endless == \E n \in Structs : EndlessStruct(n)
    IN  /\ infinite # {} => endless
        /\ Searched /\ OneWayBack /\ endless => infinite # {}

(***************************************************************************)
(* The passes over the structs come to an end, and then the offset of each *)
(* field behind another agrees with the final size of that one: no offset  *)
(* is left over from a pass in which a struct behind it had no size yet.   *)
(* Counting slots recurses without end only for a struct that leads back   *)
(* to itself in two ways or through an array (struct_offsets).             *)
(***************************************************************************)
Settled ==
    \A n \in Structs :
        /\ offsets[n] = new_offsets(n)
        /\ Last(storage_offsets[n]) = struct_slots(n)

AtRest ==
    \/ phase = "panic"
    \/ phase = "done" /\ Settled
    \/ phase = "overflow" /\ ~(OneWayBack /\ NoArrayBack)
============================================================================
