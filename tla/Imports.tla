------------------------------ MODULE Imports ------------------------------
(***************************************************************************)
(* Source files that import each other: sema_file and resolve_import of    *)
(* sema/mod.rs, FileResolver::resolve_file, the symbol tables of the       *)
(* namespace and the phases of contracts::resolve.                         *)
(*                                                                         *)
(* A path is the sequence of its components.  A file is a record:          *)
(* imports, a sequence of [spec, as], where as is Plain or the name the    *)
(* file is imported under; contracts, a sequence of records with a name,   *)
(* structs [name, field] (field is the path of a type, <<>> for a number), *)
(* vars (paths of types), fns (signatures) and body, uses [kind, path]     *)
(* of a field of a struct or of a function of a library.                   *)
(***************************************************************************)
EXTENDS Naturals, Sequences, FiniteSets, SequencesExt, FiniteSetsExt, TLC

CONSTANT Inputs     \* records [fs: path -> file, dirs: sequence of paths, top]

VARIABLES
    in,
    files,      \* the paths of the files of the namespace
    contracts,  \* the contracts: [name, file, fns, all, resolved]
    structs,    \* the structs: [name, fields], fields TRUE once resolved
    vsyms,      \* variable_symbols: <<file, contract, name>> -> symbol
    errors,     \* what is reported
    stack       \* calls of sema_file under way

vars == <<in, files, contracts, structs, vsyms, errors, stack>>

Plain  == "plain"
NoContract == 0
Put(f, x, v) == (x :> v) @@ f
Symbol(kind, loc, no) == [kind |-> kind, loc |-> loc, no |-> no]

-----------------------------------------------------------------------------
(* FileResolver.                                                           *)

canonicalize(path) ==
    LET Step(acc, c) == CASE c = "."  -> acc
                          [] c = ".." -> Front(acc)
                          [] OTHER    -> Append(acc, c)
    IN  FoldLeft(Step, <<>>, path)

\* Relative to the file that imports, then along the import paths from the one
\* that file was found by.  The empty set if there is no such file.
resolve_file(parent, spec) ==
    LET n     == Len(in.dirs)
        near  == canonicalize(Front(parent.path) \o spec)
        At(i) == canonicalize(in.dirs[((i + parent.import_no) % n) + 1] \o spec)
        hits  == {i \in 0..(n - 1) : At(i) \in DOMAIN in.fs}
    IN  IF near \in DOMAIN in.fs THEN {[path |-> near, import_no |-> 0]}
        ELSE IF hits = {} THEN {}
        ELSE {[path |-> At(Min(hits)), import_no |-> (Min(hits) + parent.import_no) % n]}

-----------------------------------------------------------------------------
(* The namespace.                                                          *)

\* A name that is taken is an error and stays what it was.
add_symbol(t, file_no, contract_no, name, symbol) ==
    LET key == <<file_no, contract_no, name>>
    IN  IF key \in DOMAIN t.syms THEN [t EXCEPT !.errors = @ \union {"taken"}]
        ELSE [t EXCEPT !.syms = Put(@, key, symbol)]

\* The file names at the front of a path lead to the table of that file.
RECURSIVE ThroughImports(_, _)
ThroughImports(path, file_no) ==
    LET key == <<file_no, NoContract, Head(path)>>
    IN  IF Len(path) > 1 /\ key \in DOMAIN vsyms /\ vsyms[key].kind = "import"
        THEN ThroughImports(Tail(path), vsyms[key].no)
        ELSE [path |-> path, file |-> file_no]

\* The symbol a path stands for in a contract, or the empty set.
resolve_namespace(path, file_no, contract_no) ==
    LET r     == ThroughImports(path, file_no)
        id    == Last(r.path)
        ckey  == <<r.file, NoContract, Head(r.path)>>
        named == ckey \in DOMAIN vsyms /\ vsyms[ckey].kind = "contract"
        c     == IF Len(r.path) = 2 THEN vsyms[ckey].no
                 ELSE IF Len(r.path) < Len(path) THEN NoContract ELSE contract_no
        keys  == <<<<r.file, c, id>>, <<r.file, NoContract, id>>>>
    IN  CASE Len(r.path) > 2 \/ (Len(r.path) = 2 /\ ~named) -> {}
          [] keys[1] \in DOMAIN vsyms -> {vsyms[keys[1]]}
          [] c # NoContract /\ keys[2] \in DOMAIN vsyms -> {vsyms[keys[2]]}
          [] OTHER -> {}

resolve_type(path, file_no, contract_no) ==
    path = <<>> \/ \E s \in resolve_namespace(path, file_no, contract_no) : s.kind \in {"struct", "contract"}

-----------------------------------------------------------------------------
(* sema_file.                                                              *)

Top == Last(stack)
File == in.fs[Top.path]
Jump(pc) == stack' = [stack EXCEPT ![Len(stack)].pc = pc]

\* The numbers contracts get start behind those there are before the file's own
\* are added.
Numbers(cs) == Len(cs)

\* A file is entered: it gets its number, its contracts and their types.
Frame(r) == [path |-> r.path, import_no |-> r.import_no, file_no |-> Len(files) + 1,
             pc |-> "types", k |-> 1, first |-> 0]

Init ==
    /\ in \in Inputs
    /\ files = <<in.top>>
    /\ stack = <<[path |-> in.top, import_no |-> 0, file_no |-> 1, pc |-> "types", k |-> 1, first |-> 0]>>
    /\ contracts = <<>> /\ structs = <<>> /\ vsyms = <<>> /\ errors = {}

resolve_contract(t, def, file_no) ==
    LET no == Len(t.contracts) + 1
        t1 == [t EXCEPT !.contracts = Append(@, [name |-> def.name, file |-> file_no, fns |-> <<>>,
                                                 all |-> {}, resolved |-> 0])]
        t2 == add_symbol(t1, file_no, NoContract, def.name, Symbol("contract", <<file_no, def.name>>, no))
        One(acc, s) ==
            LET r == add_symbol(acc, file_no, no, s.name,
                                Symbol("struct", <<file_no, def.name, s.name>>, Len(acc.structs) + 1))
            IN  IF <<file_no, no, s.name>> \in DOMAIN acc.syms THEN r
                ELSE [r EXCEPT !.structs = Append(@, [name |-> s.name, of |-> no, fields |-> FALSE])]
    IN  FoldLeft(One, t2, def.structs)

resolve_typenames ==
    /\ stack # <<>> /\ Top.pc = "types"
    /\ LET t == FoldLeft(LAMBDA acc, def : resolve_contract(acc, def, Top.file_no),
                         [contracts |-> contracts, structs |-> structs, syms |-> vsyms, errors |-> errors],
                         File.contracts)
       IN  /\ contracts' = t.contracts /\ structs' = t.structs
           /\ vsyms' = t.syms /\ errors' = t.errors
    /\ stack' = [stack EXCEPT ![Len(stack)].pc = "imports", ![Len(stack)].first = Numbers(contracts)]
    /\ UNCHANGED <<in, files>>

\* Everything in the table of the imported file, what it has imported and what
\* is in its contracts included; what is there already is skipped.
PlainImport(t, to, from) ==
    LET One(key, acc) ==
            LET new == <<to, key[2], key[3]>>
            IN  IF new \in DOMAIN acc.syms /\ acc.syms[new] = vsyms[key] THEN acc
                ELSE add_symbol(acc, to, key[2], key[3], vsyms[key])
    IN  FoldSet(One, t, {key \in DOMAIN vsyms : key[1] = from})

\* Only what the file declares itself.
OwnOnly(t, to, from) ==
    LET One(key, acc) ==
            LET new == <<to, key[2], key[3]>>
            IN  IF new \in DOMAIN acc.syms /\ acc.syms[new] = vsyms[key] THEN acc
                ELSE add_symbol(acc, to, key[2], key[3], vsyms[key])
    IN  FoldSet(One, t, {key \in DOMAIN vsyms : key[1] = from /\ vsyms[key].loc[1] = from})
import_exports(t, to, from) == PlainImport(t, to, from)

needs_sema(path) == path \notin ToSet(files)

\* The same import again after an error, or the next one in any case.
Retry(st) == IF Last(st).pc = "loaded" /\ errors # {} THEN st
             ELSE [st EXCEPT ![Len(st)].pc = "imports", ![Len(st)].k = @ + 1]
Advance(st) == [st EXCEPT ![Len(st)].pc = "imports", ![Len(st)].k = @ + 1]

\* One import: the file is entered if it is new, and when it is left the same
\* import goes on, unless there has been an error.
resolve_import ==
    /\ stack # <<>> /\ Top.pc \in {"imports", "loaded"} /\ Top.k <= Len(File.imports)
    /\ LET imp == File.imports[Top.k]
           r   == resolve_file(Top, imp.spec)
           t   == [syms |-> vsyms, errors |-> errors]
           skip == stack' = Advance(stack) /\ UNCHANGED <<vsyms, files>>
       IN  \/ r = {} /\ errors' = errors \union {"not found"} /\ skip
           \/ /\ Top.pc = "loaded" /\ errors # {} /\ skip
              /\ UNCHANGED errors
           \/ \E f \in r : /\ Top.pc = "imports" /\ needs_sema(f.path)
                           /\ files' = Append(files, f.path)
                           /\ stack' = Append([stack EXCEPT ![Len(stack)].pc = "loaded"], Frame(f))
                           /\ UNCHANGED <<vsyms, errors>>
           \/ \E f \in r :
                 LET no == CHOOSE n \in DOMAIN files : files[n] = f.path
                     t1 == IF imp.as = Plain THEN import_exports(t, Top.file_no, no)
                           ELSE add_symbol(t, Top.file_no, NoContract, imp.as,
                                           Symbol("import", <<Top.file_no, imp.as>>, no))
                 IN  /\ \/ Top.pc = "imports" /\ ~needs_sema(f.path)
                        \/ Top.pc = "loaded" /\ errors = {}
                     /\ vsyms' = t1.syms /\ errors' = t1.errors
                     /\ stack' = Advance(stack) /\ UNCHANGED files
    /\ UNCHANGED <<in, contracts, structs>>

\* The numbers of the contracts of this file.
Mine == {Top.first + k : k \in DOMAIN File.contracts}
Def(no) == File.contracts[no - Top.first]

resolve_fields ==
    /\ stack # <<>> /\ Top.pc = "imports" /\ Top.k > Len(File.imports)
    /\ LET bad == \E no \in Mine : \E k \in DOMAIN Def(no).structs :
                      ~resolve_type(Def(no).structs[k].field, Top.file_no, no)
       IN  errors' = IF bad THEN errors \union {"type"} ELSE errors
    /\ structs' = [s \in DOMAIN structs |-> IF structs[s].of \in Mine
                                             THEN [structs[s] EXCEPT !.fields = TRUE] ELSE structs[s]]
    /\ Jump("declare")
    /\ UNCHANGED <<in, files, contracts, vsyms>>

\* A signature is looked for among the functions that have been added, and
\* these are added when all are declared.
signature_exists(no) == ToSet(Def(no).fns) \intersect contracts[no].all # {}

resolve_declarations ==
    /\ stack # <<>> /\ Top.pc = "declare"
    /\ LET bad == \E no \in Mine : \E k \in DOMAIN Def(no).vars :
                      ~resolve_type(Def(no).vars[k], Top.file_no, no)
           twice == \E no \in Mine \intersect DOMAIN contracts : signature_exists(no)
       IN  errors' = errors \union (IF bad THEN {"type"} ELSE {}) \union (IF twice THEN {"twice"} ELSE {})
    /\ contracts' = [c \in DOMAIN contracts |->
                        IF c \in Mine THEN [contracts[c] EXCEPT !.fns = Def(c).fns, !.all = ToSet(Def(c).fns)]
                        ELSE contracts[c]]
    /\ Jump("bodies")
    /\ UNCHANGED <<in, files, structs, vsyms>>

\* A field of a value of a struct type; a function of a contract of this name.
Resolves(use, file_no, contract_no) ==
    IF use.kind = "field"
    THEN \E s \in resolve_namespace(use.path, file_no, contract_no) :
             s.kind = "struct" /\ structs[s.no].fields
    ELSE LET key == <<file_no, NoContract, use.path[1]>>
         IN  /\ key \in DOMAIN vsyms /\ vsyms[key].kind = "contract"
             /\ use.path[2] \in contracts[vsyms[key].no].all

resolve_bodies ==
    /\ stack # <<>> /\ Top.pc = "bodies"
    /\ LET bad == \E no \in Mine : \E k \in DOMAIN Def(no).body :
                      ~Resolves(Def(no).body[k], Top.file_no, no)
       IN  errors' = IF bad THEN errors \union {"body"} ELSE errors
    /\ contracts' = [c \in DOMAIN contracts |->
                        IF c \in Mine THEN [contracts[c] EXCEPT !.resolved = @ + 1] ELSE contracts[c]]
    /\ stack' = Front(stack)
    /\ UNCHANGED <<in, files, structs, vsyms>>

Next ==
    \/ resolve_typenames \/ resolve_import \/ resolve_fields
    \/ resolve_declarations \/ resolve_bodies

Spec == Init /\ [][Next]_vars /\ WF_vars(Next)

-----------------------------------------------------------------------------
(* What a set of files means.                                              *)

Done == stack = <<>>

\* The file an import of file f names: next to f, or in the import paths.
Target(f, imp) ==
    LET near == canonicalize(Front(f) \o imp.spec)
        all  == {canonicalize(in.dirs[d] \o imp.spec) : d \in DOMAIN in.dirs} \intersect DOMAIN in.fs
    IN  IF near \in DOMAIN in.fs THEN {near} ELSE all

Imports(f) == ToSet(in.fs[f].imports)
RECURSIVE ReachFrom(_)
ReachFrom(fs) ==
    LET more == UNION {UNION {Target(f, i) : i \in Imports(f)} : f \in fs} \ fs
    IN  IF more = {} THEN fs ELSE ReachFrom(fs \union more)

\* The files whose names f sees without a prefix: what is imported plainly,
\* however far.
RECURSIVE PlainFrom(_)
PlainFrom(fs) ==
    LET more == UNION {UNION {Target(f, i) : i \in {j \in Imports(f) : j.as = Plain}} : f \in fs} \ fs
    IN  IF more = {} THEN fs ELSE PlainFrom(fs \union more)

\* What the names of f are: a contract of a file, or a file under the name an
\* import gives it.
Means(f) ==
    LET from == PlainFrom({f})
        own(g) == {<<c.name, <<"contract", g>>>> : c \in ToSet(in.fs[g].contracts)}
        as(g)  == {<<i.as, <<"file", g, i.spec>>>> : i \in {j \in Imports(g) : j.as # Plain}}
    IN  UNION {own(g) \union as(g) : g \in from}

Contract(g, name) == CHOOSE c \in ToSet(in.fs[g].contracts) : c.name = name
Structs(c) == {s.name : s \in ToSet(c.structs)}

\* Whether a path names a struct, seen from contract c of file f.
RECURSIVE NamesStruct(_, _, _)
NamesStruct(f, c, path) ==
    CASE Len(path) = 1 -> c # {} /\ \E x \in c : path[1] \in Structs(x)
      [] Len(path) = 2 -> \E m \in Means(f) : /\ m[1] = path[1] /\ m[2][1] = "contract"
                                              /\ path[2] \in Structs(Contract(m[2][2], path[1]))
      [] OTHER -> \E m \in Means(f) : /\ m[1] = path[1] /\ m[2][1] = "file"
                                      /\ \E g \in Target(m[2][2], [spec |-> m[2][3]]) :
                                            NamesStruct(g, {}, Tail(path))

UseOk(f, c, use) ==
    IF use.kind = "field" THEN NamesStruct(f, {c}, use.path)
    ELSE \E m \in Means(f) : /\ m[1] = use.path[1] /\ m[2][1] = "contract"
                             /\ use.path[2] \in ToSet(Contract(m[2][2], m[1]).fns)

ContractOk(f, c) ==
    /\ \A s \in ToSet(c.structs) : s.field = <<>> \/ NamesStruct(f, {c}, s.field)
    /\ \A v \in ToSet(c.vars) : NamesStruct(f, {c}, v)
    /\ \A u \in ToSet(c.body) : UseOk(f, c, u)
    /\ IsInjective(c.fns)

FileOk(f) ==
    /\ \A i \in Imports(f) : Target(f, i) # {}
    /\ \A m, n \in Means(f) : m[1] = n[1] => m = n
    /\ IsInjective([k \in DOMAIN in.fs[f].contracts |-> in.fs[f].contracts[k].name])
    /\ \A c \in ToSet(in.fs[f].contracts) : ContractOk(f, c)

\* The files are accepted exactly when every import leads to a file, every
\* name means one thing, no function is there twice and every type, field and
\* function that is used is there, whatever the order in which the files are
\* read (sema).  Then each file was read once, though it is reached by several
\* ways or by itself (resolve_import), and each contract resolved once, though
\* files in between have added contracts of their own (contracts_to_resolve).
AcceptedRight ==
    Done =>
        /\ (errors = {}) <=> \A f \in ReachFrom({in.top}) : FileOk(f)
        /\ errors = {} => /\ IsInjective(files)
                          /\ \A c \in ToSet(contracts) : c.resolved = 1

\* Reading ends, whatever imports what (sema_file, resolve_import).
Ends == <>Done
=============================================================================
