------------------------------ MODULE Bindings ------------------------------
(***************************************************************************)
(* The local variables of a function, from their names to their places.    *)
(* sema/statements.rs gives every declared name a number with the scopes   *)
(* of sema/symtable.rs; irgen keeps, while it writes the code, a table     *)
(* that takes the number to a stack cell or to a value; the code runs with *)
(* neither.  All three passes go through the statements in the same order, *)
(* so a function is a sequence of statements in which `if', `else',        *)
(* `while', `block' and `end' mark where a scope opens and closes.         *)
(*                                                                         *)
(* The finished code is run next to a reading of the source by names, for  *)
(* every outcome of the conditions.  A value is known by the place in the  *)
(* source that makes it.  What expressions compute (ExprTypes), calls      *)
(* (Calls) and jumps (Statements) are the business of other modules.       *)
(***************************************************************************)
EXTENDS Naturals, Sequences, FiniteSets, SequencesExt, FiniteSetsExt, Functions, TLC

CONSTANTS
    Sources,     \* records [params, returns, body]
    TypeOf,      \* the type every declaration of a name gives it
    MaxPasses    \* bound on the passes through loops of one run

(***************************************************************************)
(* Types: "int" is a number, "addr" an address or a hash (a word that is a *)
(* pointer), "ref" a string, fields or dynamic array, "mem" a struct or an *)
(* array of fixed length.                                                  *)
(***************************************************************************)
Types == {"int", "addr", "ref", "mem"}

VARIABLES
    fn,       \* the function compiled
    phase,    \* "sema", "irgen", "run", "done", "rejected" or "panic"
    i,        \* the statement the phase is at
    sym,      \* [names: the scopes, vars: number -> name, next_id]
    body,     \* the resolved statements
    diag,     \* whether an error was reported
    table,    \* var_table: number -> cell or value
    code,     \* per statement the alternatives, sequences of instructions
    mem,      \* [ssa, cell]: what the running code has computed and stored
    env,      \* what the source reading has: <<declaration, name>> -> value
    passes,   \* loop passes so far
    got,      \* the values the code has used in the last statement
    want      \* the values it should have used

vars == <<fn, phase, i, sym, body, diag, table, code, mem, env, passes, got, want>>
genVars == <<table, code>>
runVars == <<mem, env, passes, got, want>>

\* Statements and expressions as the parser leaves them.
Lit             == [var |-> FALSE, init |-> TRUE]
NoInit          == [var |-> FALSE, init |-> FALSE]
Var(x)          == [var |-> TRUE, x |-> x]
Decl(x, e)      == [op |-> "decl", x |-> x, e |-> e]
Set(x, e)       == [op |-> "set", x |-> x, e |-> e]
Destr(fs, rhs)  == [op |-> "destr", fields |-> fs, rhs |-> rhs]   \* two lists: a conditional
Skip            == [is |-> "none"]
New(x)          == [is |-> "new", x |-> x]
Old(x)          == [is |-> "old", x |-> x]
Use(x)          == [op |-> "use", e |-> Var(x)]
Ret(es)         == [op |-> "return", es |-> es]
Mark(op)        == [op |-> op]

IsRef(ty) == ty \in {"ref", "mem"}

Opens(tok)  == tok.op \in {"block", "if", "while"}
Closes(tok) == tok.op = "end"

-----------------------------------------------------------------------------
(* Resolution: Symtable and sema/statements.rs.                            *)

\* The innermost scope only.
FindLast(names, x) == IF x \in DOMAIN Last(names) THEN Last(names)[x] ELSE 0

\* The outermost scope that has the name.
find(names, x) ==
    LET in == {k \in DOMAIN names : x \in DOMAIN names[k]}
    IN  IF in = {} THEN 0 ELSE names[Min(in)][x]

\* The entry is made before the name is looked up; a name that is taken in
\* any open scope is an error and the entry stays without a name.
add(st, x) ==
    LET pos == st.next_id
        st1 == [st EXCEPT !.next_id = @ + 1, !.vars = @ @@ (pos :> x)]
    IN  CASE x = "" -> st1
          [] x # "" /\ find(st.names, x) # 0 -> [st1 EXCEPT !.err = TRUE]
          [] OTHER -> [st1 EXCEPT !.names[Len(st.names)] = @ @@ (x :> pos)]

new_scope(names)   == Append(names, <<>>)
leave_scope(names) == Front(names)

\* An expression with the number of its variable; 0 is "not found".
Bound(names, e) ==
    IF e.var THEN [var |-> TRUE, pos |-> find(names, e.x), ty |-> TypeOf[e.x]] ELSE e
Unbound(e) == e.var /\ e.pos = 0

\* Parameters and return values come first, a return value may have no name.
Init ==
    /\ fn \in Sources
    /\ LET st == FoldLeft(add, [names |-> <<<<>>>>, vars |-> <<>>, next_id |-> 1, err |-> FALSE],
                          fn.params \o fn.returns)
       IN  /\ sym = [names |-> new_scope(st.names), vars |-> st.vars, next_id |-> st.next_id]
           /\ diag = st.err
    /\ phase = "sema" /\ i = 1 /\ body = <<>>
    /\ table = <<>> /\ code = <<>>
    /\ mem = [ssa |-> <<>>, cell |-> <<>>] /\ env = <<>> /\ passes = 0
    /\ got = <<>> /\ want = <<>>

AtStmt(ph, ops) == phase = ph /\ i <= Len(fn.body) /\ fn.body[i].op \in ops

\* A statement is resolved: an error in an expression stops the function.
Resolved(st, tok, stop) ==
    /\ sym' = [names |-> st.names, vars |-> st.vars, next_id |-> st.next_id]
    /\ diag' = (diag \/ st.err \/ stop)
    /\ body' = Append(body, tok)
    /\ i' = i + 1
    /\ phase' = IF stop THEN "rejected" ELSE phase
    /\ UNCHANGED <<fn, genVars, runVars>>

St == [names |-> sym.names, vars |-> sym.vars, next_id |-> sym.next_id, err |-> FALSE]

\* The initial value is resolved before the name is declared.
VariableDefinition ==
    /\ AtStmt("sema", {"decl"})
    /\ LET tok == fn.body[i]
           e   == Bound(sym.names, tok.e)
           st  == IF Unbound(e) THEN St ELSE add(St, tok.x)
       IN  Resolved(st, [op |-> "decl", pos |-> sym.next_id, ty |-> TypeOf[tok.x], e |-> e],
                    Unbound(e))

assign_single_sema ==
    /\ AtStmt("sema", {"set"})
    /\ LET tok == fn.body[i]
           e   == Bound(sym.names, tok.e)
           pos == find(sym.names, tok.x)
       IN  Resolved(St, [op |-> "set", pos |-> pos, ty |-> TypeOf[tok.x], e |-> e],
                    Unbound(e) \/ pos = 0)

\* The fields on the left are declared or found before the right is resolved.
Field(acc, f) ==
    CASE f.is = "none" -> [acc EXCEPT !.fields = Append(@, f)]
      [] f.is = "old" ->
            [acc EXCEPT !.fields = Append(@, [is |-> "old", pos |-> find(acc.st.names, f.x),
                                              ty |-> TypeOf[f.x]]),
                        !.stop = @ \/ find(acc.st.names, f.x) = 0]
      [] f.is = "new" ->
            [acc EXCEPT !.fields = Append(@, [is |-> "new", pos |-> acc.st.next_id,
                                              ty |-> TypeOf[f.x]]),
                        !.st = add(acc.st, f.x)]

destructure_sema ==
    /\ AtStmt("sema", {"destr"})
    /\ LET tok == fn.body[i]
           lhs == FoldLeft(Field, [st |-> St, fields |-> <<>>, stop |-> FALSE], tok.fields)
           rhs == [a \in DOMAIN tok.rhs |->
                      [k \in DOMAIN tok.rhs[a] |-> Bound(lhs.st.names, tok.rhs[a][k])]]
       IN  Resolved(lhs.st, [op |-> "destr", fields |-> lhs.fields, rhs |-> rhs],
                    \/ lhs.stop
                    \/ \E a \in DOMAIN rhs : \/ Len(rhs[a]) # Len(lhs.fields)
                                             \/ \E k \in DOMAIN rhs[a] : Unbound(rhs[a][k]))

ScopeMark ==
    /\ AtStmt("sema", {"block", "if", "while", "else", "end"})
    /\ LET tok    == fn.body[i]
           closed == IF tok.op \in {"else", "end"} THEN leave_scope(sym.names) ELSE sym.names
           names  == IF tok.op = "end" THEN closed ELSE new_scope(closed)
       IN  Resolved([St EXCEPT !.names = names], tok, FALSE)

Expression ==
    /\ AtStmt("sema", {"use"})
    /\ LET e == Bound(sym.names, fn.body[i].e)
       IN  Resolved(St, [op |-> "use", e |-> e], Unbound(e))

return_with_values ==
    /\ AtStmt("sema", {"return"})
    /\ LET es == [k \in DOMAIN fn.body[i].es |-> Bound(sym.names, fn.body[i].es[k])]
       IN  Resolved(St, [op |-> "return", es |-> es],
                    Len(es) # Len(fn.returns) \/ \E k \in DOMAIN es : Unbound(es[k]))

-----------------------------------------------------------------------------
(* Code generation.  A cell or value is named by the statement, the        *)
(* alternative and the position that make it.                              *)

Cell(n) == [is |-> "cell", n |-> n]
Ssa(n)  == [is |-> "ssa", n |-> n]

Zero    == <<0, 0, 0>>
Garbage == <<0, 0, 1>>

\* Type::default: a struct and a fixed array get memory that is not cleared.
default(ty) == IF ty = "mem" THEN Garbage ELSE Zero

Instr(o, d, v) == [o |-> o, d |-> d, v |-> v]

\* into_pointer_value panics on a number.
NotPointer(ent, ty) == ent.is = "ssa" /\ ty = "int"

\* The operand of an expression.  A word is loaded through what the table
\* has, of a reference the table has the value.
Operand(tab, e, n, ty) ==
    CASE ~e.var -> [ops |-> <<Instr("const", n, IF e.init THEN n ELSE default(ty))>>,
                    v |-> Ssa(n), panic |-> FALSE]
      [] e.var /\ e.pos \notin DOMAIN tab -> [ops |-> <<>>, v |-> Ssa(n), panic |-> TRUE]
      [] e.var /\ e.pos \in DOMAIN tab /\ IsRef(e.ty) ->
            [ops |-> <<>>, v |-> tab[e.pos], panic |-> FALSE]
      [] OTHER -> [ops |-> <<Instr("load", n, tab[e.pos])>>, v |-> Ssa(n),
                   panic |-> NotPointer(tab[e.pos], e.ty)]

Put(tab, pos, ent) == (pos :> ent) @@ tab

\* A reference stays a value, a word gets a cell.
variable_decl(tab, tok, n) ==
    LET r == Operand(tab, tok.e, n, tok.ty)
    IN  IF IsRef(tok.ty)
        THEN [tab |-> Put(tab, tok.pos, r.v), ops |-> r.ops, panic |-> r.panic]
        ELSE [tab |-> Put(tab, tok.pos, Cell(n)),
              ops |-> Append(r.ops, Instr("store", Cell(n), r.v)), panic |-> r.panic]

\* The new value reaches neither the cell nor the table.
AssignLost(tab, tok, n) ==
    LET r == Operand(tab, tok.e, n, tok.ty)
    IN  [tab |-> tab, ops |-> r.ops, panic |-> r.panic]

\* A word is stored to its cell, a reference replaces the value in the table.
assign_single(tab, tok, n) ==
    LET r == Operand(tab, tok.e, n, tok.ty)
    IN  IF IsRef(tok.ty)
        THEN [tab |-> Put(tab, tok.pos, r.v), ops |-> r.ops, panic |-> r.panic]
        ELSE IF tok.pos \notin DOMAIN tab
        THEN [tab |-> tab, ops |-> r.ops, panic |-> TRUE]
        ELSE [tab |-> tab, ops |-> Append(r.ops, Instr("store", tab[tok.pos], r.v)),
              panic |-> r.panic \/ NotPointer(tab[tok.pos], tok.ty)]

\* All values first; then a new variable of any type gets a cell, and an old
\* one the value in the table.
destructure(tab, fields, list, at, a) ==
    LET vals == [k \in DOMAIN list |->
                    Operand(tab, list[k], <<at, a, k>>,
                            IF fields[k].is = "none" THEN "int" ELSE fields[k].ty)]
        One(acc, k) ==
            CASE fields[k].is = "none" -> acc
              [] fields[k].is = "new" ->
                    [acc EXCEPT !.tab = Put(@, fields[k].pos, Cell(<<at, a, k>>)),
                                !.ops = Append(@, Instr("store", Cell(<<at, a, k>>), vals[k].v))]
              [] fields[k].is = "old" -> [acc EXCEPT !.tab = Put(@, fields[k].pos, vals[k].v)]
    IN  FoldLeft(One, [tab   |-> tab,
                       ops   |-> FlattenSeq([k \in DOMAIN list |-> vals[k].ops]),
                       panic |-> \E k \in DOMAIN vals : vals[k].panic],
                 [k \in DOMAIN fields |-> k])

\* Parameters: a cell, for a reference what is loaded from it at once.
populate_arguments ==
    [tab |-> [k \in 1..Len(fn.params) |->
                 IF IsRef(TypeOf[fn.params[k]]) THEN Ssa(<<0, 0, k + 1>>) ELSE Cell(<<0, 0, k + 1>>)],
     ops |-> FlattenSeq([k \in 1..Len(fn.params) |->
                 LET n == <<0, 0, k + 1>>
                 IN  <<Instr("const", n, n), Instr("store", Cell(n), Ssa(n)),
                       Instr("load", n, Cell(n))>>])]

\* Named return values: a cell with the default, for every type.
populate_named_returns ==
    LET named == {k \in DOMAIN fn.returns : fn.returns[k] # ""}
        n(k)  == <<0, 1, k>>
    IN  [tab |-> [p \in {Len(fn.params) + k : k \in named} |-> Cell(n(p - Len(fn.params)))],
         ops |-> FlattenSeq([k \in DOMAIN fn.returns |->
                     IF k \in named
                     THEN <<Instr("const", n(k), default(TypeOf[fn.returns[k]])),
                            Instr("store", Cell(n(k)), Ssa(n(k)))>>
                     ELSE <<>>])]

gen_function ==
    /\ phase = "sema" /\ i > Len(fn.body)
    /\ IF diag THEN /\ phase' = "rejected"
                    /\ UNCHANGED <<table, mem, env, i>>
       ELSE /\ phase' = "irgen"
            /\ table' = populate_named_returns.tab @@ populate_arguments.tab
            /\ i' = 1
            /\ UNCHANGED <<mem, env>>
    /\ UNCHANGED <<fn, sym, body, diag, code, passes, got, want>>

Generated(tab, alts, panic) ==
    /\ table' = tab
    /\ code' = Append(code, alts)
    /\ i' = i + 1
    /\ phase' = IF panic THEN "panic" ELSE phase
    /\ UNCHANGED <<fn, sym, body, diag, runVars>>

gen_variable_decl ==
    /\ AtStmt("irgen", {"decl"})
    /\ LET g == variable_decl(table, body[i], <<i, 1, 1>>)
       IN  Generated(g.tab, <<g.ops>>, g.panic)

gen_assign ==
    /\ AtStmt("irgen", {"set"})
    /\ LET g == assign_single(table, body[i], <<i, 1, 1>>)
       IN  Generated(g.tab, <<g.ops>>, g.panic)

\* A conditional on the right is generated once per branch, with one table.
gen_destructure ==
    /\ AtStmt("irgen", {"destr"})
    /\ LET g == destructure(table, body[i].fields, body[i].rhs[1], i, 1)
           h == destructure(g.tab, body[i].fields, body[i].rhs[2], i, 2)
       IN  IF Len(body[i].rhs) = 1
           THEN Generated(g.tab, <<g.ops>>, g.panic)
           ELSE Generated(h.tab, <<g.ops, h.ops>>, g.panic \/ h.panic)

gen_mark ==
    /\ AtStmt("irgen", {"block", "if", "while", "else", "end"})
    /\ Generated(table, <<<<>>>>, FALSE)

gen_expression ==
    /\ AtStmt("irgen", {"use"})
    /\ LET r == Operand(table, body[i].e, <<i, 1, 1>>, body[i].e.ty)
       IN  Generated(table, <<Append(r.ops, Instr("out", Zero, r.v))>>, r.panic)

\* One value is returned, several are stored through parameters, which are
\* pointers only if the type is one.
returns ==
    /\ AtStmt("irgen", {"return"})
    /\ LET es == body[i].es
           rs == [k \in DOMAIN es |-> Operand(table, es[k], <<i, 1, k>>, TypeOf[fn.returns[k]])]
       IN  Generated(table,
               <<FlattenSeq([k \in DOMAIN es |-> rs[k].ops])
                 \o [k \in DOMAIN es |-> Instr("out", Zero, rs[k].v)]>>,
               \/ \E k \in DOMAIN es : rs[k].panic
               \/ Len(es) > 1 /\ \E k \in DOMAIN es : TypeOf[fn.returns[k]] = "int")

\* At the end of the body each return value is loaded through the table and
\* returned: the first return is the one that is executed.
ImplicitReturn ==
    /\ phase = "irgen" /\ i > Len(fn.body)
    /\ LET poss == [k \in DOMAIN fn.returns |-> Len(fn.params) + k]
           falls == Len(fn.body) = 0 \/ Last(fn.body).op # "return"
           panic == falls /\ \E k \in DOMAIN poss :
                        \/ poss[k] \notin DOMAIN table
                        \/ NotPointer(table[poss[k]], TypeOf[fn.returns[k]])
       IN  /\ code' = Append(code,
                  IF falls /\ Len(poss) > 0 /\ ~panic
                  THEN <<<<Instr("load", <<i, 1, 1>>, table[poss[1]]),
                           Instr("out", Zero, Ssa(<<i, 1, 1>>))>>>>
                  ELSE <<<<>>>>)
           /\ phase' = IF panic THEN "panic" ELSE "entry"
    /\ UNCHANGED <<fn, i, sym, body, diag, table, runVars>>

-----------------------------------------------------------------------------
(* The code and the source reading run together.                           *)

At(f, n) == IF n \in DOMAIN f THEN f[n] ELSE Garbage
ValueOf(m, v) == IF v.is = "ssa" THEN At(m.ssa, v.n) ELSE Garbage

\* One instruction.  What is loaded or stored through a value that is no
\* cell is not what was meant.
Step(m, op) ==
    CASE op.o = "const" -> [m EXCEPT !.ssa = Put(@, op.d, op.v)]
      [] op.o = "load"  -> [m EXCEPT !.ssa = Put(@, op.d,
                                IF op.v.is = "cell" THEN At(m.cell, op.v.n) ELSE Garbage)]
      [] op.o = "store" -> IF op.d.is = "cell"
                           THEN [m EXCEPT !.cell = Put(@, op.d.n, ValueOf(m, op.v))] ELSE m
      [] op.o = "out"   -> [m EXCEPT !.out = Append(@, ValueOf(m, op.v))]

Run(ops) == FoldLeft(Step, [ssa |-> mem.ssa, cell |-> mem.cell, out |-> <<>>], ops)

\* The source by names: a use means the latest declaration whose scope is open.
Declares(j) ==
    IF j = 0 THEN ToSet(fn.params \o fn.returns) \ {""}
    ELSE LET tok == fn.body[j]
         IN  CASE tok.op = "decl" -> {tok.x}
               [] tok.op = "destr" -> {f.x : f \in {g \in ToSet(tok.fields) : g.is = "new"}}
               [] OTHER -> {}

Depth(j, k) == Cardinality({l \in (j + 1)..k : Opens(fn.body[l])})
             - Cardinality({l \in (j + 1)..k : Closes(fn.body[l])})
ScopeEnds(j, k) == \/ Closes(fn.body[k]) /\ Depth(j, k) + 1 = 0
                   \/ fn.body[k].op = "else" /\ Depth(j, k) = 0
Visible(j, k) == j = 0 \/ \A l \in (j + 1)..(k - 1) : ~ScopeEnds(j, l)
Homes(x, k) == {j \in 0..(k - 1) : x \in Declares(j) /\ Visible(j, k)}
Home(x, k)  == <<Max(Homes(x, k)), x>>

Meaning(e, n, k, ty) == IF e.var THEN env[Home(e.x, k)] ELSE IF e.init THEN n ELSE Zero

EndOf(j)  == Min({k \in (j + 1)..Len(fn.body) : Closes(fn.body[k]) /\ Depth(j, k) + 1 = 0})
ElseOf(j) == {k \in (j + 1)..EndOf(j) : fn.body[k].op = "else" /\ Depth(j, k) = 0}

Enter ==
    /\ phase = "entry"
    /\ phase' = "run" /\ i' = 1
    /\ LET m == Run(populate_arguments.ops \o populate_named_returns.ops)
       IN  mem' = [ssa |-> m.ssa, cell |-> m.cell]
    /\ env' = [d \in {<<0, x>> : x \in Declares(0)} |->
                  LET at == {k \in DOMAIN fn.params : fn.params[k] = d[2]}
                  IN  IF at = {} THEN Zero ELSE <<0, 0, Min(at) + 1>>]
    /\ UNCHANGED <<fn, sym, body, diag, genVars, passes, got, want>>

Ran(alt, env1, want1) ==
    LET m == Run(code[i][alt])
    IN  /\ mem' = [ssa |-> m.ssa, cell |-> m.cell]
        /\ got' = m.out /\ env' = env1 /\ want' = want1
        /\ i' = i + 1
        /\ UNCHANGED <<fn, phase, sym, body, diag, genVars, passes>>

RunAssign ==
    /\ AtStmt("run", {"decl", "set"})
    /\ LET tok == fn.body[i]
           d   == IF tok.op = "decl" THEN <<i, tok.x>> ELSE Home(tok.x, i)
       IN  Ran(1, Put(env, d, Meaning(tok.e, <<i, 1, 1>>, i, TypeOf[tok.x])), <<>>)

RunDestructure ==
    /\ AtStmt("run", {"destr"})
    /\ LET fs == fn.body[i].fields
       IN  \E a \in DOMAIN fn.body[i].rhs :
             LET list == fn.body[i].rhs[a]
                 One(e, k) ==
                    IF fs[k].is = "none" THEN e
                    ELSE Put(e, IF fs[k].is = "new" THEN <<i, fs[k].x>> ELSE Home(fs[k].x, i),
                             Meaning(list[k], <<i, a, k>>, i, TypeOf[fs[k].x]))
             IN  Ran(a, FoldLeft(One, env, [k \in DOMAIN fs |-> k]), <<>>)

RunUse ==
    /\ AtStmt("run", {"use"})
    /\ Ran(1, env, <<Meaning(fn.body[i].e, Zero, i, "int")>>)

RunReturn ==
    /\ \/ AtStmt("run", {"return"})
       \/ phase = "run" /\ i = Len(fn.body) + 1
    /\ want' = IF i <= Len(fn.body)
               THEN [k \in DOMAIN fn.body[i].es |-> Meaning(fn.body[i].es[k], <<i, 1, k>>, i, "int")]
               ELSE [k \in DOMAIN fn.returns |-> env[<<0, fn.returns[k]>>]]
    /\ got' = Run(code[i][1]).out
    /\ phase' = "done"
    /\ UNCHANGED <<fn, i, sym, body, diag, genVars, mem, env, passes>>

\* The jumps: a condition may go either way.
Goto(k) ==
    /\ i' = k /\ got' = <<>> /\ want' = <<>>
    /\ UNCHANGED <<fn, phase, sym, body, diag, genVars, mem, env>>

RunBlock == AtStmt("run", {"block"}) /\ Goto(i + 1) /\ UNCHANGED passes
RunIf ==
    /\ AtStmt("run", {"if"})
    /\ \/ Goto(i + 1)
       \/ Goto(Min(ElseOf(i) \union {EndOf(i)}) + 1)
    /\ UNCHANGED passes
RunElse == AtStmt("run", {"else"}) /\ Goto(EndOf(i) + 1) /\ UNCHANGED passes
RunWhile ==
    /\ AtStmt("run", {"while"})
    /\ \/ passes < MaxPasses /\ Goto(i + 1) /\ passes' = passes + 1
       \/ Goto(EndOf(i) + 1) /\ UNCHANGED passes
RunEnd ==
    /\ AtStmt("run", {"end"})
    /\ LET head == {j \in 1..i : fn.body[j].op = "while" /\ EndOf(j) = i}
       IN  Goto(IF head = {} THEN i + 1 ELSE Min(head))
    /\ UNCHANGED passes

Next ==
    \/ VariableDefinition \/ assign_single_sema \/ destructure_sema \/ ScopeMark
    \/ Expression \/ return_with_values \/ gen_function
    \/ gen_variable_decl \/ gen_assign \/ gen_destructure \/ gen_mark
    \/ gen_expression \/ returns \/ ImplicitReturn
    \/ Enter \/ RunAssign \/ RunDestructure \/ RunUse \/ RunReturn
    \/ RunBlock \/ RunIf \/ RunElse \/ RunWhile \/ RunEnd

Spec == Init /\ [][Next]_vars

-----------------------------------------------------------------------------
Uses(j) ==
    LET tok == fn.body[j]
        es  == CASE tok.op \in {"decl", "set", "use"} -> {tok.e}
                 [] tok.op = "destr" -> UNION {ToSet(tok.rhs[a]) : a \in DOMAIN tok.rhs}
                 [] tok.op = "return" -> ToSet(tok.es)
                 [] OTHER -> {}
    IN  {e.x : e \in {d \in es : d.var}}
        \union (IF tok.op = "set" THEN {tok.x}
                ELSE IF tok.op = "destr" THEN {f.x : f \in {g \in ToSet(tok.fields) : g.is = "old"}}
                ELSE {})

Named(xs) == SelectSeq(xs, LAMBDA x : x # "")

\* What the language allows: no name is declared where one of that name is
\* visible, every name used is visible, and lists have the same length.
WellFormed ==
    /\ IsInjective(Named(fn.params \o fn.returns))
    /\ \A j \in DOMAIN fn.body :
         LET tok == fn.body[j]
         IN  /\ \A x \in Declares(j) : Homes(x, j) = {}
             /\ \A x \in Uses(j) : Homes(x, j) # {}
             /\ tok.op = "return" => Len(tok.es) = Len(fn.returns)
             /\ tok.op = "destr" =>
                  /\ \A a \in DOMAIN tok.rhs : Len(tok.rhs[a]) = Len(tok.fields)
                  /\ \A k, l \in DOMAIN tok.fields :
                       (k # l /\ tok.fields[k].is = "new" /\ tok.fields[l].is = "new")
                           => tok.fields[k].x # tok.fields[l].x

\* The number a declaration has been given.
NumberAt(h, x) ==
    IF h = 0 THEN CHOOSE k \in DOMAIN (fn.params \o fn.returns) : (fn.params \o fn.returns)[k] = x
    ELSE IF fn.body[h].op = "decl" THEN body[h].pos
    ELSE body[h].fields[CHOOSE k \in DOMAIN fn.body[h].fields :
                            fn.body[h].fields[k] = [is |-> "new", x |-> x]].pos

\* The resolver accepts exactly the functions in which every name is declared
\* before its use, in a scope that is still open, and none is declared again
\* where it is visible (Symtable.add, find and the scopes); and in those every
\* use and assignment has the number of the declaration it means.
ScopesRespected ==
    /\ phase = "rejected" => ~WellFormed
    /\ phase = "irgen" /\ i = 1 =>
         /\ WellFormed
         /\ \A j \in DOMAIN body :
              /\ body[j].op = "use" =>
                    body[j].e.pos = NumberAt(Home(fn.body[j].e.x, j)[1], fn.body[j].e.x)
              /\ body[j].op = "set" =>
                    body[j].pos = NumberAt(Home(fn.body[j].x, j)[1], fn.body[j].x)

\* A function that is accepted gets code, and whatever its conditions decide,
\* what an expression reads of a variable and what is returned is what was
\* last assigned to that variable (assign_single, destructure, the
\* declarations and the table of irgen, against the source).
ReadsLastWrite == phase # "panic" /\ got = want
=============================================================================
