----------------------------- MODULE Statements -----------------------------
(***************************************************************************)
(* The statements of a function on their way from the syntax tree to a     *)
(* control flow graph.  sema/statements.rs resolves them: it rejects jumps *)
(* outside a loop and statements that cannot be reached, and notes on      *)
(* every `if' and `for' whether its end can be reached.                    *)
(* irgen/statements.rs then appends basic blocks with a builder that has a *)
(* current block and a stack of the enclosing loops.                       *)
(*                                                                         *)
(* Once a graph exists it is run side by side with a structured reading    *)
(* of the same program.  What can be seen of a run is the expression       *)
(* evaluated next, the condition decided next, or the value returned; an   *)
(* expression is known by its place in the tree.                           *)
(***************************************************************************)
EXTENDS Naturals, Sequences, FiniteSets, SequencesExt

CONSTANTS Functions    \* records [kind, body]: the functions compiled

(***************************************************************************)
(* kind: "void" no return value, "named" or "anon" one value with or       *)
(* without a name, "pair" two named values.  A statement is a record with  *)
(* kind k; the body of a compound statement is a block, a sequence.        *)
(***************************************************************************)

VARIABLES
    func,     \* the function as parsed
    body,     \* its resolved statements
    phase,    \* "parsed", "resolved", "running", "rejected" or "panic"
    cfg,      \* the blocks: a sequence of sequences of instructions
    at,       \* <<block, index>>: the next instruction of the graph
    rest      \* what the structured reading has still to do

vars == <<func, body, phase, cfg, at, rest>>

Use           == [k |-> "use"]
Break         == [k |-> "break"]
Continue      == [k |-> "continue"]
Return(val)   == [k |-> "return", val |-> val]
If(t, e)      == [k |-> "if", then |-> t, else |-> e, reach |-> TRUE]
While(b)      == [k |-> "while", body |-> b]
DoWhile(b)    == [k |-> "do", body |-> b]
For(c, h, b)  == [k |-> "for", cond |-> c, init |-> h, next |-> h,
                  body |-> b, reach |-> TRUE]

-----------------------------------------------------------------------------
(* Resolution: sema.  A result carries whether resolution failed (err),    *)
(* whether the end of the statement is reachable, the resolved statement,  *)
(* and the breaks and continues counted in the enclosing loops.            *)

new_scope(loops)   == Append(loops, [breaks |-> 0, continues |-> 0])
leave_scope(loops) == Front(loops)

do_break(loops)    ==
    [loops EXCEPT ![Len(loops)].breaks = @ + 1]
do_continue(loops) ==
    [loops EXCEPT ![Len(loops)].continues = @ + 1]

Resolved(s, r, loops) ==
    [err |-> FALSE, stmt |-> s, reach |-> r, loops |-> loops]
Rejected(loops) ==
    [err |-> TRUE, stmt |-> Use, reach |-> TRUE, loops |-> loops]

RECURSIVE resolve(_, _, _)
RECURSIVE resolve_block(_, _, _)

\* A block resolves its statements in order; a statement after an
\* unreachable end is an error.
resolve_block(b, loops, kind) ==
    IF b = <<>>
    THEN [err |-> FALSE, stmts |-> <<>>, reach |-> TRUE, loops |-> loops]
    ELSE LET r    == resolve(Head(b), loops, kind)
             tail == resolve_block(Tail(b), r.loops, kind)
         IN  [err   |-> r.err \/ tail.err \/ (~r.reach /\ Tail(b) # <<>>),
              stmts |-> <<r.stmt>> \o tail.stmts,
              reach |-> IF Tail(b) = <<>> THEN r.reach ELSE tail.reach,
              loops |-> tail.loops]

\* The end of `for (;;)' is reached only by a break.
EndlessReach(control) == control.breaks > 0

\* mutant: continues are not counted
KeepNextEnd(s, b, control) == s.next /\ b.reach

\* The loop expression of a `for' with a condition is kept only if the body
\* can get to it, by its end or by a continue.
KeepNext(s, b, control) == s.next /\ (b.reach \/ control.continues > 0)

resolve_for_endless(s, loops, kind) ==
    LET b       == resolve_block(s.body, new_scope(loops), kind)
        control == Last(b.loops)
    IN  IF b.err THEN Rejected(loops)
        ELSE Resolved([s EXCEPT !.body = b.stmts,
                                !.reach = EndlessReach(control)],
                      EndlessReach(control), leave_scope(b.loops))

resolve_for_cond(s, loops, kind) ==
    LET b       == resolve_block(s.body, new_scope(loops), kind)
        control == Last(b.loops)
    IN  IF b.err THEN Rejected(loops)
        ELSE Resolved([s EXCEPT !.body = b.stmts,
                                !.next = KeepNext(s, b, control)],
                      TRUE, leave_scope(b.loops))

resolve_loop(s, loops, kind) ==
    LET b == resolve_block(s.body, new_scope(loops), kind)
    IN  IF b.err THEN Rejected(loops)
        ELSE Resolved([s EXCEPT !.body = b.stmts], TRUE,
                      leave_scope(b.loops))

resolve_if(s, loops, kind) ==
    LET then == resolve_block(s.then, loops, kind)
        else == resolve_block(s.else, then.loops, kind)
        r    == s.else = <<>> \/ then.reach \/ else.reach
    IN  IF then.err \/ else.err THEN Rejected(loops)
        ELSE Resolved([s EXCEPT !.then = then.stmts, !.else = else.stmts,
                                !.reach = r], r, else.loops)

\* `return;' is accepted in every function; `return v;' needs a value to
\* return.
resolve_return(s, loops, kind) ==
    IF s.val /\ kind = "void" THEN Rejected(loops)
    ELSE Resolved(s, FALSE, loops)

resolve(s, loops, kind) ==
    CASE s.k = "use"    -> Resolved(s, TRUE, loops)
      [] s.k = "return" -> resolve_return(s, loops, kind)
      [] s.k = "break"  -> IF loops = <<>> THEN Rejected(loops)
                           ELSE Resolved(s, FALSE, do_break(loops))
      [] s.k = "continue" -> IF loops = <<>> THEN Rejected(loops)
                             ELSE Resolved(s, FALSE, do_continue(loops))
      [] s.k = "if"     -> resolve_if(s, loops, kind)
      [] s.k = "for"    -> IF s.cond THEN resolve_for_cond(s, loops, kind)
                           ELSE resolve_for_endless(s, loops, kind)
      [] OTHER          -> resolve_loop(s, loops, kind)

-----------------------------------------------------------------------------
(* Generation: irgen.  The builder g has the blocks, the current block and *)
(* the stack of <<break target, continue target>>.                         *)

reachable(s) ==
    CASE s.k \in {"break", "continue", "return"} -> FALSE
      [] s.k \in {"if", "for"}                   -> s.reach
      [] OTHER                                   -> TRUE

\* Statement::reachable of the block that is the body
BodyReachable(b) == \A i \in 1..Len(b) : reachable(b[i])

append_block(g)       == [g EXCEPT !.blocks = Append(@, <<>>)]
position_at_end(g, b) == [g EXCEPT !.cur = b]
Build(g, inst)        == [g EXCEPT !.blocks[g.cur] = Append(@, inst)]
build_br(g, b)        == Build(g, [op |-> "br", to |-> b])
build_cond(g, p, t, e) ==
    Build(g, [op |-> "cond", p |-> p, then |-> t, else |-> e])
build_return(g, v)    == Build(g, [op |-> "ret", v |-> v])
expression(g, p)      == Build(g, [op |-> "use", p |-> p])

\* a branch made only if the code before it can be reached
BranchIf(c, g, b)     == IF c THEN build_br(g, b) ELSE g

push_loop(g, brk, cont) == [g EXCEPT !.loops = Append(@, <<brk, cont>>)]
pop_loop(g)             == [g EXCEPT !.loops = Front(@)]

\* the number of the i-th block appended from here on
New(g, i) == Len(g.blocks) + i

RECURSIVE statement(_, _, _)
RECURSIVE gen_block(_, _, _, _)

\* The statements of a block; the rest is skipped once one does not end.
gen_block(b, i, p, g) ==
    IF i > Len(b) THEN g
    ELSE LET h == statement(b[i], Append(p, i), g)
         IN  IF reachable(b[i]) THEN gen_block(b, i + 1, p, h) ELSE h

gen_while(s, p, g) ==
    LET first == New(g, 1)
        cond  == New(g, 2)
        end   == New(g, 3)
        g1 == append_block(append_block(append_block(g)))
        g2 == position_at_end(build_br(g1, cond), cond)
        g3 == position_at_end(build_cond(g2, p, first, end), first)
        g4 == gen_block(s.body, 1, p, push_loop(g3, end, cond))
        g5 == BranchIf(BodyReachable(s.body), g4, cond)
    IN  position_at_end(pop_loop(g5), end)

\* DoWhile pushes its targets and leaves them on the stack.
gen_do_while(s, p, g) ==
    LET first == New(g, 1)
        cond  == New(g, 2)
        end   == New(g, 3)
        g1 == append_block(append_block(append_block(g)))
        g2 == position_at_end(build_br(g1, first), first)
        g3 == gen_block(s.body, 1, p, push_loop(g2, end, cond))
        g4 == BranchIf(BodyReachable(s.body), g3, cond)
        g5 == build_cond(position_at_end(g4, cond), p, first, end)
    IN  position_at_end(g5, end)

\* a `for' with a condition: cond, body, next, endfor
gen_for_cond(s, p, g) ==
    LET cond  == New(g, 1)
        first == New(g, 2)
        next  == New(g, 3)
        end   == New(g, 4)
        g1 == append_block(append_block(append_block(append_block(g))))
        g2 == IF s.init THEN expression(g1, Append(p, 0)) ELSE g1
        g3 == position_at_end(build_br(g2, cond), cond)
        g4 == position_at_end(build_cond(g3, p, first, end), first)
        g5 == gen_block(s.body, 1, p, push_loop(g4, end, next))
        g6 == BranchIf(BodyReachable(s.body), g5, next)
        g7 == position_at_end(pop_loop(g6), next)
        g8 == IF s.next THEN expression(g7, Append(p, 9)) ELSE g7
    IN  position_at_end(build_br(g8, cond), end)

\* `for (init;; next)': the next block is filled only if the end of the body
\* is reachable, whatever continues jump to it.
gen_for_endless(s, p, g) ==
    LET first == New(g, 1)
        next  == New(g, 2)
        end   == New(g, 3)
        r     == BodyReachable(s.body)
        g1 == append_block(append_block(append_block(g)))
        g2 == IF s.init THEN expression(g1, Append(p, 0)) ELSE g1
        g3 == position_at_end(build_br(g2, first), first)
        g4 == push_loop(g3, end, IF s.next THEN next ELSE first)
        g5 == pop_loop(BranchIf(r, gen_block(s.body, 1, p, g4), next))
        g6 == position_at_end(g5, next)
        g7 == IF s.next THEN expression(g6, Append(p, 9)) ELSE g6
        g8 == IF r THEN build_br(g7, first) ELSE g5
    IN  position_at_end(g8, end)

if_then(s, p, g) ==
    LET then  == New(g, 1)
        endif == New(g, 2)
        g1 == build_cond(append_block(append_block(g)), p, then, endif)
        g2 == gen_block(s.then, 1, Append(p, 1), position_at_end(g1, then))
    IN  position_at_end(BranchIf(BodyReachable(s.then), g2, endif), endif)

\* endif exists only if a branch gets to it, and is made after the blocks of
\* the first branch that does.
if_then_else(s, p, g) ==
    LET then == New(g, 1)
        else == New(g, 2)
        tr   == BodyReachable(s.then)
        er   == BodyReachable(s.else)
        g1 == build_cond(append_block(append_block(g)), p, then, else)
        g2 == gen_block(s.then, 1, Append(p, 1), position_at_end(g1, then))
        g3 == IF tr THEN build_br(append_block(g2), New(g2, 1)) ELSE g2
        g4 == gen_block(s.else, 1, Append(p, 2), position_at_end(g3, else))
        endif == IF tr THEN New(g2, 1) ELSE New(g4, 1)
        g5 == IF er /\ ~tr THEN append_block(g4) ELSE g4
        g6 == BranchIf(er, g5, endif)
    IN  IF tr \/ er THEN position_at_end(g6, endif) ELSE g6

\* `return;' builds a return of nothing, `return v;' one of v.
returns(s, p, g) == build_return(g, IF s.val THEN p ELSE "none")

statement(s, p, g) ==
    CASE s.k = "use"      -> expression(g, p)
      [] s.k = "return"   -> returns(s, p, g)
      [] s.k = "break"    -> build_br(g, Last(g.loops)[1])
      [] s.k = "continue" -> build_br(g, Last(g.loops)[2])
      [] s.k = "while"    -> gen_while(s, p, g)
      [] s.k = "do"       -> gen_do_while(s, p, g)
      [] s.k = "for"      -> IF s.cond THEN gen_for_cond(s, p, g)
                             ELSE gen_for_endless(s, p, g)
      [] s.k = "if"       -> IF s.else = <<>> THEN if_then(s, p, g)
                             ELSE if_then_else(s, p, g)

Entry == [blocks |-> <<<<>>>>, cur |-> 1, loops |-> <<>>]

\* A body whose end can be reached gets one return for each return variable,
\* of that variable alone; a function without return values gets a return
\* in any case.
gen_function(kind) ==
    LET g  == gen_block(body, 1, <<>>, Entry)
        g1 == IF ~BodyReachable(body) THEN g
              ELSE CASE kind = "named" -> build_return(g, "named")
                     [] kind = "pair"  ->
                            build_return(build_return(g, "first"), "second")
                     [] OTHER            -> g
    IN  IF kind = "void" THEN build_return(g1, "none") ELSE g1

\* Only named return variables are in the table the implicit return reads.
Panics(kind) == kind = "anon" /\ BodyReachable(body)

-----------------------------------------------------------------------------
(* Running the graph.  A block without a terminator runs into the next one *)
(* of the layout.                                                          *)

RECURSIVE Settle(_, _)
\* The next position with something to see, or <<0, 0>>: none comes.
Settle(pos, fuel) ==
    LET b == pos[1]
    IN  IF fuel = 0 \/ b > Len(cfg) THEN <<0, 0>>
        ELSE IF pos[2] > Len(cfg[b]) THEN Settle(<<b + 1, 1>>, fuel - 1)
        ELSE IF cfg[b][pos[2]].op = "br"
             THEN Settle(<<cfg[b][pos[2]].to, 1>>, fuel - 1)
        ELSE pos

Inst == LET pos == Settle(at, Len(cfg) + 1)
        IN  IF pos = <<0, 0>> THEN [op |-> "none"] ELSE cfg[pos[1]][pos[2]]

SeenInGraph == CASE Inst.op = "none" -> <<"none">>
                 [] Inst.op = "ret"  -> <<"ret", Inst.v>>
                 [] OTHER            -> <<Inst.op, Inst.p>>

-----------------------------------------------------------------------------
(* The structured reading.  rest is a sequence of things to do: statements *)
(* with their place, and the ends of the loops being executed.             *)

Todo(s, p)   == [do |-> "stmt", s |-> s, p |-> p]
EndOf(s, p)  == [do |-> "end",  s |-> s, p |-> p]
Eval(p)      == [do |-> "eval", s |-> Use, p |-> p]
Test(s, p)   == [do |-> "test", s |-> s, p |-> p]
Block(b, p)  == [i \in 1..Len(b) |-> Todo(b[i], Append(p, i))]

\* The rest after the innermost loop is left, and from its end on.
LoopEnd(r)   == CHOOSE i \in 1..Len(r) :
                   /\ r[i].do = "end"
                   /\ \A j \in 1..(i - 1) : r[j].do # "end"
Broken(r)    == SubSeq(r, LoopEnd(r) + 1, Len(r))
Continued(r) == SubSeq(r, LoopEnd(r), Len(r))

\* The loop body once more, with its end behind it.
Turn(s, p)   == Block(s.body, p) \o <<EndOf(s, p)>>

\* What follows the end of a loop body.
Again(s, p) ==
    (IF s.k = "for" /\ s.next THEN <<Eval(Append(p, 9))>> ELSE <<>>)
    \o (IF s.k = "for" /\ ~s.cond THEN Turn(s, p) ELSE <<Test(s, p)>>)

RECURSIVE Unfold(_, _)
\* Silent steps of the structured reading.
Unfold(r, fuel) ==
    IF r = <<>> \/ fuel = 0 THEN r
    ELSE LET h == Head(r)
             t == Tail(r)
             s == h.s
         IN  CASE h.do = "end" -> Unfold(Again(s, h.p) \o t, fuel - 1)
               [] h.do # "stmt" -> r
               [] s.k = "break" -> Unfold(Broken(t), fuel - 1)
               [] s.k = "continue" -> Unfold(Continued(t), fuel - 1)
               [] s.k = "while" -> <<Test(s, h.p)>> \o t
               [] s.k = "do" -> Unfold(Turn(s, h.p) \o t, fuel - 1)
               [] s.k = "for" ->
                    LET start == IF s.cond THEN <<Test(s, h.p)>>
                                 ELSE Turn(s, h.p)
                    IN  IF s.init THEN <<Eval(Append(h.p, 0))>> \o start \o t
                        ELSE Unfold(start \o t, fuel - 1)
               [] OTHER -> r

\* Fuel for the silent steps; a program that uses it up has nothing more to
\* show.
Fuel == 20
Next1 == Unfold(rest, Fuel)

ReturnOf(kind) == CASE kind = "void" -> "none"
                    [] kind = "pair" -> "both"
                    [] OTHER         -> "named"

SeenInProgram ==
    IF Next1 = <<>> THEN <<"ret", ReturnOf(func.kind)>>
    ELSE LET h == Head(Next1)
         IN  CASE h.do = "eval" -> <<"use", h.p>>
               [] h.do = "test" -> <<"cond", h.p>>
               [] h.do = "stmt" /\ h.s.k = "use" -> <<"use", h.p>>
               [] h.do = "stmt" /\ h.s.k = "if" -> <<"cond", h.p>>
               [] h.do = "stmt" /\ h.s.k = "return" ->
                    <<"ret", IF h.s.val THEN h.p ELSE ReturnOf(func.kind)>>
               [] OTHER -> <<"none">>

\* The rest once the condition at its head is decided.
Decided(b) ==
    LET h == Head(Next1)
        t == Tail(Next1)
    IN  IF h.do = "test" THEN (IF b THEN Turn(h.s, h.p) ELSE <<>>) \o t
        ELSE (IF b THEN Block(h.s.then, Append(h.p, 1))
              ELSE Block(h.s.else, Append(h.p, 2))) \o t

-----------------------------------------------------------------------------
Init ==
    /\ func \in Functions
    /\ body = <<>>
    /\ phase = "parsed"
    /\ cfg = <<>>
    /\ at = <<1, 1>>
    /\ rest = <<>>

resolve_function_body ==
    /\ phase = "parsed"
    /\ LET r == resolve_block(func.body, <<>>, func.kind)
       IN  /\ phase' = IF r.err THEN "rejected" ELSE "resolved"
           /\ body' = IF r.err THEN <<>> ELSE r.stmts
    /\ UNCHANGED <<func, cfg, at, rest>>

Generate ==
    /\ phase = "resolved"
    /\ phase' = IF Panics(func.kind) THEN "panic" ELSE "running"
    /\ cfg' = IF Panics(func.kind) THEN <<>> ELSE gen_function(func.kind).blocks
    /\ rest' = Block(func.body, <<>>)
    /\ UNCHANGED <<func, body, at>>

\* Both sides evaluate the expression at hand.
Step ==
    /\ phase = "running"
    /\ SeenInGraph = SeenInProgram
    /\ SeenInGraph[1] = "use"
    /\ LET pos == Settle(at, Len(cfg) + 1)
       IN  at' = <<pos[1], pos[2] + 1>>
    /\ rest' = Tail(Next1)
    /\ UNCHANGED <<func, body, phase, cfg>>

\* Both sides decide the condition at hand, the same way.
Decide(b) ==
    /\ phase = "running"
    /\ SeenInGraph = SeenInProgram
    /\ SeenInGraph[1] = "cond"
    /\ at' = <<IF b THEN Inst.then ELSE Inst.else, 1>>
    /\ rest' = Decided(b)
    /\ UNCHANGED <<func, body, phase, cfg>>

\* A function that was rejected, returned or can show nothing more.
Stop ==
    /\ \/ phase \in {"rejected", "panic"}
       \/ phase = "running" /\ SeenInGraph[1] \in {"ret", "none"}
    /\ UNCHANGED vars

Next == \/ resolve_function_body
        \/ Generate
        \/ Step
        \/ \E b \in BOOLEAN : Decide(b)
        \/ Stop

Spec == Init /\ [][Next]_vars

-----------------------------------------------------------------------------
(***************************************************************************)
(* The graph does what the program says: whatever the conditions turn out  *)
(* to be, the expression evaluated, the condition tested or the value      *)
(* returned next by the blocks is the one the statements call for.         *)
(***************************************************************************)
SameTrace == phase = "running" => SeenInGraph = SeenInProgram
=============================================================================
