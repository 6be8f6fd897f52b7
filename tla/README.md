# TLA+ specification of the ola-lang compiler

This directory holds TLA+ modules for the core of the ola-lang compiler, the TLC
configurations that check them on small instances, and TLAPS proofs of the
properties that matter most. `PROJECT.json` maps every definition to the lines it
models and lists the runs, the mutants, the hazards, the findings and the theorems.

All paths below are relative to `src/src` of the repository unless they start with
`docs` or `ola-parser`.

## The system

`olac` compiles a contract written in Ola to the assembly of the OlaVM. The parts,
in the order in which a program passes through them:

| part | state it keeps | operations | what makes it correct |
|---|---|---|---|
| parser (`ola-parser`) | syntax tree | generated LALR parser | accepts the grammar |
| names, imports, types (`sema/namespace.rs`, `symtable.rs`, `types.rs`, `mod.rs`, `file_resolver.rs`) | symbol table per file, scopes of a function, files already resolved | add_symbol, resolve_*, new_scope/leave_scope, import | a name means one declaration; every file is resolved once; recursive types are rejected |
| statement and expression checking (`sema/statements.rs`, `sema/expression/*`, `eval.rs`, `unused_variable.rs`) | reachability, loop scopes, variable flags | resolve_*, cast, eval | no unreachable code is taken for reachable; constants are folded as the machine computes them |
| IR generation (`irgen/*`) | LLVM builder, variable table, loop stack | statements, expressions, core library | the control flow of the statements |
| contract storage (`irgen/storage.rs`) | 256-bit slots | load, store, delete, push, pop | storage behaves like the declared arrays, maps and strings |
| ABI (`irgen/encoding/*`, `irgen/dispatch.rs`, `abi/*`) | buffer offsets | encode, decode, validate, dispatch | decoding inverts encoding; no read past the buffer |
| IR and its passes (`codegen/core/*`) | IR functions, dominators | parser of the text format, mem2reg, dce, sccp | passes keep the meaning |
| lowering (`codegen/lower`, `codegen/isa/ola/lower/*`) | machine instructions, value-to-vreg map | one function per IR opcode | the selected instructions compute the IR instruction |
| **machine layout** (`codegen/function/layout/mod.rs`) | doubly linked lists of blocks and of instructions | append, insert, remove, iterate | the lists are the sequences the passes believe they are |
| **liveness** (`codegen/pass/liveness.rs`) | def, live-in and live-out sets; program points; live ranges | set_def, visit, propagate_reg, compute_*, recompute_* | the sets solve the dataflow equations; points follow the layout |
| **register allocator and spiller** (`codegen/pass/regalloc.rs`, `spiller.rs`) | worklist, assignment, merged ranges, slots | spill around calls, assign or spill, rewrite | every instruction reads the value it read before |
| phi elimination, slot elimination, prologue, peepholes, coalescing (`codegen/isa/ola/pass/*`) | layout, slots, used callee-saved registers | one walk each | same meaning, consistent frame |
| printer (`codegen/isa/ola/asm`), `bin/olac.rs` | - | formatting, files | - |

The compiler is one sequential process that persists nothing: there are no crashes
and no messages to model. What is hard is *order and staleness*: hash sets and hash
maps make the order of work arbitrary (predecessors, vregs with equal keys, vregs
alive around a call, phis); the spiller inserts instructions while the allocator
holds ranges computed before; program points are renumbered under everybody's feet;
recursions must end; the machine has eight usable registers. The parts in bold are
where these meet in the back end. In the front end and in irgen the same decision is
taken in several places that must agree: the checker and the generator on the type of
an expression, five places on whether a variable is a cell or a value, encoder and
decoder on offsets, two constant folders and the program on a value.

How they interact: `sema` reads files and builds the tree, one pass per file inside
the imports of another; `irgen` walks the tree and trusts its types; the LLVM text is
parsed again and lowered block by block; the lowering fills the layout; `regalloc::run_on_function` calls
`Liveness::analyze_function` once, then calls the spiller before and inside its
loop; the spiller changes instructions, layout, points and ranges; the later passes
walk the layout again.

## Modules

| module | models | notes |
|---|---|---|
| `LayoutSeq` | what the layout promises | block order and one instruction sequence per block |
| `Layout` | `function/layout/mod.rs` | pointers as functions to ids or `None`; one action per operation; iterators as operators |
| `Liveness` | `set_def`, `visit`, `propagate_reg` | what the analysis takes from the instructions; the recursion is an explicit stack; a step enters a predecessor or returns |
| `ProgramPoints` | points, `between`, segments, `interfere`, renumbering; the reference definition of live-in and live-out | pure operators; the least solution of the dataflow equations, as what every solution contains |
| `RegAlloc` | `regalloc.rs`, `spiller.rs`, the ranges of `liveness.rs` | see below |
| `FrameOps`, `Frame` | `function/slot`, `eliminate_slot.rs`, `pro_epi_inserter.rs` | offsets as a recursive function over the slots; functions with different frames call each other on one memory |
| `OlaMachine` | what the back end takes the machine to do | field words, registers, memory, events; external |
| `Lowering` | `lower/mod.rs`, `isa/ola/lower/*` | one action per lowered instruction; IR and machine code are then run side by side (extends `OlaMachine`) |
| `LatePasses` | `eliminate_phi`, `add_peephole`, `simple_reg_coalescing` | the passes in their order, phis in every hash order, then a run (extends `OlaMachine`) |
| `DomTreeOps`, `DomTree` | `core/pass/analysis/dom_tree.rs` | Lengauer and Tarjan a node at a time; frontiers |
| `IrPasses` | `mem2reg.rs`, `sccp.rs`, `dce.rs` | the function left behind is run next to the one given (extends `DomTreeOps`) |
| `Storage` | `irgen/storage.rs`, layout in `bin/olac.rs` | keys are a hash and an offset; values are compared with an abstract contract state; what is handed from an array in memory to the slots is its elements or, where the code does that, their place (`Passed`) |
| `Abi` | `irgen/encoding/*`, `irgen/dispatch.rs` | caller and callee on one tape: encode, dispatch, decode, answer |
| `U32Arith` | `irgen/u32_op.rs`, the scalar part of `irgen/corelib.rs` | words of `W` bits in a field of the shape of the real one; a prover's quotient is the integer one, its roots and its answers to a zero divisor are chosen freely |
| `MemCompare` | the comparison loops of `irgen/corelib.rs` | one step per iteration, ten functions on the same blocks |
| `CoreMem` | values on the heap (`irgen/expression.rs`, `binary.rs`, `corelib.rs`) | a heap that only grows; each value against what its expression stands for; array literals of any number of dimensions, and slices of vectors and of fixed arrays, whose length is the outer dimension |
| `Statements` | `sema/statements.rs`, `irgen/statements.rs` | statements to a graph with a builder, then graph and statements are run together |
| `Structs` | `sema/types.rs` | recursion of structs and the fixed point of their offsets |
| `OlaTypes` | `Type` of `sema/ast.rs` | a type is a tuple that starts with its name |
| `ExprTypes` | `sema/expression/*`, `irgen/expression.rs` | types with a hint of what is wanted, and the code they lead to |
| `ConstFold` | `sema/eval.rs` | both constant folders against the program (extends `U32Arith`) |
| `Calls` | `function_call.rs`, `sema/corelib.rs`, `literals.rs`, `external_functions.rs`, `irgen/functions.rs` | overloads, named arguments, and the code of a call (instantiates `ExprTypes`) |
| `Bindings` | `sema/symtable.rs`, declarations and assignments in `sema` and `irgen` | name to number to cell or value to what is read |
| `Imports` | `sema/mod.rs`, `file_resolver.rs`, `namespace.rs`, `contracts.rs` | the recursion over files is an explicit stack |
| `MCBackend`, `MCIr`, `MCRuntime`, `MCExpressions`, `MCFrontEnd` | components side by side | see *Runs*; `MCBackend` extends `Frame` and `MCRuntime` extends `MemCompare`, `U32Arith` and `CoreMem`, so that their runs check the very properties proved |
| other `MC*` | inputs for TLC | |
| `LayoutProofs`, `LivenessProofs`, `RegAllocProofs`, `MemCompareProofs`, `FrameProofs`, `U32ArithProofs`, `CoreMemProofs` | theorems about the module of that name | see *Proofs* |
| `RangesProofs` | the live ranges of `RegAlloc` cover the instructions | extends `RegAllocProofs` |

Most of the modules have one shape. An *input* (a function, a set of files, a call) is
chosen in `Init` from the constant the MC module gives. The actions are the steps of
the code, up to a result, a reported error or a panic. Where the result is itself a
program, it is then *run*, next to the input, by an interpreter that is not part of
the code (`external` in the map), and a property compares the two runs call by call or
value by value. Hash orders, prover answers and results of calls are choices of an
action. `Storage`, `Abi`, `Frame`, `U32Arith` and `CoreMem` have no input to translate: they run the
emitted code in every order of operations against an abstract state kept beside it.

`RegAlloc` follows `run_on_function` from the end of the analysis to the rewriting.
`pc` is the place in the code: `around` (the loop over the vregs alive around
calls), `defs`/`uses` (the loops of `insert_spill` and `insert_reload`),
`after`/`before` and `insert_after`/`insert_before` (the two insertions, split where
they read points and where they use them, because a recomputation lies between),
`alloc` (the worklist loop), `done`, and `panic` for an arithmetic overflow. The
variables are the code's: `pp` is `inst_to_pp`, `vlr` and `rlr` the two range maps,
`assigned` is `assigned_regs`, `pool` and `fifo` together are the worklist (the part
that was sorted and the part that was pushed later), `spillRegs` is `spill_regs`.
Where the code iterates over a hash set, the action chooses. A failed `unwrap` or
map lookup leaves no action enabled; the passing runs check for deadlock.

An instruction is a list of flagged register operands (see the module's header):
opcodes are abstracted to what they read and write, because no property tells more
apart. An operand's tag holds both what the lowering *flags* (which is all the
allocator sees) and what the machine *does*; where the two differ, `Preserved` is
what notices. Types of vregs are left out: all classes use the same registers.

`Preserved` executes the function before and after the pass along given paths with
symbolic values (the step and the instruction that computed a value) and compares
what every instruction reads. A call overwrites all physical registers.

## Runs

| run | properties | what it shows |
|---|---|---|
| `layout` | `Linked`, `ImplementsLayoutSeq` | Every order of appends, insertions and removals on two blocks and four instructions keeps the doubly linked lists consistent, and the lists implement the abstract sequences of LayoutSeq |
| `liveness` | `LiveOutHasRange`, `Sound`, `Exact`, `FirstPhiInputLiveOut`, `Terminates` | Over every control flow graph of three blocks (self loops included) and every walk of the predecessors, propagate_reg ends and, without phis, computes exactly the least solution of the liveness equations |
| `regalloc` | `NoConflict`, `RangesCover`, `Preserved`, `Terminates` | Allocation of 1558 functions (straight code, loops, calls, subtractions, argument shuffles, up to nine values alive at once): no two vregs clash, the ranges stay right as points are inserted, and every instruction reads the values it read before the pass, also where vregs made by the spiller are spilled again |
| `backend` | `SameMeaning`, `Lowers`, `SameRuns`, `SlotsKept`, `ReturnsHome` | Instruction selection, the passes behind register allocation and the frame keep the meaning of a function: the selected code computes what the IR computes, phi elimination, coalescing and the peephole pass change no run, and slots survive nested calls |
| `ir` | `IdomExact`, `FrontierExact`, `SameTrace`, `WellFormed` | The dominator tree and frontiers are exact for the graphs the algorithm treats right, and mem2reg, constant branch folding and dead code elimination leave every run of the IR as it was |
| `runtime` | `ReadsBack`, `NothingBehind`, `ArgsArrive`, `ResultArrives`, `InBounds`, `Exact`, `Consistent`, `Contents` | The code generated for storage, calls, u32 arithmetic, comparisons and heap objects does what the source says along every sequence of operations up to the bounds |
| `expressions` | `CodeMatchesType`, `LiteralPlaced`, `FoldedIsComputed`, `FirstFit`, `CallHasCode` | What the checker says of an expression, a call or a constant is what the generated code does with it |
| `frontend` | `AcceptedRight`, `InfiniteFound`, `ScopesRespected`, `ReadsLastWrite`, `SameTrace`, `Ends`, `OffsetsSettle` | Files, structs, names and control flow: circles of imports end, offsets settle, names mean their declarations, and the blocks of a function run its statements in every outcome of its conditions |

A behaviour of `MCBackend`, `MCIr`, `MCRuntime`, `MCExpressions` and `MCFrontEnd` is a
behaviour of one of the components they instantiate, named by the variable `part`; the
variables of the others are idle. The components share no state in the code either: each
takes the finished result of the one before it, or code of one contract that runs on
its own data, so that nothing is lost by looking at one at a time. `Parts` selects the
components a configuration looks at. A property keeps the component's name.

| run | part | instantiates |
|---|---|---|
| `backend` | `select`, `late`, `frames` | `Lowering`, `LatePasses`, `Frame` |
| `ir` | `tree`, `pass` | `DomTree`, `IrPasses` |
| `runtime` | `storage`, `calls`, `arith`, `compare`, `heap` | `Storage`, `Abi`, `U32Arith`, `MemCompare`, `CoreMem` |
| `expressions` | `types`, `resolve`, `code`, `fold` | `ExprTypes` with the inputs of `MCExprTypes`, `Calls` twice with those of `MCCalls`, `ConstFold` |
| `frontend` | `imports`, `structs`, `bindings`, `statements` | the components of these names, with the inputs of `MCImports`, `MCBindings` and `MCStatements`; those of structs are in `MCFrontEnd` itself |

**Bounds and why they are enough.**
*Layout.* Four instructions give every position an operation distinguishes (only,
first, middle, last, and one already removed) in two blocks: insertion before, between and after, removal at both ends and in the middle, an emptied block filled again, and a second block that must not change; `LayoutLinked` is
proved for all sizes. *Liveness.* Three blocks with a fixed entry contain straight
lines, diamond halves, loops, nested self loops and unreachable blocks; the register
`v` is defined in any one block or none, so uses above and below definitions occur.
*RegAlloc.* The register file is the real one (`r0..r9`, `gpr_list`, `csr_list`).
`MCFunctions` holds all bodies of four statements over loads, binary operations and
calls, and over loads, binary operations and subtractions, in one block and in a
loop; 7 to 9 values alive at once (where the pool of seven ordinary registers is
full, and beyond), 3 to 6 of them after a call; and every arrangement of three
parameters into a callee's arguments. Calls and subtractions do not occur together
in the passing run: together they reach finding `regalloc_sub`, which `regalloc_sub` shows.
`MaxVReg` (60) bounds the vregs created; no passing instance reaches it, or the run
would end in a deadlock. `MaxPoint` stands for the largest `u32`: it is 2^22 rather than
2^32 - 1 because TLC's integers have 32 bits, and the growth by 16 per recomputation
is the same. Functions with phis are not among the instances (the live ranges of
phi operands disagree with phi elimination, see below, before the allocator starts); `LatePasses` starts from allocated
functions with phis.
*Frame.* Call depth 3: a function, its caller and its caller's caller, each with
another frame. *Lowering, LatePasses, IrPasses.* `Fuel` bounds the instructions between
two events; every loop of the instances has an event in it, so a run that ends for
lack of fuel is a difference. The parameter values include 0, 1 and the largest element of
the small field. *DomTree.* Four blocks are the fewest in which a path can be
shortened and a frontier inherited; `IdomExact` and `FrontierExact` speak of the graphs
that satisfy `NoSkip`; all others are built as well. *IrPasses.* Two variables in diamonds and loops of four blocks;
`MaxEvents` 4 is two passes through a loop. *Storage.* Three operations on variables
that lie next to each other, lengths up to 2: enough to shorten, extend and
read; one array of addresses beside arrays of words, so that both ways of handing on
an element occur. *CoreMem.* Three objects: a literal, a slice or a concatenation of it, and one
that could overwrite both; flat and nested literals, so that a length is not the number
of words. *Abi.* Lengths up to 2, two words, all types of two levels. *U32Arith, ConstFold,
MemCompare.* `W` scales the 32 bits down; the modulus keeps the form 2^2W - 2^W + 1 of the real one, so
overflow, wrap-around and the two halves of a word occur. *Statements.* Two levels of loops
and conditionals, every outcome of every condition. *Structs.* Three structs with two
fields each. *ExprTypes, ConstFold.* Two levels of operators. *Calls.* Up to three functions of a
name with up to two parameters. *Bindings.* Two names, three levels of blocks. *Imports.* Three files in two
directories: a diamond, a circle of two and of three, and a file found by two
spellings.

*Shifts and powers.* `MaxExp` is below twice the width: a shift by more would wrap the
power of two around the modulus, which no document speaks of.

**Fairness.** `Liveness` and `RegAlloc` assume weak fairness of their next-state
action, `MCFrontEnd` of the steps of imports and of structs: the code is a sequential loop or recursion, so a step that can be taken is
taken. No choice inside a step is assumed fair. The other parts state no liveness; there
a run that does not end shows as a difference.

**Deadlock.** `liveness`, `regalloc` and `runtime` check for deadlock: a failed `unwrap`
or map lookup, or a store to a place that does not exist, leaves no action enabled. In
`layout`, `backend`, `ir`, `expressions` and `frontend` the model ends where the code
returns or the bound is reached, so the configuration says `CHECK_DEADLOCK FALSE`, and a
panic is a value of `pc` or `phase` that a property excludes.

**Mutants.** For every property of a passing run, `PROJECT.json` names a definition
and a mutated form of it (an operator that stands in front of the definition and is
used nowhere else) that violates the property in that run.

## Findings

Each is a run that violates one property; `PROJECT.json` quotes the comment, document,
assertion or test the code disagrees with and the line.

* `regalloc_sub` (codegen/isa/ola/lower/bin.rs:34): a subtraction whose left operand was spilled: the reload is given r7 between the two instructions that pass the negated right operand in r7.
* `backend_power` (codegen/isa/ola/pass/eliminate_phi.rs:44): u32_power branches back to its own phis: the copies sit behind the conditional jump and the loop never ends.
* `runtime_pop` (irgen/storage.rs:121): pop leaves the element it removes in its slot and clears another one.
* `frontend_do` (irgen/statements.rs:250): a break behind an inner do-while jumps to the end of the do-while.

## Where the code and its documents disagree

These were met while the definitions were translated. The models do what the code does;
the inputs that lead there are left out of the instances, or the property says that it
does not speak of them (`NoSkip`, `Crowded`, `astray`, `sure`, `Stray`, `OneWayBack`).
One place is decided for the code: the documents give two readings of the upper end of
a slice, and `Contents` has the half-open one, which the code and the repository's
example program share.
Each line names the place in the code and the document, comment or test that says
otherwise.

`Liveness`

* codegen/pass/liveness.rs:444: in the loop that irgen emits for u32_power the value a phi takes from the back edge is not live-out of the block that computes it. Against codegen/pass/liveness.rs:122, codegen/isa/ola/pass/eliminate_phi.rs:43-69.

`RegAlloc`

* codegen/pass/spiller.rs:49: a greater-than branch under register pressure: the first result that the and instruction reads is not reloaded. Against codegen/isa/ola/lower/br.rs:41-47.
* codegen/pass/spiller.rs:154: a sum of products passed to a call in the entry block: reloads are inserted until no point is left, and insert_inst_before recomputes the points without ever making room. Against docs/ola-compiler/compiler-backend.md:165-167.

`Frame`

* codegen/isa/ola/lower/store.rs:286: element 2 of an array of three words in a slot is stored to one word and loaded from another. Against codegen/isa/ola/lower/load.rs:272, codegen/isa/ola/lower/gep.rs:313-314.

`Lowering`

* codegen/isa/ola/lower/mod.rs:179: a load through a getelementptr that is laid out later: the base gets an empty register and is never computed. Against codegen/isa/ola/lower/mod.rs:178.
* codegen/isa/ola/lower/store.rs:454: a store to a fixed-size array at a variable index runs into an assertion that no parsed program satisfies. Against codegen/isa/ola/lower/store.rs:454, codegen/core/parser/assembly/types.rs:40.
* codegen/isa/ola/lower/mod.rs:89: a function with seven parameters indexes past the six argument registers before the assertion that allows eight. Against codegen/isa/ola/lower/mod.rs:94.

`Storage`

* irgen/storage.rs:456: a struct with an array field: the field behind the array is stored over its first element. Against sema/types.rs:954.
* irgen/expression.rs:1231: m[k][i] of a dynamic array in a mapping is stored elsewhere than m[k] reads it. Against examples/source/quickstart/proposal.ola:16.
* irgen/storage.rs:475: an array of addresses, hashes or contracts that is stored as a whole, by an assignment or inside a pushed or assigned struct or mapping element: the place of each element in the array is taken for its address, and words of the array (pointers) are stored. The model stores a value that no program assigns (`ElementPlace`), and `astray` excuses the variable from then on; elements assigned or pushed one by one are right. Against irgen/storage.rs:476-486, irgen/storage.rs:335-344.
* irgen/storage.rs:344: an array of arrays is stored with the type of its innermost elements, and loaded row by row; no instance has arrays of more than one dimension in storage. Against irgen/storage.rs:155.

`Abi`

* irgen/expression.rs:1141: the result of a call by contract type is decoded from its length word. Against examples/source/cross_call/caller.ola:10-11, irgen/expression.rs:1602.
* irgen/encoding/decode.rs:88: a fixed array of addresses is decoded through a pointer nobody has written. Against examples/source/array/array_fixed/array_input_and_output.ola:27.
* irgen/encoding/decode.rs:407: the inner arrays of u32[][] are read at twice the offset. Against examples/source/array/array_dynamic/array_dynamic_2d.ola:16.
* sema/types.rs:792: a struct in a struct: the outer object is allocated too small for its layout. Against sema/types.rs:764.

`U32Arith`

* irgen/expression.rs:236: x++ at the largest u32 and x-- at zero leave the u32 range without a check. Against docs/appendix.md:23.
* irgen/corelib.rs:571: the quotient u32_div_mod accepts is not range checked: the check is applied to the pointer it is stored through. Against irgen/corelib.rs:568.
* irgen/expression.rs:53: addition and subtraction of field values abort when the result is not a u32. Against docs/ola-langugae.md:103, docs/ola-langugae.md:326.

`MemCompare`

* irgen/corelib.rs:1041: of two addresses each can be greater than the other. Against docs/ola-langugae.md:316.
* irgen/expression.rs:1489: comparing strings of different lengths stops the transaction instead of giving false. Against docs/ola-langugae.md:345.

`CoreMem`

* irgen/corelib.rs:359: fields_concat copies the second operand twice, with the length of the first. Against docs/ola-langugae.md:568.
* irgen/expression.rs:553: code_address and current_address read each other's place on the tape. Against irgen/binary.rs:432-433.
* sema/expression/literals.rs:493: the sub arrays of a nested literal are compared only with their siblings, so [[[1, 2]], [[3, 4, 5]]] is accepted and its last value is stored over the first. Against sema/expression/literals.rs:479-480.
* irgen/expression.rs:1362: a slice leaves out the element at its upper end; the model has the half-open slices that "similar to rust" in the same paragraph and the assertion in examples/source/array/array_slice.ola:5-7 describe. Against docs/ola-langugae.md:173-174.
* irgen/expression.rs:1354: the empty slice behind the last element, a[n:n], and every slice of an empty array stop the transaction; no property says which slices must pass. Against docs/ola-langugae.md:169.
* irgen/expression.rs:1375: a slice of a nested array takes its bounds from the outer dimension and copies as many single words as rows are asked for; such a slice is built as the code builds it, with `sure` false. Against docs/ola-langugae.md:169.

`Statements`

* irgen/statements.rs:177: a continue in an endless for whose body does not reach its end jumps to a block that was never filled. Against sema/statements.rs:482.
* irgen/functions.rs:80: falling off the end of a function with two named return values returns neither. Against docs/ola-examples.md:135-139.
* irgen/statements.rs:64: a bare return in a function with a named return value returns nothing. Against sema/statements.rs:62-64.

`Structs`

* sema/types.rs:967: a struct with an array of itself sends the count of its slots into an endless recursion. Against sema/types.rs:118-119.
* sema/types.rs:174: a struct that contains itself is not rejected when a mapping back to itself is found first. Against sema/types.rs:106-107.

`ExprTypes`

* sema/expression/arithmetic.rs:199: a right shift of a storage variable shifts the number of its slot. Against docs/ola-langugae.md:366, sema/expression/arithmetic.rs:191.
* sema/expression/arithmetic.rs:229: a product whose type is not known is computed in a width for which there is no code. Against sema/expression/arithmetic.rs:229.
* sema/expression/assign.rs:158: the check for compound operators on a field looks at the type of the reference. Against sema/expression/assign.rs:158.
* sema/expression/integers.rs:86: two addresses may be added. Against docs/ola-compiler/compiler-frontend.md:58.
* irgen/expression.rs:1000: there is no code for reading a constant. Against docs/ola-langugae.md:297.

`ConstFold`

* sema/eval.rs:218: an operation on two literals inside a larger constant is not checked. Against sema/eval.rs:191-193.
* sema/eval.rs:218: a literal that is no u32 inside a constant that is one makes the program compute another value. Against sema/eval.rs:191-193.
* sema/eval.rs:154: the complement in the length of an array is a negative number. Against docs/ola-langugae.md:367.

`Calls`

* sema/expression/function_call.rs:105: a function that takes the arguments is not found behind one of another length and one of other types. Against sema/diagnostics.rs:56.
* irgen/functions.rs:49: two functions of one name share one LLVM function. Against irgen/functions.rs:39-40.
* sema/expression/retrieve_type.rs:60: a call with two results used as a value stops the compiler. Against sema/expression/retrieve_type.rs:60.
* irgen/expression.rs:336: a call of another contract as a statement stops the compiler. Against irgen/expression.rs:1134.
* irgen/expression.rs:1756: print of a contract stops the compiler. Against docs/ola-langugae.md:568.
* irgen/functions.rs:40: a function named as one of the core library stops the compiler. Against irgen/functions.rs:39.

`Bindings`

* irgen/expression.rs:1428: a string assigned in one branch is taken to have been assigned in both. Against docs/ola-langugae.md:25-26.
* irgen/statements.rs:508: a number assigned by destructuring cannot be read. Against ola-parser/testdata/semanticTests/types/nested_tuples.ola:24-26.
* irgen/statements.rs:498: a struct declared by destructuring is read from the wrong place. Against ola-parser/testdata/semanticTests/various/typed_multi_variable_declaration.ola:15-16.
* irgen/functions.rs:83: a string as a named return value is not returned at the end of the function. Against sema/statements.rs:62-64.
* irgen/statements.rs:414: a function that returns two numbers cannot be compiled. Against docs/ola-examples.md:151-154.
* sema/statements.rs:777: a destructuring may use the variables it declares. Against docs/ola-langugae.md:19.

`DomTree`

* codegen/core/pass/analysis/dom_tree.rs:198: the graph of if (a || b): a block is reported as dominated by one of two ways into it. Against dom_tree.rs:34, docs/ola-compiler/compiler-backend.md:32.

`IrPasses`

* codegen/core/pass/transform/sccp.rs:45: a branch on a constant that is false is folded to the branch taken when it is true. Against sccp.rs:46, sccp.rs:54.
* codegen/core/pass/transform/mem2reg.rs:211: a store that no load comes after is left without its cell. Against docs/ola-compiler/compiler-backend.md:32.
* codegen/core/pass/transform/mem2reg.rs:360: a variable set and read in the body of a loop ends the pass with a panic. Against mem2reg.rs:360.
* codegen/core/pass/transform/dce.rs:34: an unused value with the same argument twice ends dead code elimination with a panic. Against dce.rs:34.
* codegen/core/pass/transform/sccp.rs:122: a phi fed by the entry block is folded to its other argument. Against sccp.rs:118-127, sccp.rs:117.

`Imports`

* sema/mod.rs:93: a library call across a circle of imports is rejected. Against contracts.rs:73-74.
* sema/functions.rs:114: a contract with one function twice is accepted. Against functions.rs:124, contracts.rs:47-54.

The optimization passes of `IrPasses` are reached from `codegen/examples/compiler.rs` only;
`olac` does not run them. Theorem `RescaleBeforeMakesNoRoom` shows for every function why the
renumbering in `insert_inst_before` can never make room.

## Proofs

TLAPS checks all of these. The constants are arbitrary except for what the theorem or
one of these assumptions says:

| hypothesis | says | why the code justifies it | evaluated by |
|---|---|---|---|
| `LayoutAssumption` | the arenas hand out finitely many ids, `None` is not one | `id_arena`: an id is an index into a `Vec` | `layout` |
| `LivenessAssumption` | a function's preds, def and visits speak of its blocks | they are read off its layout | `liveness` |
| `RegistersAssumption` | the register lists name physical registers | the tables in `register.rs` | `regalloc` |
| `FunctionsAssumption` | every instruction stands in exactly one place of one block; no register above `nregs` is named; an operand that names a register without a flag names a physical one | `Layout`; the lowering flags every vreg operand | `regalloc` |
| `TWO_POWER \in Nat \ {0}`, `MaxLen \in Nat` | the size of a half-word and the bound on lengths | 2^32 in `corelib.rs` | `runtime`, through `RuntimeAssumption` |
| `ArithAssumption` | a word has at least two bits, exponents are below twice that | the code has 32; a larger exponent takes the power of two around the modulus, and then 2^r counts as a word | `runtime`, `expressions` |
| `HeapAssumption` | literals and the words in them are what their types say; the dimensions of an array literal are positive | `resolve_array_literal` wants an element, and a dimension of 0 would be a division by zero in `irgen`; the values need not be as many as the words of the type | `runtime` |
| `CodeOK` | sizes and alignments of slots are whole words | `get_size_of` and `get_align_of` for what `alloca` and the spiller place | `backend`, through `FrameAssumption` |

* `LayoutProofs`: `LayoutTypeCorrect` and `LayoutLinked`. `Linked` is not inductive
  alone: a node linked to itself has consistent links, and unlinking it leaves it half
  removed. The invariant adds `Acyclic`: the next links run along some strict order
  of the instructions.
  `LayoutImplementsLayoutSeq` is the refinement: what `block_iter` and `inst_iter` yield
  changes as the sequences of `LayoutSeq` do. Its invariant `Represented` says that there
  are an order of the blocks and one list per block that the pointers represent: `first`
  and `last` are its ends, `next` and `prev` of the k-th element are the elements beside
  it, and it holds every node of the block once. A list without repetitions is no longer
  than its set is large, so the capped walk of the model reaches its end (`IterIs`); here
  the arenas must be finite. `EnterList` and `RemoveList` say what entering and unlinking
  a node make of a list, at its ends and inside; each operation is one of the two, at the
  place that `Append`, `InsertAt` and `RemoveAt` of `LayoutSeq` name.
* `LivenessProofs`: `LivenessTypeCorrect`, `LiveOutAlwaysHasRange`, `LivenessSound`,
  `LivenessExact` and `FirstPhiInputReachesPred`, for every graph and every order of the
  predecessors. While the recursion runs, a live-in register need not be live-out of all
  predecessors yet; the invariant says that each missing predecessor is still to be
  walked by an activation on the stack (`FlowsBackOrPending`). When the stack is empty,
  nothing is missing. `Exact` needs the other direction too: `OnlyNeeded` says that
  every live-in register is in every solution of the inequations. `propagate_reg` keeps
  that when it walks to a predecessor, because the activation that walks has its register
  live-in (`StackLive`). A phi operand goes to one predecessor only, and a later one
  that finds its register live-in goes nowhere, so what holds for phis holds for the
  first operand of a register in a block (`PhiInputOrPending`).
* `RegAllocProofs` starts with the points: the midpoint lies strictly between its neighbours;
  renumbering keeps the order of points and all interferences; it makes room behind
  the anchor (`insert_inst_after`) and none in front of it (`insert_inst_before`).
  Then `RegAllocNoConflict`. The invariant adds that ranges are made of
  points (so that renumbering preserves interference), that the merged range of a
  register contains the range of every vreg assigned to it (so that the test against
  it covers them all), and that the assigned vregs, the worklist, the vreg being
  spilled and the new vregs are disjoint (so that no range of an assigned vreg is
  ever replaced). Min and Max of the touches of a block exist by the well-foundedness
  of the naturals.
* `RangesProofs`: `RegAllocRangesCover`. `RangesCover` speaks of the states between two
  spills and is broken within one. The invariant `CInv` says what is left of it then:
  only the vreg being spilled and the new ones have no range (`Covered`). The lists of
  the spiller hold every definition, then every use of the spilled vreg (`Listed`), so
  that no instruction names it when they are empty; this needs that removing duplicates
  drops no definition, hence that the points follow the layout (`LaidOut`). Each new vreg
  is named by two instructions, the write before the read (`Paired`), so that
  the range computed for it covers both. Between the two halves of an insertion the
  points read for it are those of its neighbours, or lie before them after a
  renumbering (`InsertingOK`). Exhausted points end in `panic`, of which nothing is claimed.
* `MemCompareProofs`: `CompareConsistent`, for words of any size and blocks of any
  length. The invariant says of a running loop that all words before the loop variable
  have passed (`Loop`), and of every function that has returned that its verdict is the
  one of its predicate over all words (`Called`); the blocks never change. What is left
  is arithmetic: an element of the field is its two halves, and elements whose halves
  are ordered alike are ordered.
* `FrameProofs`: `FrameReturnsHome` and `FrameSlotsKept`, for every set of functions, any
  number of slots of any word-sized types, and every nesting of calls (`MaxDepth` is
  arbitrary). `Placement` says where the slots end: in the frame, each behind its
  predecessors by its own size at least, below the two words kept for calls; it rests on
  `AlignedIs`, that `align_to` neither shrinks an offset nor leaves the word boundaries,
  also for alignments that are no powers of two, which is what `& !(align - 1)` is wrong
  for otherwise. The invariant `FrameInv` is that frames follow each other without
  overlap (`Stacked`), that every function that calls finds its frame pointer and, once
  it has called, its return address (`Saved`), and that the words of a slot hold what was
  stored (`Stored`). `ReturnsHome` alone is not inductive: a return reads the two words
  from memory.

* `U32ArithProofs`: `ArithExact`, for words of any width. The invariant `ExactInv` adds
  that the variable holds a word until an unchecked step has left the range. Each
  operation has a lemma of its own. A sum or a product of two words needs no wrap (`ProductFits`), and
  a negative difference lands above every word (`ModNegative`), so the range check sees
  it; a shift stays below 2^2W and is checked twice. The three checks of `u32_div_mod`
  accept the honest answer and refuse every answer to a zero divisor. Two words
  whose squares are equal modulo the prime are equal, so `u32_sqrt` fixes the
  root. `Bitwise` of two words is a word (`BitwiseFits`).
* `CoreMemProofs`: `HeapContents`, for words, literals, dimensions and lengths of any
  size. `Contents` alone is not inductive: an object whose words lie partly behind the
  end of the heap would read as unset now and be overwritten by the next one. The
  invariant `HeapInv` says where the words of each object stand (`Block`, `VecAt`), and
  each operation has a lemma that its heap `Extends` the one before. The order of a
  nested literal is arithmetic: the indices that `ArrayLiteral` takes from the number of a
  value are its digits in the radix of the dimensions, innermost first, and
  `getelementptr` adds them up to the number again (`MixedRadix`, `GepIs`), so the loop
  over the values is one store (`StoreValuesIs`). That a slice which passes its checks
  lies within its array needs that the words of an array are its outer dimension times
  those of a row (`Shaped`, `TimesMonotone`). Four kinds of objects are not what the
  program asked for: `fields_concat` of operands that differ, the code and the current
  address, a literal whose sub arrays differ in length, and a slice of a nested array
  (see *Where the code and its documents disagree*). They are built in the model as the code builds them, with `sure`
  false: the theorem claims nothing of their contents, only that they disturb no other
  object (`StoreValuesStays`, `MemcpyIs`).

The library's induction theorems take an operator as a parameter and cannot be used
here. `FrameProofs`, `LayoutProofs`, `U32ArithProofs` and `CoreMemProofs` have induction
over a set instead (`NatInduct` and `Ascend`, from the well-foundedness of the
naturals): `BitAnd` of `FrameOps`, the loop over the slots, the walk of an iterator,
powers, the loop of `u32_power`, the sizes of dimensions and the loop over the values of
a literal are recursive functions, shown there to satisfy their equations (a solution
exists up to every bound, two solutions agree) before anything is proved by induction
over them.

Only model-checked:

* Everything about liveness under fairness (`Terminates`, `Ends`, `OffsetsSettle`), which
  TLAPS does not reach.
* `Preserved`, `SameMeaning`, `Lowers`, `SameRuns`, `SameTrace` and `ReadsLastWrite`, which
  run a program, and the properties of `DomTree`, `Storage`, `Abi`, `Statements`,
  `Bindings`, `Imports`, `Structs` and the expression modules, whose
  definitions are folds or `RECURSIVE` operators over values and types.

## Not modelled

* Text formats and output: the parser of the language (generated), the parser of the
  LLVM text, printer, command line, diagnostics and the graph output. They have no
  state that a later step could find wrong.
* The containers of the IR: its layout repeats the machine layout.
* Warnings: unused variables (`unused_variable.rs`) and shadowed names. They never
  change what is accepted or generated.
* Enums and type declarations, which follow the path of structs in the tables.
* `buffer_validator.rs`, which is commented out in the source.
* Import maps (`add_import_map`), which `olac` never sets.
* The hash, signature and storage chips of the machine: functions that are injective
  or arbitrary in the models.
* Phis inside `RegAlloc`: the ranges of phi operands are wrong before it starts
  (`codegen/pass/liveness.rs:444`).

## Plan

1. Proofs: `ScopesRespected` of `Bindings` (the numbers in the open scopes are those of the
   visible declarations); `AcceptedRight` of `Imports`, its part about files that are read once first; and the
   links that `DomTree` compresses. Each needs its operators written as recursive
   functions first.
2. `RegAlloc` composed with `LatePasses` for functions with phis, should the liveness
   of phi operands be changed.
3. Unused variables, enums and type declarations.
