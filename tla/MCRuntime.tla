----------------------------- MODULE MCRuntime -----------------------------
(***************************************************************************)
(* What the generated code of a contract does while it runs: its storage,  *)
(* the calls it makes, u32 arithmetic, the comparison functions and the    *)
(* heap.  The five parts share no state but the machine, so a behaviour is *)
(* a behaviour of one of them, named by part; the variables of the others  *)
(* are idle.  Parts selects the parts a configuration looks at.  Init,     *)
(* Next and Consistent are those of the comparison functions; W, MaxExp,   *)
(* the actions with Arith in their names and Exact those of arithmetic;    *)
(* the actions with Heap in their names and Contents those of the heap.    *)
(***************************************************************************)
EXTENDS MemCompare, U32Arith, CoreMem

CONSTANTS Parts,
          Vars, MaxOps, MapKeys, StoreWords, StoreLen,
          Funcs, Unknown, Addrs, CallWords, CallLen, Garbage

VARIABLES part,
          cells, val, popped, astray, ops,        \* storage
          phase, call, tape, got, ret, rcv, bad   \* calls

S == INSTANCE Storage WITH Words <- StoreWords, MaxLen <- StoreLen, st <- cells
A == INSTANCE Abi WITH Words <- CallWords, MaxLen <- CallLen

ASSUME RuntimeAssumption ==
  /\ {StoreLen, MaxOps, CallLen, MaxLen} \subseteq Nat /\ TWO_POWER \in Nat \ {0}
  /\ 0 \in StoreWords /\ S!ElementPlace \notin StoreWords
  /\ \A f \in DOMAIN Funcs : Funcs[f].sel # Unknown /\ Len(Funcs[f].ret) <= 1
  /\ \A f, g \in DOMAIN Funcs : Funcs[f].sel = Funcs[g].sel => f = g

stVars == <<cells, val, popped, astray, ops>>
callVars == <<phase, call, tape, got, ret, rcv, bad>>
runtimeVars == <<part, stVars, callVars, arithVars, vars, heapVars>>

NoStorage == cells = 0 /\ val = 0 /\ popped = {} /\ astray = {} /\ ops = 0
NoCalls == phase = 0 /\ call = 0 /\ tape = 0 /\ got = 0 /\ ret = 0 /\ rcv = 0 /\ bad = 0
NoArith == x = Overflow /\ exact = Overflow /\ st = "idle" /\ null = 0
NoCompare == left = 0 /\ right = 0 /\ fns = 0 /\ pc = "idle" /\ index = 0 /\ low = 0 /\ answers = 0
NoHeap == mem = <<>> /\ objs = <<>> /\ aborted = FALSE

RuntimeInit ==
  /\ part \in Parts
  /\ \/ part = "storage" /\ S!Init /\ NoCalls /\ NoArith /\ NoCompare /\ NoHeap
     \/ part = "calls" /\ A!Init /\ NoStorage /\ NoArith /\ NoCompare /\ NoHeap
     \/ part = "arith" /\ ArithInit /\ NoStorage /\ NoCalls /\ NoCompare /\ NoHeap
     \/ part = "compare" /\ Init /\ NoStorage /\ NoCalls /\ NoArith /\ NoHeap
     \/ part = "heap" /\ HeapInit /\ NoStorage /\ NoCalls /\ NoArith /\ NoCompare

StorageStep == part = "storage" /\ S!Next
               /\ UNCHANGED <<part, callVars, arithVars, vars, heapVars>>
StorageDone == part = "storage" /\ ops = MaxOps /\ UNCHANGED runtimeVars
CallStep == part = "calls" /\ A!Next
            /\ UNCHANGED <<part, stVars, arithVars, vars, heapVars>>
ArithStep == part = "arith" /\ ArithNext
             /\ UNCHANGED <<part, stVars, callVars, vars, heapVars>>
CompareStep == part = "compare" /\ Next
               /\ UNCHANGED <<part, stVars, callVars, arithVars, heapVars>>
HeapStep == part = "heap" /\ HeapNext
            /\ UNCHANGED <<part, stVars, callVars, arithVars, vars>>

RuntimeNext == StorageStep \/ StorageDone \/ CallStep \/ ArithStep \/ CompareStep \/ HeapStep

RuntimeSpec == RuntimeInit /\ [][RuntimeNext]_runtimeVars

----------------------------------------------------------------------------
(* Contracts and callees. *)
Word == [k |-> "word"]
Addr == [k |-> "addr"]
Str  == [k |-> "string"]
Map(t) == [k |-> "map", elem |-> t]
Struct(fs) == [k |-> "struct", fs |-> fs]
DynArray(t) == [k |-> "dyn", elem |-> t]
FixedArray(n, t) == [k |-> "array", n |-> n, elem |-> t]

(* Variables of the kinds whose layout the accesses agree on. *)
Flat == <<Word, Str, DynArray(Addr), FixedArray(2, Word),
          Struct(<<Addr, Str, Word>>), Map(Struct(<<Word, Addr>>)),
          Map(DynArray(Word))>>

(* An array to pop from. *)
DynOnly == <<DynArray(Word), Word>>

TwoAddrs == {<<1, 2, 3, 4>>, <<5, 6, 7, 8>>}
Fn(s, ps, r) == [sel |-> s, params |-> ps, ret |-> r]
Dyn == -1
Arr(e, dims) == [k |-> "array", elem |-> e, dims |-> dims]

(* Parameters and results of the kinds that arrive. *)
Callee == <<Fn(101, <<Word, Addr>>, <<Word>>),
            Fn(102, <<Str, Word>>, <<Str>>),
            Fn(103, <<Arr(Word, <<Dyn>>), Addr>>, <<>>),
            Fn(104, <<Arr(Word, <<2, 2>>), Word>>, <<Arr(Word, <<2>>)>>),
            Fn(105, <<Arr(Addr, <<Dyn>>), Word>>, <<Arr(Addr, <<Dyn>>)>>),
            Fn(106, <<Struct(<<Word, Addr, Str>>), Word>>, <<Struct(<<Str, Word>>)>>),
            Fn(107, <<Arr(Struct(<<Word, Str>>), <<Dyn>>)>>, <<Addr>>),
            Fn(108, <<Arr(Str, <<Dyn>>), Word>>, <<Word>>)>>

----------------------------------------------------------------------------
(* Literals, the elements of a nested one in the order they are written.   *)
TwoHashes == {<<0, 1, 0, 1>>, <<1, 1, 0, 0>>}
ShortTexts == UNION {[1 .. n -> {0, 1}] : n \in 0 .. 2}
              \cup {[i \in 1 .. 8 |-> (i + k) % 2] : k \in {0, 1}}
OneTuple == {<<1, 0>>}
Literals == {[dims |-> <<3>>, values |-> <<0, 1, 1>>],
           [dims |-> <<3, 2>>, values |-> <<0, 1, 0, 1, 1, 0>>],
           [dims |-> <<1, 2, 2>>, values |-> <<1, 0, 0, 1>>],
           [dims |-> <<2, 1, 2>>, values |-> <<1, 0, 0, 1, 1>>]}

----------------------------------------------------------------------------
(* Storage (irgen/storage.rs): reading a variable gives what was last      *)
(* assigned to it, whatever else was stored, pushed, popped or deleted.    *)
ReadsBack == part = "storage" => S!ReadsBack

(* Storage (irgen/storage.rs): what lies behind the end of a dynamic array *)
(* is zero after assignments, pushes and deletes.                          *)
NothingBehind == part = "storage" => S!NothingBehind

(* Storage (storage_array_pop): a pop clears what it takes off the array.  *)
PopClears == part = "storage" => S!PopClears

(* Calls (irgen/encoding, the dispatcher of irgen/contract.rs): the callee *)
(* sees the arguments the caller passed.                                   *)
ArgsArrive == part = "calls" => A!ArgsArrive

(* Calls (external_call, abi_decode): the caller sees what was returned.   *)
ResultArrives == part = "calls" => A!ResultArrives

(* Calls (abi_encode): no store of an encoder or decoder misses the object *)
(* whose size was computed before.                                         *)
InBounds == part = "calls" => A!InBounds
=============================================================================
