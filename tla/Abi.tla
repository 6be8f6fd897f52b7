-------------------------------- MODULE Abi --------------------------------
(* Calls between contracts: a caller encodes a selector and arguments,     *)
(* puts them on the tape and calls; the callee reads the tape, dispatches  *)
(* on the selector, decodes, runs, and puts its encoded result on the      *)
(* tape; the caller decodes it.                                            *)
(*                                                                         *)
(* A type is [k |-> "word"], [k |-> "addr"] (four words), [k |-> "string"],*)
(* [k |-> "array", elem, dims] with the outermost dimension last and Dyn   *)
(* for a dynamic one, or [k |-> "struct", fs].  A heap is [m, bad, g]: its *)
(* words, whether a store missed every object, and the word that a stack   *)
(* variable nobody wrote holds.                                            *)
EXTENDS SequencesExt, Integers

CONSTANTS Funcs,     \* the callee: a sequence of [sel, params, ret]
          Unknown,   \* a selector of no function
          Words, Addrs, MaxLen,   \* bounds on the values sent
          Garbage    \* what an unwritten stack variable may hold

VARIABLES phase,  \* "idle", "calling", "entered", "returned", "done", "abort"
          call,   \* [f, args, high]: what is being called, and how
          tape,   \* the words on the tape
          got,    \* the arguments the callee has decoded
          ret,    \* the values the callee returns
          rcv,    \* the values the caller has decoded
          bad     \* some store missed every object

vars == <<phase, call, tape, got, ret, rcv, bad>>

Dyn == -1
Word == [k |-> "word"]
Addr == [k |-> "addr"]
Str == [k |-> "string"]
Arr(elem, dims) == [k |-> "array", elem |-> elem, dims |-> dims]
Struct(fs) == [k |-> "struct", fs |-> fs]

SumOver(s, Op(_)) == FoldLeft(LAMBDA a, x : a + Op(x), 0, s)
Product(s) == FoldLeft(LAMBDA a, x : a * x, 1, s)
Indices(n) == [i \in 1 .. n |-> i - 1]

(* What is done with a value, such as the heap and the result of a step.   *)
With(x, K(_)) == K(x)

-----------------------------------------------------------------------------
(* The heap.                                                               *)
Malloc(h, n) == [h |-> [h EXCEPT !.m = @ \o [i \in 1 .. n |-> 0]], p |-> Len(h.m) + 1]

Ld(h, p) == IF p \in DOMAIN h.m THEN h.m[p] ELSE 0

Sto(h, p, v) == IF p \in DOMAIN h.m THEN [h EXCEPT !.m[p] = v] ELSE [h EXCEPT !.bad = TRUE]

VectorNew(h, n) == LET a == Malloc(h, n + 1) IN [h |-> Sto(a.h, a.p, n), p |-> a.p]
VectorLen(h, v) == Ld(h, v)

Memcpy(h, src, dst, n) == FoldLeft(LAMBDA g, i : Sto(g, dst + i, Ld(g, src + i)), h, Indices(n))

WordsAt(h, p, n) == [i \in 1 .. n |-> Ld(h, p + i - 1)]
Fill(h, p, s) == FoldLeft(LAMBDA g, i : Sto(g, p + i - 1, s[i]), h, [i \in DOMAIN s |-> i])

-----------------------------------------------------------------------------
(* Types: sizes and places.                                                *)
IsPrimitive(ty) == ty.k = "word"
IsReference(ty) == ty.k \in {"string", "array", "struct"}

RECURSIVE IsDynamic(_)
IsDynamic(ty) ==
  \/ ty.k = "string"
  \/ ty.k = "array" /\ ((\E i \in DOMAIN ty.dims : ty.dims[i] = Dyn) \/ IsDynamic(ty.elem))
  \/ ty.k = "struct" /\ \E i \in DOMAIN ty.fs : IsDynamic(ty.fs[i])

RECURSIVE MemorySize(_)
MemorySize(ty) ==
  CASE ty.k = "addr" -> 4
    [] ty.k = "array" -> MemorySize(ty.elem) * Product([i \in DOMAIN ty.dims |-> IF ty.dims[i] = Dyn THEN 1 ELSE ty.dims[i]])
    [] ty.k = "struct" -> Len(ty.fs)
    [] OTHER -> 1

(* type_size_of: what is allocated for a value.                            *)
TypeSize(ty) ==
  CASE ty.k = "array" -> Product([i \in DOMAIN ty.dims |-> IF ty.dims[i] = Dyn THEN 1 ELSE ty.dims[i]])
    [] ty.k = "struct" -> Len(ty.fs)
    [] OTHER -> 1

(* llvm_field_ty: a struct in a struct is in line, an array is a pointer.  *)
RECURSIVE FieldSize(_)
FieldSize(ty) == IF ty.k = "struct" THEN SumOver(ty.fs, FieldSize) ELSE 1

(* llvm_type of an array                                                   *)
ArraySize(elem, dims) ==
  FoldLeft(LAMBDA a, d : IF d = Dyn THEN 1 ELSE a * d, FieldSize(elem), dims)

StructGep(ty, p, i) == p + SumOver(SubSeq(ty.fs, 1, i - 1), FieldSize)

ArrayDeref(ty) == IF Len(ty.dims) = 1 THEN ty.elem ELSE Arr(ty.elem, Front(ty.dims))

(* array_subscript in memory: the place of element i                       *)
ElemPlace(ty, p, i) ==
  IF Last(ty.dims) = Dyn THEN p + 1 + i ELSE p + i * ArraySize(ty.elem, Front(ty.dims))

(* index_array: one index for each outer dimension; the element is loaded  *)
(* at every step, whatever the dimension.                                  *)
IndexArray(h, arr, ty, dims, idx) ==
  FoldLeft(LAMBDA r, k :
             With(ElemPlace(r.ty, r.v, idx[k]), LAMBDA p :
               [v |-> Ld(h, p), p |-> p,
                ty |-> IF k = Len(dims) THEN ty.elem ELSE Arr(ty.elem, SubSeq(dims, 1, Len(dims) - k))]),
           [v |-> arr, p |-> 0, ty |-> ty], [k \in DOMAIN idx |-> k])

LoopBound(h, arr, ty, dims, d, idx) ==
  IF dims[d] # Dyn THEN dims[d] ELSE VectorLen(h, IndexArray(h, arr, ty, dims, idx).v)

RECURSIVE AllowMemcpy(_)
AllowMemcpy(ty) ==
  IF ty.k = "array" THEN (~IsDynamic(ty) \/ Len(ty.dims) = 1) /\ AllowMemcpy(ty.elem) ELSE IsPrimitive(ty)

-----------------------------------------------------------------------------
(* The size of the encoding of a value.                                    *)
None == -1
RECURSIVE NonPaddedSize(_)
NonPaddedSize(ty) ==
  FoldLeft(LAMBDA a, f : With(IF IsPrimitive(f) THEN MemorySize(f) ELSE IF f.k = "struct" THEN NonPaddedSize(f) ELSE None,
                              LAMBDA n : IF a = None \/ n = None THEN None ELSE a + n),
           0, ty.fs)

RECURSIVE ArgSize(_, _, _)
RECURSIVE ComplexArraySize(_, _, _, _, _, _)
ComplexArraySize(h, arr, ty, d, idx, size) ==
  LET size1 == IF ty.dims[d] = Dyn THEN size + 1 ELSE size
  IN  FoldLeft(LAMBDA s, i :
                 IF d = 1 THEN s + ArgSize(h, ty.elem, IndexArray(h, arr, ty, ty.dims, Append(idx, i)).v)
                 ELSE ComplexArraySize(h, arr, ty, d - 1, Append(idx, i), s),
               size1, Indices(LoopBound(h, arr, ty, ty.dims, d, idx)))

CalcArraySize(h, ty, arr) ==
  LET dyns == {i \in DOMAIN ty.dims : ty.dims[i] = Dyn}
      n == IF dyns = {} THEN Last(ty.dims) ELSE VectorLen(h, arr)
  IN  With(CASE ~(dyns \subseteq {Len(ty.dims)}) -> None
             [] dyns \subseteq {Len(ty.dims)} /\ IsPrimitive(ty.elem) -> MemorySize(ty.elem)
             [] dyns \subseteq {Len(ty.dims)} /\ ty.elem.k = "struct" -> NonPaddedSize(ty.elem)
             [] OTHER -> None,
           LAMBDA elem :
             IF elem = None THEN ComplexArraySize(h, arr, ty, Len(ty.dims), <<>>, 0)
             ELSE n * Product(Front(ty.dims)) * elem + (IF dyns = {} THEN 0 ELSE 1))

CalcStructSize(h, ty, p) ==
  SumOver([i \in DOMAIN ty.fs |-> i],
          LAMBDA i : ArgSize(h, ty.fs[i], IF IsReference(ty.fs[i]) THEN Ld(h, StructGep(ty, p, i)) ELSE 0))

(* Mutant: the length word of a string is not counted.                     *)
ArgSizeNoLength(h, ty, v) ==
  CASE ty.k = "word" -> 1
    [] ty.k = "addr" -> 4
    [] ty.k = "string" -> VectorLen(h, v)
    [] ty.k = "array" -> CalcArraySize(h, ty, v)
    [] ty.k = "struct" -> CalcStructSize(h, ty, v)

ArgSize(h, ty, v) ==
  CASE ty.k = "word" -> 1
    [] ty.k = "addr" -> 4
    [] ty.k = "string" -> VectorLen(h, v) + 1
    [] ty.k = "array" -> CalcArraySize(h, ty, v)
    [] ty.k = "struct" -> CalcStructSize(h, ty, v)

ArgsSize(h, tys, vs) == SumOver([i \in DOMAIN tys |-> i], LAMBDA i : ArgSize(h, tys[i], vs[i]))

-----------------------------------------------------------------------------
(* Encoding: the value goes to the words at buffer, adv is how many.       *)
RECURSIVE EncodeInto(_, _, _, _)
Advanced(s, r) == [h |-> r.h, adv |-> s.adv + r.adv]

EncodeBytes(h, buffer, v) ==
  LET n == VectorLen(h, v) + 1 IN [h |-> Memcpy(h, v, buffer, n), adv |-> n]

EncodeStruct(h, buffer, p, ty) ==
  FoldLeft(LAMBDA s, i : Advanced(s, EncodeInto(s.h, buffer + s.adv, Ld(s.h, StructGep(ty, p, i)), ty.fs[i])),
           [h |-> h, adv |-> 0], [i \in DOMAIN ty.fs |-> i])

(* The length of a dynamic dimension goes first.  The type is that of the  *)
(* sub-array once it was looked up.                                        *)
EncodeLength(st, buffer, arr, ty, dims, d, idx) ==
  IF dims[d] # Dyn THEN [st |-> st, ty |-> ty]
  ELSE With(IndexArray(st.h, arr, ty, dims, idx), LAMBDA sub :
         [st |-> [h |-> Sto(st.h, buffer + st.adv, VectorLen(st.h, sub.v)), adv |-> st.adv + 1], ty |-> sub.ty])

RECURSIVE EncodeComplex(_, _, _, _, _, _, _)
EncodeComplex(st, buffer, arr, ty, dims, d, idx) ==
  With(EncodeLength(st, buffer, arr, ty, dims, d, idx), LAMBDA l :
    FoldLeft(LAMBDA s, i :
               IF d > 1 THEN EncodeComplex(s, buffer, arr, l.ty, dims, d - 1, Append(idx, i))
               ELSE With(IndexArray(s.h, arr, l.ty, dims, Append(idx, i)), LAMBDA e :
                      Advanced(s, EncodeInto(s.h, buffer + s.adv, e.v, e.ty))),
             l.st, Indices(LoopBound(l.st.h, arr, l.ty, dims, d, idx))))

EncodeArray(h, buffer, v, ty) ==
  LET n == IF Last(ty.dims) = Dyn THEN VectorLen(h, v) * MemorySize(ty.elem) + 1
           ELSE Product(ty.dims) * MemorySize(ty.elem)
  IN  IF AllowMemcpy(ty) THEN [h |-> Memcpy(h, v, buffer, n), adv |-> n]
      ELSE EncodeComplex([h |-> h, adv |-> 0], buffer, v, ty, ty.dims, Len(ty.dims), <<>>)

EncodeInto(h, buffer, v, ty) ==
  CASE ty.k = "word" -> [h |-> Sto(h, buffer, v), adv |-> 1]
    [] ty.k = "addr" -> [h |-> Memcpy(h, v, buffer, 4), adv |-> 4]
    [] ty.k = "string" -> EncodeBytes(h, buffer, v)
    [] ty.k = "array" -> EncodeArray(h, buffer, v, ty)
    [] ty.k = "struct" -> EncodeStruct(h, buffer, v, ty)

EncodeAll(h, buffer, vs, tys) ==
  FoldLeft(LAMBDA s, i : Advanced(s, EncodeInto(s.h, buffer + s.adv, vs[i], tys[i])),
           [h |-> h, adv |-> 0], [i \in DOMAIN tys |-> i])

(* abi_encode_with_selector: arguments, their size, the selector           *)
EncodeWithSelector(h, sel, vs, tys) ==
  With(ArgsSize(h, tys, vs), LAMBDA size :
  With(VectorNew(h, size + 2), LAMBDA a :
  With(EncodeAll(a.h, a.p + 1, vs, tys), LAMBDA e :
    [h |-> Fill(e.h, a.p + 1 + e.adv, <<size, sel>>), p |-> a.p])))

(* abi_encode_store_tape: the words a callee puts on the tape              *)
EncodeStoreTape(h, vs, tys) ==
  With(ArgsSize(h, tys, vs), LAMBDA size :
  With(Malloc(h, size + 1), LAMBDA a :
  With(EncodeAll(a.h, a.p, vs, tys), LAMBDA e :
  With(Sto(e.h, a.p + e.adv, size), LAMBDA g :
    [h |-> g, tape |-> WordsAt(g, a.p, size + 1)]))))

-----------------------------------------------------------------------------
(* Decoding: a value is often the place in the buffer itself.              *)
RECURSIVE ReadFrom(_, _, _)
Taken(s, r) == [h |-> r.h, adv |-> s.adv + r.adv, vs |-> Append(s.vs, r.v)]
Fresh(h) == [h |-> h, adv |-> 0, vs |-> <<>>]

DecodeStruct(h, buffer, ty) ==
  With(FoldLeft(LAMBDA s, f : Taken(s, ReadFrom(s.h, buffer + s.adv, f)), Fresh(h), ty.fs), LAMBDA r :
  With(Malloc(r.h, TypeSize(ty)), LAMBDA a :
    [h |-> FoldLeft(LAMBDA g, i : Sto(g, StructGep(ty, a.p, i), r.vs[i]), a.h, [i \in DOMAIN ty.fs |-> i]),
     v |-> a.p, adv |-> r.adv]))

(* A dynamic dimension is a new vector, entered in the array around it.    *)
DecodeLength(st, buffer, ty, d, idx) ==
  IF ty.dims[d] # Dyn THEN st
  ELSE With(VectorNew(st.h, Ld(st.h, buffer + st.adv)), LAMBDA new :
         IF idx = <<>> THEN [h |-> new.h, adv |-> st.adv + 1, arr |-> new.p]
         ELSE [st EXCEPT !.h = Sto(new.h, IndexArray(new.h, st.arr, ty, ty.dims, idx).p, new.p), !.adv = @ + 1])

(* The inner dimension is read from a buffer that was already moved by the *)
(* offset, at the offset.                                                  *)
RECURSIVE DecodeComplex(_, _, _, _, _)
DecodeComplex(st, buffer, ty, d, idx) ==
  With(DecodeLength(st, buffer, ty, d, idx), LAMBDA l :
    FoldLeft(LAMBDA s, i :
               IF d > 1 THEN DecodeComplex(s, buffer + s.adv, ty, d - 1, Append(idx, i))
               ELSE With(ReadFrom(s.h, buffer + s.adv, ty.elem), LAMBDA r :
                      [s EXCEPT !.h = Sto(r.h, IndexArray(r.h, s.arr, ty, ty.dims, Append(idx, i)).p, r.v),
                                !.adv = @ + r.adv]),
             l, Indices(LoopBound(l.h, l.arr, ty, ty.dims, d, idx))))

(* array_var is written only when the outermost dimension is dynamic.      *)
DecodeArray(h, buffer, ty) ==
  IF AllowMemcpy(ty) THEN [h |-> h, v |-> buffer, adv |-> ArgSize(h, ty, buffer)]
  ELSE With(DecodeComplex([h |-> h, adv |-> 0, arr |-> h.g], buffer, ty, Len(ty.dims), <<>>), LAMBDA r :
         [h |-> r.h, v |-> r.arr, adv |-> r.adv])

ReadFrom(h, buffer, ty) ==
  CASE ty.k = "word" -> [h |-> h, v |-> Ld(h, buffer), adv |-> 1]
    [] ty.k \in {"addr", "string"} -> [h |-> h, v |-> buffer, adv |-> ArgSize(h, ty, buffer)]
    [] ty.k = "array" -> DecodeArray(h, buffer, ty)
    [] ty.k = "struct" -> DecodeStruct(h, buffer, ty)

(* Mutant: every argument is read at the start of the input.               *)
AbiDecodeStill(h, input, tys) ==
  FoldLeft(LAMBDA s, ty : Taken(s, ReadFrom(s.h, input, ty)), Fresh(h), tys)

AbiDecode(h, input, tys) ==
  FoldLeft(LAMBDA s, ty : Taken(s, ReadFrom(s.h, input + s.adv, ty)), Fresh(h), tys)

-----------------------------------------------------------------------------
(* The tape: a load takes the last words of it.                            *)
TapeTop(t, n) == SubSeq(t, Len(t) - n + 1, Len(t))
TapeLoad(h, p, t, n) == Fill(h, p, TapeTop(t, n))

(* contract_input: calldata, its length, the selector and 12 words of      *)
(* addresses.                                                              *)
ContractInput(h, t) ==
  LET a == Malloc(h, 13)
      b == Malloc(TapeLoad(a.h, a.p, t, 13), 14)
      hb == TapeLoad(b.h, b.p, t, 14)
      len == Ld(hb, b.p)
      c == Malloc(hb, len + 14)
  IN  [h |-> TapeLoad(c.h, c.p, t, len + 14), sel |-> Ld(hb, a.p), len |-> len, p |-> c.p]

(* Mutant: the length word behind the data is not counted.                 *)
ReturnDataShort(h, t) ==
  LET a == Malloc(h, 1)
      ha == TapeLoad(a.h, a.p, t, 1)
      len == Ld(ha, a.p)
      b == Malloc(ha, len + 2)
  IN  [h |-> TapeLoad(Sto(b.h, b.p, len), b.p + 1, t, len), p |-> b.p]

(* external_call after the call: [len, data, len]                          *)
ReturnData(h, t) ==
  LET a == Malloc(h, 1)
      ha == TapeLoad(a.h, a.p, t, 1)
      len == Ld(ha, a.p)
      b == Malloc(ha, len + 2)
  IN  [h |-> TapeLoad(Sto(b.h, b.p, len), b.p + 1, t, len + 1), p |-> b.p]

-----------------------------------------------------------------------------
(* Values: how a program's own code builds and reads them.                 *)
RECURSIVE Values(_)
Values(ty) ==
  CASE ty.k = "word" -> Words
    [] ty.k = "addr" -> Addrs
    [] ty.k = "string" -> BoundedSeq(Words, MaxLen)
    [] ty.k = "array" -> IF Last(ty.dims) = Dyn THEN BoundedSeq(Values(ArrayDeref(ty)), MaxLen)
                         ELSE [1 .. Last(ty.dims) -> Values(ArrayDeref(ty))]
    [] ty.k = "struct" -> FoldLeft(LAMBDA vs, f : {Append(v, x) : v \in vs, x \in Values(f)}, {<<>>}, ty.fs)

Tuples(tys) == Values(Struct(tys))

(* An array in a fixed array is in line when it is fixed.                  *)
InLine(ty) == ty.k = "array" /\ Last(ty.dims) # Dyn

RECURSIVE Build(_, _, _)
RECURSIVE BuildAt(_, _, _, _)
BuildAt(h, p, ty, v) ==
  IF InLine(ty)
  THEN FoldLeft(LAMBDA g, i : BuildAt(g, ElemPlace(ty, p, i - 1), ArrayDeref(ty), v[i]), h, [i \in DOMAIN v |-> i])
  ELSE With(Build(h, ty, v), LAMBDA r : Sto(r.h, p, r.v))

Build(h, ty, v) ==
  LET a == IF ty.k = "addr" THEN Malloc(h, 4)
           ELSE IF ty.k = "struct" \/ InLine(ty) THEN Malloc(h, TypeSize(ty)) ELSE VectorNew(h, Len(v))
      place(i) == IF ty.k = "struct" THEN StructGep(ty, a.p, i) ELSE ElemPlace(ty, a.p, i - 1)
      part(i) == IF ty.k = "struct" THEN ty.fs[i] ELSE ArrayDeref(ty)
  IN  CASE ty.k = "word" -> [h |-> h, v |-> v]
        [] ty.k = "addr" -> [h |-> Fill(a.h, a.p, v), v |-> a.p]
        [] ty.k = "string" -> [h |-> Fill(a.h, a.p + 1, v), v |-> a.p]
        [] InLine(ty) -> [h |-> BuildAt(a.h, a.p, ty, v), v |-> a.p]
        [] OTHER ->
             [h |-> FoldLeft(LAMBDA g, i : With(Build(g, part(i), v[i]), LAMBDA r : Sto(r.h, place(i), r.v)),
                             a.h, [i \in DOMAIN v |-> i]), v |-> a.p]

RECURSIVE Meaning(_, _, _)
Meaning(h, ty, w) ==
  CASE ty.k = "word" -> w
    [] ty.k = "addr" -> WordsAt(h, w, 4)
    [] ty.k = "string" -> WordsAt(h, w + 1, VectorLen(h, w))
    [] ty.k = "struct" -> [i \in DOMAIN ty.fs |-> Meaning(h, ty.fs[i], Ld(h, StructGep(ty, w, i)))]
    [] ty.k = "array" ->
         [i \in 1 .. (IF InLine(ty) THEN Last(ty.dims) ELSE VectorLen(h, w)) |->
            With(ElemPlace(ty, w, i - 1), LAMBDA p :
              Meaning(h, ArrayDeref(ty), IF InLine(ArrayDeref(ty)) THEN p ELSE Ld(h, p)))]

BuildAll(h, tys, vs) ==
  FoldLeft(LAMBDA s, i : With(Build(s.h, tys[i], vs[i]), LAMBDA r : [h |-> r.h, ws |-> Append(s.ws, r.v)]),
           [h |-> h, ws |-> <<>>], [i \in DOMAIN tys |-> i])
Meanings(h, tys, ws) == [i \in DOMAIN tys |-> Meaning(h, tys[i], ws[i])]

-----------------------------------------------------------------------------
NoCall == [f |-> 0, args |-> <<>>, high |-> FALSE]
Heap(g) == [m |-> <<>>, bad |-> FALSE, g |-> g]

Init ==
  /\ phase = "idle" /\ call = NoCall /\ tape = <<>>
  /\ got = <<>> /\ ret = <<>> /\ rcv = <<>> /\ bad = FALSE

(* abi.encodeWithSignature and call, or a call of a contract's function    *)
Call(high) ==
  /\ phase = "idle"
  /\ \E f \in DOMAIN Funcs : \E args \in Tuples(Funcs[f].params), g \in Garbage :
       \E b \in {BuildAll(Heap(g), Funcs[f].params, args)} :
       \E e \in {EncodeWithSelector(b.h, Funcs[f].sel, b.ws, Funcs[f].params)} :
          /\ call' = [f |-> f, args |-> args, high |-> high]
          /\ tape' = tape \o WordsAt(e.h, e.p + 1, VectorLen(e.h, e.p))
          /\ bad' = (bad \/ e.h.bad)
  /\ phase' = "calling"
  /\ UNCHANGED <<got, ret, rcv>>

(* A selector no function has.                                             *)
CallUnknown ==
  /\ phase = "idle"
  /\ call' = NoCall
  /\ tape' = tape \o <<0, Unknown>>
  /\ phase' = "calling"
  /\ UNCHANGED <<got, ret, rcv, bad>>

(* contract_call: the machine adds the caller, callee and code addresses.  *)
Enter ==
  /\ phase = "calling"
  /\ tape' = tape \o [i \in 1 .. 12 |-> 0]
  /\ phase' = "entered"
  /\ UNCHANGED <<call, got, ret, rcv, bad>>

(* function_dispatch                                                       *)
Dispatch ==
  /\ phase = "entered"
  /\ \E g \in Garbage : \E in \in {ContractInput(Heap(g), tape)} :
       IF \A f \in DOMAIN Funcs : Funcs[f].sel # in.sel
       THEN phase' = "abort" /\ UNCHANGED <<tape, got, ret, bad>>
       ELSE \E f \in {i \in DOMAIN Funcs : Funcs[i].sel = in.sel} : \E r \in Tuples(Funcs[f].ret) :
            \E d \in {AbiDecode(in.h, in.p, Funcs[f].params)} :
            \E b \in {BuildAll(d.h, Funcs[f].ret, r)} :
            \E e \in {EncodeStoreTape(b.h, b.ws, Funcs[f].ret)} :
               /\ got' = Meanings(d.h, Funcs[f].params, d.vs)
               /\ ret' = r
               /\ tape' = tape \o (IF r = <<>> THEN <<0>> ELSE e.tape)
               /\ bad' = (bad \/ e.h.bad)
               /\ phase' = "returned"
  /\ UNCHANGED <<call, rcv>>

(* A raw call's data is decoded behind its length word, a function call's  *)
(* from the first word.                                                    *)
Receive ==
  /\ phase = "returned"
  /\ \E g \in Garbage :
       \E rd \in {ReturnData(Heap(g), tape)} :
       \E d \in {AbiDecode(rd.h, IF call.high THEN rd.p ELSE rd.p + 1, Funcs[call.f].ret)} :
          /\ rcv' = Meanings(d.h, Funcs[call.f].ret, d.vs)
          /\ bad' = (bad \/ d.h.bad)
  /\ phase' = "done"
  /\ UNCHANGED <<call, tape, got, ret>>

Done == phase \in {"done", "abort"} /\ UNCHANGED vars

Next == (\E high \in BOOLEAN : Call(high)) \/ CallUnknown \/ Enter \/ Dispatch \/ Receive \/ Done

Spec == Init /\ [][Next]_vars

-----------------------------------------------------------------------------
(* The callee sees the arguments the caller passed.                        *)
ArgsArrive == phase \in {"returned", "done"} => got = call.args

(* The caller of a raw call that decodes the answer sees the values the    *)
(* callee returned.  A call by name hands abi_decode the length word too.  *)
ResultArrives == phase = "done" /\ ~ call.high => rcv = ret

(* Every store of an encoder or decoder goes to an object that was         *)
(* allocated: the size computed before encoding is the size encoded.       *)
InBounds == ~bad
=============================================================================
