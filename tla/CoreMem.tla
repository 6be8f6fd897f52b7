------------------------------- MODULE CoreMem -------------------------------
(***************************************************************************)
(* The values the generated code builds on the heap: literals, casts,      *)
(* vectors, slices, concatenations, what is read from the context and from *)
(* the tape, and the argument of the signature check                       *)
(* (irgen/expression.rs, irgen/binary.rs, irgen/corelib.rs).  The heap is  *)
(* only ever extended; a vector is a length word and its elements.         *)
(***************************************************************************)
EXTENDS Integers, Sequences

CONSTANTS HeapWords,  \* values of expressions of one word
          MaxVec,     \* elements of a new vector
          MaxObjs,    \* objects a behaviour builds
          FourWords,  \* address and hash literals
          Texts,      \* string and fields literals
          WordLists,  \* the elements of struct literals, and of array literals
                      \* that become vectors
          Arrays      \* [dims, values]: array literals, the innermost dimension
                      \* first and the values in the order they are written

(* The words of the first k dimensions together.                           *)
Size(dims) ==
    LET s[k \in 0 .. Len(dims)] == IF k = 0 THEN 1 ELSE s[k - 1] * dims[k]
    IN  s

(* resolve_array_literal wants an element; a dimension of 0 would divide.  *)
ASSUME HeapAssumption ==
    /\ HeapWords \subseteq Nat /\ {MaxVec, MaxObjs} \subseteq Nat
    /\ FourWords \subseteq [1 .. 4 -> Nat]
    /\ Texts \subseteq Seq(Nat) /\ WordLists \subseteq Seq(Nat)
    /\ \A a \in Arrays : a.dims \in Seq(Nat \ {0}) /\ a.values \in Seq(Nat)

VARIABLES mem,      \* the words of the heap, from its start
          objs,     \* [at, vec, dims, want, sure]: an object, the dimensions
                    \* if it is an array literal, what its maker asked for,
                    \* and whether the code asked for it does that
          aborted   \* has a check failed

heapVars == <<mem, objs, aborted>>

Unset == 99   \* the content of a word nobody has written

----------------------------------------------------------------------------
(* heap_malloc, vector_new, memcpy on a heap h. *)

Top(h) == Len(h) + 1
Malloc(h, n) == h \o [i \in 1 .. n |-> Unset]
VectorNew(h, n) == Malloc(Append(h, n), n)
At(h, a) == IF a \in DOMAIN h THEN h[a] ELSE Unset
VectorLen(h, v) == At(h, v)
VectorData(v) == v + 1
Memcpy(h, src, dst, n) ==
    [a \in DOMAIN h |-> IF a \in dst .. dst + n - 1 THEN At(h, src + a - dst)
                        ELSE h[a]]
Put(h, dst, s) == [a \in DOMAIN h |-> IF a \in dst .. dst + Len(s) - 1
                                      THEN s[a - dst + 1] ELSE h[a]]

Data(o) == IF o.vec THEN VectorData(o.at) ELSE o.at
Element(o, i) == At(mem, Data(o) + i)
Count(o) == IF o.vec THEN VectorLen(mem, o.at) ELSE Len(o.want)
IsHash(o) == ~ o.vec /\ o.dims = <<>> /\ Len(o.want) = 4

(* What the generator takes for the length of an array, string or fields:  *)
(* of a fixed array its outer dimension, and the words of an element of it.*)
Sliceable(o) == o.vec \/ o.dims # <<>>
ArrayLength(o) == IF o.vec THEN VectorLen(mem, o.at) ELSE o.dims[Len(o.dims)]
Row(o) == IF o.vec THEN 1 ELSE Size(o.dims)[Len(o.dims) - 1]

----------------------------------------------------------------------------
HeapInit == mem = <<>> /\ objs = <<>> /\ aborted = FALSE

Made(h, vec, dims, want, sure) ==
    /\ ~ aborted /\ Len(objs) < MaxObjs
    /\ mem' = h
    /\ objs' = Append(objs, [at |-> Top(mem), vec |-> vec, dims |-> dims,
                             want |-> want, sure |-> sure])
    /\ UNCHANGED aborted
Build(h, vec, want) == Made(h, vec, <<>>, want, TRUE)

Abort ==
    /\ ~ aborted /\ Len(objs) < MaxObjs
    /\ aborted' = TRUE
    /\ UNCHANGED <<mem, objs>>

(* address_literal and hash_literal: four words. *)
AddressLiteral(v) == Build(Put(Malloc(mem, 4), Top(mem), v), FALSE, v)

(* address(n) and hash(n): the number is the last of the four words. *)
CastToAddress(w) ==
    LET v == <<0, 0, 0, w>>
    IN  Build(Put(Malloc(mem, Len(v)), Top(mem), v), FALSE, v)

(* fields(a) of an address or hash: a vector of its four words. *)
HashToFields(o) ==
    /\ IsHash(o)
    /\ LET h == VectorNew(mem, 4)
           dst == VectorData(Top(mem))
       IN  Build(Put(h, dst, [i \in 1 .. 4 |-> At(h, o.at + i - 1)]),
                 TRUE, o.want)

FieldToFields(w) ==
    Build(Put(VectorNew(mem, 1), VectorData(Top(mem)), <<w>>), TRUE, <<w>>)

(* new T[](n): the elements get the default value one by one. *)
ZeroInit(n) == [i \in 1 .. n |-> 0]
AllocDynamicZero(n) ==
    Build(Put(VectorNew(mem, n), VectorData(Top(mem)), ZeroInit(n)),
          TRUE, [i \in 1 .. n |-> 0])

(* A string or fields literal: the elements are stored one by one. *)
AllocDynamicInit(v) ==
    Build(Put(VectorNew(mem, Len(v)), VectorData(Top(mem)), v), TRUE, v)

(* [[..], [..]] of dimensions dims, innermost first: value e (from 0) is   *)
(* stored at the indices its number decomposes into; a[r][c] of the nested *)
(* array is the word r * dims[1] + c.  check_subarrays compares sub arrays *)
(* only with their siblings, so there can be more values than words, which *)
(* then are stored from the start again, or fewer.                         *)
OuterFirst(dims, e) == [k \in 1 .. Len(dims) |->
    (e \div (Size(dims)[Len(dims)] \div Size(dims)[k])) % dims[k]]
Indices(dims, e) == [k \in 1 .. Len(dims) |-> (e \div Size(dims)[k - 1]) % dims[k]]
Gep(dims, ind) ==
    LET g[k \in 0 .. Len(dims)] ==
            IF k = 0 THEN 0 ELSE g[k - 1] + ind[k] * Size(dims)[k - 1]
    IN  g[Len(dims)]
StoreValues(h, dst, dims, values) ==
    LET g[i \in 0 .. Len(values)] ==
            IF i = 0 THEN h
            ELSE Put(g[i - 1], dst + Gep(dims, Indices(dims, i - 1)), <<values[i]>>)
    IN  g[Len(values)]
ArrayLiteral(dims, values) ==
    LET size == Size(dims)[Len(dims)]
    IN  Made(StoreValues(Malloc(mem, size), Top(mem), dims, values),
             FALSE, dims, values, Len(values) = size)

(* An array literal cast to a dynamic array: a vector without defaults,    *)
(* its elements stored one by one.                                         *)
LiteralToMemoryArray(v) ==
    Build(Put(VectorNew(mem, Len(v)), VectorData(Top(mem)), v), TRUE, v)

(* A struct literal of one-word fields, stored in the order of the fields. *)
StructLiteral(v) == Build(Put(Malloc(mem, Len(v)), Top(mem), v), FALSE, v)

(* a[start : end]: three range checked differences, then a copy.  The     *)
(* differences are unsigned, so a negative one fails.  The copy takes      *)
(* words from the word start on: of an array of arrays those are not the   *)
(* elements start .. end - 1.                                              *)
SliceChecks(n, start, end) ==
    n - 1 - start >= 0 /\ n - end >= 0 /\ end - start >= 0
ArraySlice(o, start, end) ==
    LET row  == Row(o)
        h    == VectorNew(mem, end - start)
        want == SubSeq(o.want, start * row + 1, end * row)
    IN  IF SliceChecks(ArrayLength(o), start, end)
        THEN Made(Memcpy(h, Data(o) + start, VectorData(Top(mem)), end - start),
                  TRUE, <<>>, want, row = 1)
        ELSE Abort

(* fields_concat, with the two operands the function takes the lengths and *)
(* the data of: it is a concatenation only of two operands that are equal. *)
FieldsConcat(l, r) ==
    /\ l.vec /\ r.vec
    /\ LET left_len   == VectorLen(mem, l.at)
           left_data  == VectorData(r.at)
           right_len  == VectorLen(mem, l.at)
           right_data == VectorData(r.at)
           h          == VectorNew(mem, left_len + right_len)
           dst        == VectorData(Top(mem))
       IN  Made(Memcpy(Memcpy(h, left_data, dst, left_len),
                       right_data, dst + left_len, right_len),
                TRUE, <<>>, l.want \o r.want, l.want = r.want)

(* check_ecdsa hands the builtin a message hash and two vectors of eight.  *)
CheckEcdsa(msg, pubkey, sig) ==
    /\ IsHash(msg)
    /\ pubkey.vec /\ Len(pubkey.want) = 8 /\ sig.vec /\ Len(sig.want) = 8
    /\ LET dest == Top(mem)
           h1 == Memcpy(Malloc(mem, 20), msg.at, dest, 4)
           h2 == Memcpy(h1, VectorData(pubkey.at), dest + 4, 8)
       IN  Build(Memcpy(h2, VectorData(sig.at), dest + 12, 8),
                 FALSE, msg.want \o pubkey.want \o sig.want)

(* poseidon_hash of a slot and the key of a mapping, four words or those   *)
(* of a string or fields, first copies them behind one another.            *)
HashInput(l, r) ==
    /\ IsHash(l) /\ (r.vec \/ IsHash(r))
    /\ LET n == Count(l)
           k == Count(r)
           h == Memcpy(Malloc(mem, n + k), Data(l), Top(mem), n)
       IN  Build(Memcpy(h, Data(r), Top(mem) + n, k), FALSE, l.want \o r.want)

----------------------------------------------------------------------------
(* The context of the transaction and the tail of the tape.  A word of the *)
(* context is its own number; the tape ends with three addresses.          *)

ContextWord(i) == i
Signature ==
    LET v == [i \in 1 .. 8 |-> ContextWord(13 + i - 1)]
    IN  Build(Put(VectorNew(mem, 8), VectorData(Top(mem)), v),
              TRUE, [i \in 1 .. 8 |-> 12 + i])

ContextAddress(what) ==
    LET index == CASE what = "sequence" -> 2 [] what = "origin" -> 8
                   [] what = "tx_hash" -> 17
        v == [i \in 1 .. 4 |-> ContextWord(index + i - 1)]
    IN  Build(Put(Malloc(mem, 4), Top(mem), v), FALSE, v)

ContextValue(what) ==
    LET index == CASE what = "block_number" -> 0 [] what = "timestamp" -> 1
                   [] what = "version" -> 6 [] what = "chain_id" -> 7
                   [] what = "nonce" -> 12
    IN  Build(Put(Malloc(mem, 1), Top(mem), <<ContextWord(index)>>),
              FALSE, <<index>>)

TapeTail == [k \in 1 .. 12 |-> 10 * ((k - 1) \div 4 + 1) + ((k - 1) % 4) + 1]

(* The last words of the tape are copied; the address is the first four.   *)
(* For the code and the current address these are the address of another.  *)
TapeAddress(index, who) ==
    Made(Put(Malloc(mem, index), Top(mem), SubSeq(TapeTail, 12 - index + 1, 12)),
         FALSE, <<>>, [i \in 1 .. 4 |-> 10 * who + i], 12 - index = 4 * (who - 1))

CallerAddress == TapeAddress(12, 1)
CodeAddress   == TapeAddress(8, 3)
CurrentAddress == TapeAddress(4, 2)

----------------------------------------------------------------------------
Objects == {o \in {objs[k] : k \in DOMAIN objs} : o.sure}

HeapNext ==
    \/ \E v \in FourWords : AddressLiteral(v)
    \/ \E w \in HeapWords : CastToAddress(w) \/ FieldToFields(w)
    \/ \E o \in Objects : HashToFields(o)
    \/ \E n \in 0 .. MaxVec : AllocDynamicZero(n)
    \/ \E v \in Texts : AllocDynamicInit(v)
    \/ \E v \in WordLists : LiteralToMemoryArray(v) \/ StructLiteral(v)
    \/ \E a \in Arrays : ArrayLiteral(a.dims, a.values)
    \/ \E o \in {q \in Objects : Sliceable(q)} :
           \E s, e \in 0 .. ArrayLength(o) + 1 : ArraySlice(o, s, e)
    \/ \E m, p, s \in Objects : CheckEcdsa(m, p, s)
    \/ \E l, r \in Objects : HashInput(l, r)
    \/ Signature
    \/ \E w \in {"sequence", "origin", "tx_hash"} : ContextAddress(w)
    \/ \E w \in {"block_number", "timestamp", "version", "chain_id", "nonce"} :
           ContextValue(w)
    \/ \E l, r \in Objects : FieldsConcat(l, r)
    \/ CallerAddress \/ CodeAddress \/ CurrentAddress
    \/ (aborted \/ Len(objs) = MaxObjs) /\ UNCHANGED heapVars

HeapSpec == HeapInit /\ [][HeapNext]_heapVars

----------------------------------------------------------------------------
(* Every object holds, for as long as the program runs, the elements that  *)
(* the expression it was made by stands for: no later allocation, copy or  *)
(* store of the generated code touches it, and a vector knows its length.  *)
(* a[s : e] stands for the elements s to e - 1, and no slice that passes   *)
(* the checks has fewer: none reaches outside of its array.                *)
Contents ==
    \A o \in Objects :
       /\ o.vec => VectorLen(mem, o.at) = Len(o.want)
       /\ \A i \in 1 .. Len(o.want) : Element(o, i - 1) = o.want[i]
=============================================================================
