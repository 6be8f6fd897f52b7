------------------------------ MODULE Storage ------------------------------
(* Contract storage: the code irgen/storage.rs emits to read, write and    *)
(* delete variables in a store of 4-word slots.  A type is a record:       *)
(*   [k |-> "word"], [k |-> "addr"]      one slot                          *)
(*   [k |-> "string"], [k |-> "fields"]  length slot, words under its hash *)
(*   [k |-> "array", n, elem]            n elements in line                *)
(*   [k |-> "dyn", elem]                 length slot, elements under hash  *)
(*   [k |-> "struct", fs]                its fields in line                *)
(*   [k |-> "map", elem]                 elements under hash of slot, key  *)
(* A key is [h, n]: a hash (<<>> for none) and what was added to its low   *)
(* word.  A slot is <<"int", n>>, a constant, or <<"ptr", c>>, a pointer   *)
(* to a heap cell that holds a key: adding to it changes the cell.         *)
EXTENDS SequencesExt, Naturals

CONSTANTS Vars,      \* the contract: a sequence of types
          Words,     \* values of a word
          MaxLen,    \* bound on the length of strings and arrays
          MapKeys,   \* the keys used with mappings
          MaxOps     \* bound on the operations of a behaviour

VARIABLES st,    \* [store, cells]: the slots written, the heap cells of slots
          val,   \* what the contract's variables should hold
          popped, \* the arrays an element was popped from
          astray, \* the variables an element of whose arrays was stored to
                 \* another place, or as something else
          ops    \* operations done

vars == <<st, val, popped, astray, ops>>

Word == [k |-> "word"]
IsReference(ty) == ty.k \in {"string", "fields", "array", "dyn", "struct", "map"}

(* Types: what a type occupies and the values it has.                      *)
RECURSIVE StorageSlots(_)
StorageSlots(ty) ==
  CASE ty.k = "struct" -> FoldLeft(LAMBDA a, f : a + StorageSlots(f), 0, ty.fs)
    [] ty.k = "array"  -> ty.n * StorageSlots(ty.elem)
    [] ty.k = "dyn"    -> StorageSlots(ty.elem)
    [] OTHER           -> 1

(* layout: variables one after the other.                                  *)
SlotOf(v) == <<"int", FoldLeft(LAMBDA a, ty : a + StorageSlots(ty), 0, SubSeq(Vars, 1, v - 1))>>

-----------------------------------------------------------------------------
(* Slots and single words.                                                 *)
KeyOf(s, slot) == IF slot[1] = "int" THEN [h |-> <<>>, n |-> slot[2]] ELSE s.cells[slot[2]]

Get(s, slot) == LET k == KeyOf(s, slot) IN IF k \in DOMAIN s.store THEN s.store[k] ELSE 0

(* storage_store_internal, storage_clear_internal                          *)
Put(s, slot, v) ==
  [s EXCEPT !.store = [k \in DOMAIN @ \cup {KeyOf(s, slot)} |-> IF k = KeyOf(s, slot) THEN v ELSE @[k]]]

(* slot_hash, poseidon_hash: a new cell with a key of its own              *)
HashOf(s, parts) ==
  [s |-> [s EXCEPT !.cells = Append(@, [h |-> parts, n |-> 0])], slot |-> <<"ptr", Len(s.cells) + 1>>]

SlotHash(s, slot) == HashOf(s, <<KeyOf(s, slot)>>)

(* slot_offest: a pointer is changed in place.                             *)
SlotOffset(s, slot, n) ==
  IF slot[1] = "int" THEN [s |-> s, slot |-> <<"int", slot[2] + n>>]
  ELSE [s |-> [s EXCEPT !.cells[slot[2]].n = @ + n], slot |-> slot]

ArrayOffset(s, slot, i, elem) ==
  LET h == SlotHash(s, slot) IN SlotOffset(h.s, h.slot, i * StorageSlots(elem))

-----------------------------------------------------------------------------
(* Loops keep the slot in a local of their own: the caller's slot does not *)
(* move, but a cell it points to does.                                     *)
Range0(a, b) == [i \in 1 .. (IF b > a THEN b - a ELSE 0) |-> a + i]

(* One more value; the next slot, where the code moves it.                 *)
Gather(a, r) == [s |-> r.s, slot |-> r.slot, v |-> Append(a.v, r.v)]
MoveOn(r, ty, moves) == IF moves THEN SlotOffset(r.s, r.slot, StorageSlots(ty)) ELSE r

RECURSIVE StorageLoad(_, _, _)
LoadElems(s, elem, slot, n) ==
  FoldLeft(LAMBDA a, i : Gather(a, StorageLoad(a.s, elem, a.slot)),
           [s |-> s, slot |-> slot, v |-> <<>>], Range0(0, n))

(* get_storage_dynamic_bytes: as many words as the length slot says.       *)
LoadBytes(s, slot) ==
  LET h == SlotHash(s, slot)
      r == LoadElems(h.s, Word, h.slot, Get(s, slot))
      a == SlotOffset(r.s, slot, 1)
  IN  [s |-> a.s, slot |-> a.slot, v |-> r.v]

LoadDynamic(s, elem, slot) ==
  LET h == SlotHash(s, slot)
      r == LoadElems(h.s, elem, h.slot, Get(s, slot))
  IN  [s |-> r.s, slot |-> slot, v |-> r.v]

LoadStruct(s, fs, slot) ==
  FoldLeft(LAMBDA a, f : Gather(a, StorageLoad(a.s, f, a.slot)),
           [s |-> s, slot |-> slot, v |-> <<>>], fs)

StorageLoad(s, ty, slot) ==
  CASE ty.k \in {"word", "addr"} ->
         LET a == SlotOffset(s, slot, 1) IN [s |-> a.s, slot |-> a.slot, v |-> Get(s, slot)]
    [] ty.k \in {"string", "fields"} -> LoadBytes(s, slot)
    [] ty.k = "array" ->
         LET r == LoadElems(s, ty.elem, slot, ty.n) IN [s |-> r.s, slot |-> slot, v |-> r.v]
    [] ty.k = "dyn" -> LoadDynamic(s, ty.elem, slot)
    [] ty.k = "struct" -> LoadStruct(s, ty.fs, slot)

RECURSIVE StorageDelete(_, _, _)
DeleteElems(s, elem, slot, a, b) ==
  FoldLeft(LAMBDA c, i : MoveOn(StorageDelete(c.s, elem, c.slot), elem, ~IsReference(elem)),
           [s |-> s, slot |-> slot], Range0(a, b))

StorageDelete(s, ty, slot) ==
  CASE ty.k = "array" -> [s |-> DeleteElems(s, ty.elem, slot, 0, ty.n).s, slot |-> slot]
    [] ty.k = "dyn" ->
         LET h == SlotHash(s, slot)
             r == DeleteElems(h.s, ty.elem, h.slot, 0, Get(s, slot))
         IN  [s |-> Put(r.s, slot, 0), slot |-> slot]
    [] ty.k = "struct" ->
         FoldLeft(LAMBDA a, f : MoveOn(StorageDelete(a.s, f, a.slot), f, ~IsReference(f) \/ f.k = "string"),
                  [s |-> s, slot |-> slot], ty.fs)
    [] ty.k = "map" -> [s |-> s, slot |-> slot]
    [] OTHER -> [s |-> Put(s, slot, 0), slot |-> slot]

(* An element that is no reference is handed on as the place it is in; a   *)
(* word is loaded from there, but the place of an address is taken for the *)
(* address: the pointers in the array are stored.                          *)
ElementPlace == 99
Passed(elem, x) == IF elem.k = "addr" THEN ElementPlace ELSE x

RECURSIVE StorageStore(_, _, _, _)
StoreElems(s, elem, slot, v) ==
  FoldLeft(LAMBDA a, x : MoveOn(StorageStore(a.s, elem, a.slot, Passed(elem, x)), elem, ~IsReference(elem)),
           [s |-> s, slot |-> slot], v)

(* Mutant: what was behind a shorter value stays.                          *)
StoreVectorNoClear(s, elem, slot, v) ==
  LET h == SlotHash(Put(s, slot, Len(v)), slot)
      r == StoreElems(h.s, elem, h.slot, v)
  IN  [s |-> r.s, slot |-> slot]

(* A new length, the elements, and what is left of a longer old value is   *)
(* deleted.                                                                *)
StoreVector(s, elem, slot, v) ==
  LET old == Get(s, slot)
      h == SlotHash(Put(s, slot, Len(v)), slot)
      r == StoreElems(h.s, elem, h.slot, v)
  IN  [s |-> DeleteElems(r.s, elem, h.slot, Len(v), old).s, slot |-> slot]

(* set_storage_dynamic_bytes                                               *)
StoreBytes(s, slot, v) == StoreVector(s, Word, slot, v)

(* The slot moves on after a field that is not a reference, or a string,   *)
(* and is not the last.                                                    *)
StoreStruct(s, fs, slot, v) ==
  FoldLeft(LAMBDA a, i :
             MoveOn(StorageStore(a.s, fs[i], a.slot, v[i]), fs[i],
                    (~IsReference(fs[i]) \/ fs[i].k = "string") /\ i # Len(fs)),
           [s |-> s, slot |-> slot], [i \in DOMAIN fs |-> i])

StorageStore(s, ty, slot, v) ==
  CASE ty.k \in {"word", "addr"} -> [s |-> Put(s, slot, v), slot |-> slot]
    [] ty.k \in {"string", "fields"} -> StoreBytes(s, slot, v)
    [] ty.k = "dyn" -> StoreVector(s, ty.elem, slot, v)
    [] ty.k = "array" -> [s |-> StoreElems(s, ty.elem, slot, v).s, slot |-> slot]
    [] ty.k = "struct" -> StoreStruct(s, ty.fs, slot, v)

-----------------------------------------------------------------------------
(* Places: the slot an expression denotes.  array_subscript on a dynamic   *)
(* array reads its length first, through the slot it goes on to hash.      *)
Subscript(s, ty, slot, i) ==
  LET l == StorageLoad(s, Word, slot)
  IN  IF ty.k = "array" THEN SlotOffset(s, slot, i * StorageSlots(ty.elem))
      ELSE ArrayOffset(l.s, IF slot[1] = "ptr" THEN l.slot ELSE slot, i, ty.elem)

MappingSubscript(s, slot, key) == HashOf(s, <<KeyOf(s, slot), key>>)

(* Mutant: the member's own size is counted too.                           *)
MemberEnd(ty, f) == FoldLeft(LAMBDA a, g : a + StorageSlots(g), 0, SubSeq(ty.fs, 1, f))

MemberOffset(ty, f) == FoldLeft(LAMBDA a, g : a + StorageSlots(g), 0, SubSeq(ty.fs, 1, f - 1))
StructMember(s, ty, slot, f) == SlotOffset(s, slot, MemberOffset(ty, f))

ArrayPush(s, ty, slot, x) ==
  LET p == ArrayOffset(s, slot, Get(s, slot), ty.elem)
      r == StorageStore(p.s, ty.elem, p.slot, x)
  IN  Put(r.s, slot, Get(s, slot) + 1)

(* storage_array_pop: the place computed from the length, loaded (which    *)
(* moves the slot), deleted, and the length decremented.                   *)
ArrayPop(s, ty, slot) ==
  LET n == Get(s, slot)
      p == ArrayOffset(s, slot, n, ty.elem)
      l == StorageLoad(p.s, ty.elem, p.slot)
      d == StorageDelete(l.s, ty.elem, p.slot)
  IN  [s |-> Put(d.s, slot, n - 1), v |-> l.v]

-----------------------------------------------------------------------------
(* Values of a type; what a fresh contract holds.                          *)
RECURSIVE Values(_)
Values(ty) ==
  CASE ty.k \in {"word", "addr"} -> Words
    [] ty.k \in {"string", "fields"} -> BoundedSeq(Words, MaxLen)
    [] ty.k = "dyn" -> BoundedSeq(Values(ty.elem), MaxLen)
    [] ty.k = "array" -> [1 .. ty.n -> Values(ty.elem)]
    [] ty.k = "struct" ->
         FoldLeft(LAMBDA vs, f : {Append(v, x) : v \in vs, x \in Values(f)}, {<<>>}, ty.fs)

RECURSIVE Default(_)
Default(ty) ==
  CASE ty.k \in {"word", "addr"} -> 0
    [] ty.k \in {"string", "fields", "dyn"} -> <<>>
    [] ty.k = "array" -> [i \in 1 .. ty.n |-> Default(ty.elem)]
    [] ty.k = "struct" -> [i \in DOMAIN ty.fs |-> Default(ty.fs[i])]
    [] ty.k = "map" -> [k \in MapKeys |-> Default(ty.elem)]

(* Has x, of type ty, an array of addresses in it that is not empty.       *)
RECURSIVE Misread(_, _)
Misread(ty, x) ==
  \/ ty.k \in {"array", "dyn"} /\ \E i \in DOMAIN x : ty.elem.k = "addr" \/ Misread(ty.elem, x[i])
  \/ ty.k = "struct" /\ \E i \in DOMAIN x : Misread(ty.fs[i], x[i])

(* What the contract's code would read.                                    *)
Reads(ty, s, slot) ==
  IF ty.k = "map"
  THEN [k \in MapKeys |-> LET m == MappingSubscript(s, slot, k) IN StorageLoad(m.s, ty.elem, m.slot).v]
  ELSE StorageLoad(s, ty, slot).v

(* Heap cells are garbage once an operation is over.                       *)
Settle(s) == [s EXCEPT !.cells = <<>>]

Init ==
  /\ st = [store |-> <<>>, cells |-> <<>>]
  /\ val = [v \in DOMAIN Vars |-> Default(Vars[v])]
  /\ popped = {} /\ astray = {}
  /\ ops = 0

Step(s, v, x) ==
  /\ ops < MaxOps
  /\ ops' = ops + 1
  /\ st' = Settle(s)
  /\ val' = [val EXCEPT ![v] = x]

(* x of type ty is stored in v or in a part of it.                         *)
Stores(v, ty, x) ==
  /\ UNCHANGED popped
  /\ astray' = IF Misread(ty, x) THEN astray \cup {v} ELSE astray

Assign(v) ==
  /\ Vars[v].k # "map"
  /\ \E x \in Values(Vars[v]) :
       Stores(v, Vars[v], x) /\ Step(StorageStore(st, Vars[v], SlotOf(v), x).s, v, x)

AssignElement(v) ==
  /\ Vars[v].k \in {"array", "dyn"}
  /\ \E i \in DOMAIN val[v], x \in Values(Vars[v].elem) :
       LET p == Subscript(st, Vars[v], SlotOf(v), i - 1)
       IN  Stores(v, Vars[v].elem, x)
           /\ Step(StorageStore(p.s, Vars[v].elem, p.slot, x).s, v, [val[v] EXCEPT ![i] = x])

AssignMember(v) ==
  /\ Vars[v].k = "struct"
  /\ \E f \in DOMAIN Vars[v].fs : \E x \in Values(Vars[v].fs[f]) :
       LET p == StructMember(st, Vars[v], SlotOf(v), f)
       IN  Stores(v, Vars[v].fs[f], x)
           /\ Step(StorageStore(p.s, Vars[v].fs[f], p.slot, x).s, v, [val[v] EXCEPT ![f] = x])

AssignMapping(v) ==
  /\ Vars[v].k = "map"
  /\ \E k \in MapKeys, x \in Values(Vars[v].elem) :
       LET p == MappingSubscript(st, SlotOf(v), k)
       IN  Stores(v, Vars[v].elem, x)
           /\ Step(StorageStore(p.s, Vars[v].elem, p.slot, x).s, v, [val[v] EXCEPT ![k] = x])

(* m[k].f = x                                                              *)
AssignMappingMember(v) ==
  /\ Vars[v].k = "map" /\ Vars[v].elem.k = "struct"
  /\ \E k \in MapKeys, f \in DOMAIN Vars[v].elem.fs : \E x \in Values(Vars[v].elem.fs[f]) :
       LET m == MappingSubscript(st, SlotOf(v), k)
           p == StructMember(m.s, Vars[v].elem, m.slot, f)
       IN  Stores(v, Vars[v].elem.fs[f], x)
           /\ Step(StorageStore(p.s, Vars[v].elem.fs[f], p.slot, x).s, v, [val[v] EXCEPT ![k][f] = x])

(* m[k][i] = x: the length is read through the slot that is then hashed,   *)
(* and reading moves the cell, so the element goes to another place than   *)
(* push and a load of m[k] use.                                            *)
AssignMappingElement(v) ==
  /\ Vars[v].k = "map" /\ Vars[v].elem.k = "dyn"
  /\ astray' = astray \cup {v} /\ UNCHANGED popped
  /\ \E k \in MapKeys : \E i \in DOMAIN val[v][k], x \in Values(Vars[v].elem.elem) :
       LET m == MappingSubscript(st, SlotOf(v), k)
           p == Subscript(m.s, Vars[v].elem, m.slot, i - 1)
       IN  Step(StorageStore(p.s, Vars[v].elem.elem, p.slot, x).s, v, [val[v] EXCEPT ![k][i] = x])

Push(v) ==
  /\ Vars[v].k = "dyn" /\ Len(val[v]) < MaxLen
  /\ \E x \in Values(Vars[v].elem) :
       Stores(v, Vars[v].elem, x)
       /\ Step(ArrayPush(st, Vars[v], SlotOf(v), x), v, Append(val[v], x))

(* m[k].push(x)                                                            *)
PushMapping(v) ==
  /\ Vars[v].k = "map" /\ Vars[v].elem.k = "dyn"
  /\ \E k \in MapKeys, x \in Values(Vars[v].elem.elem) :
       LET m == MappingSubscript(st, SlotOf(v), k)
       IN  /\ Stores(v, Vars[v].elem.elem, x)
           /\ Len(val[v][k]) < MaxLen
           /\ Step(ArrayPush(m.s, Vars[v].elem, m.slot, x), v, [val[v] EXCEPT ![k] = Append(@, x)])

Pop(v) ==
  /\ Vars[v].k = "dyn" /\ val[v] # <<>>
  /\ popped' = popped \cup {v} /\ UNCHANGED astray
  /\ Step(ArrayPop(st, Vars[v], SlotOf(v)).s, v, Front(val[v]))

Delete(v) ==
  /\ Vars[v].k # "map"
  /\ UNCHANGED <<popped, astray>>
  /\ Step(StorageDelete(st, Vars[v], SlotOf(v)).s, v, Default(Vars[v]))

Next ==
  \E v \in DOMAIN Vars :
    Assign(v) \/ AssignElement(v) \/ AssignMember(v) \/ AssignMapping(v)
    \/ AssignMappingMember(v) \/ AssignMappingElement(v) \/ Push(v) \/ PushMapping(v) \/ Pop(v) \/ Delete(v)

Spec == Init /\ [][Next]_vars

-----------------------------------------------------------------------------
(* Reading any variable gives what was last assigned to it, whatever was   *)
(* stored, pushed or deleted elsewhere in between: no two places overlap   *)
(* and every way to reach a place computes the same key.  It claims        *)
(* nothing of a variable to an array of which m[k][i] = x was done or in   *)
(* which a whole array of addresses was stored, only that this harms no    *)
(* other variable.                                                         *)
ReadsBack == \A v \in DOMAIN Vars \ astray : Reads(Vars[v], st, SlotOf(v)) = val[v]

(* The places behind the end of a dynamic array hold zero, so that a later *)
(* push() without a value shows no old data.                               *)
ClearBehind(v) ==
  Vars[v].k = "dyn" =>
    \A k \in DOMAIN st.store :
      (k.h = <<KeyOf(st, SlotOf(v))>> /\ k.n >= Len(val[v]) * StorageSlots(Vars[v].elem)) => st.store[k] = 0

NothingBehind == \A v \in DOMAIN Vars \ popped : ClearBehind(v)

(* pop clears the slot of the element it removes.                          *)
PopClears == \A v \in popped : ClearBehind(v)
=============================================================================
