------------------------------- MODULE RcCache -------------------------------
(***************************************************************************)
(* The two containers of the cextras library that both caches of libsqsh   *)
(* are built from: the reference counting hash map (cx_rc_hash_map) and    *)
(* the LRU ring that keeps the most recently touched keys of such a map    *)
(* alive by holding references of its own (cx_lru with the backend         *)
(* cx_lru_rc_hash_map).  cextras is an external dependency: the operators  *)
(* say what map_manager.c and extract_manager.c rely on.                   *)
(*                                                                         *)
(* A map is a function from Key to [refs, value]; a key with no reference  *)
(* is absent and has no value.  A ring is a record of its slots and of the *)
(* slot touched last (0: never touched).                                   *)
(***************************************************************************)
EXTENDS Naturals, FiniteSets

CONSTANTS Key,      \* the keys of the map
          Value,    \* the values it can hold
          NoKey,    \* an LRU slot that holds no reference
          NoValue,  \* the value of an absent key
          LruSize   \* number of slots of the ring

ASSUME NoKeyAssumption   == NoKey \notin Key
ASSUME NoValueAssumption == NoValue \notin Value
ASSUME LruSizeAssumption == LruSize \in Nat

Slot == 1..LruSize

Absent == [refs |-> 0, value |-> NoValue]

Maps == [Key -> [refs : Nat, value : Value \cup {NoValue}]]
Rings == [slots : [Slot -> Key \cup {NoKey}], newest : 0..LruSize]

EmptyMap  == [k \in Key |-> Absent]
EmptyRing == [slots |-> [s \in Slot |-> NoKey], newest |-> 0]

Present(map, k) == map[k].refs > 0

\* cx_rc_hash_map_retain, _retain_value: one more reference to what is there.
RcRetain(map, k) ==
    IF Present(map, k) THEN [map EXCEPT ![k].refs = @ + 1] ELSE map

\* Mutant of RcPut: the value already stored is overwritten.
RcPutReplaces(map, k, v) == [map EXCEPT ![k] = [refs |-> @.refs + 1, value |-> v]]

\* cx_rc_hash_map_put: the caller's reference to the value stored under k.  The
\* map takes v over: it is stored, or disposed of when k already has a value.
RcPut(map, k, v) ==
    IF Present(map, k) THEN RcRetain(map, k)
    ELSE [map EXCEPT ![k] = [refs |-> 1, value |-> v]]

\* cx_rc_hash_map_release_key: the last reference takes the value with it.
RcRelease(map, k) ==
    IF map[k].refs > 1 THEN [map EXCEPT ![k].refs = @ - 1]
    ELSE [map EXCEPT ![k] = Absent]

\* The values the map's cleanup callback runs on in a step from map to next.
Disposed(map, next) ==
    {map[k].value : k \in {x \in Key : Present(map, x) /\ ~Present(next, x)}}

\* A key has a value exactly when it has references.
WellFormed(map) == \A k \in Key : Present(map, k) <=> map[k].value \in Value

\* No key is added and no value is exchanged from map to next.
Shrinks(map, next) ==
    \A k \in Key : Present(next, k) => Present(map, k) /\ next[k].value = map[k].value

-----------------------------------------------------------------------------
\* cx_lru_touch: nothing to do when k is the key touched last; otherwise k takes
\* the oldest slot, and the reference that slot held is dropped.
IsNewest(ring, k) == ring.newest # 0 /\ ring.slots[ring.newest] = k

OldestSlot(ring) == IF ring.newest = LruSize THEN 1 ELSE ring.newest + 1

Unmoved(ring, k) == LruSize = 0 \/ IsNewest(ring, k)

LruTouch(ring, k) ==
    IF Unmoved(ring, k) THEN ring
    ELSE [slots  |-> [ring.slots EXCEPT ![OldestSlot(ring)] = k],
          newest |-> OldestSlot(ring)]

RcTouch(map, ring, k) ==
    IF Unmoved(ring, k) THEN map
    ELSE LET evicted == ring.slots[OldestSlot(ring)]
         IN  IF evicted = NoKey THEN RcRetain(map, k)
             ELSE RcRelease(RcRetain(map, k), evicted)

SlotsOf(ring, k) == {s \in Slot : ring.slots[s] = k}

\* cx_lru_cleanup: every slot gives its reference back.
LruDrained(map, ring) ==
    [k \in Key |->
        LET n == Cardinality(SlotsOf(ring, k))
        IN  IF map[k].refs > n THEN [map[k] EXCEPT !.refs = @ - n] ELSE Absent]
=============================================================================
