---------------------------- MODULE RcCache_proofs ----------------------------
(***************************************************************************)
(* Lemmas about the operators of RcCache, for every key set and LRU size.  *)
(***************************************************************************)
EXTENDS RcCache, FiniteSetTheorems, TLAPS

\* The cardinality facts in the form in which the proofs use them.
LEMMA CardAdd ==
    ASSUME NEW S, IsFiniteSet(S), NEW x, x \notin S
    PROVE  /\ IsFiniteSet(S \cup {x})
           /\ Cardinality(S \cup {x}) = Cardinality(S) + 1
  BY FS_AddElement

LEMMA CardRemove ==
    ASSUME NEW S, IsFiniteSet(S), NEW x \in S
    PROVE  /\ IsFiniteSet(S \ {x})
           /\ Cardinality(S \ {x}) = Cardinality(S) - 1
           /\ Cardinality(S) > 0
  <1>1. /\ IsFiniteSet(S \ {x})
        /\ Cardinality(S \ {x}) = Cardinality(S) - 1
    BY FS_RemoveElement
  <1>2. Cardinality(S) \in Nat /\ Cardinality(S \ {x}) \in Nat
    BY <1>1, FS_CardinalityType
  <1> QED BY <1>1, <1>2

LEMMA SlotsFinite ==
    ASSUME NEW ring, NEW k
    PROVE  /\ IsFiniteSet(SlotsOf(ring, k))
           /\ Cardinality(SlotsOf(ring, k)) \in Nat
  <1>1. IsFiniteSet(Slot)
    BY FS_Interval, LruSizeAssumption DEF Slot
  <1>2. SlotsOf(ring, k) \subseteq Slot
    BY DEF SlotsOf
  <1> QED BY <1>1, <1>2, FS_Subset, FS_CardinalityType

LEMMA SlotsOfEmptyRing ==
    ASSUME NEW k \in Key
    PROVE  Cardinality(SlotsOf(EmptyRing, k)) = 0
  <1>1. SlotsOf(EmptyRing, k) = {}
    BY NoKeyAssumption DEF SlotsOf, EmptyRing
  <1> QED BY <1>1, FS_EmptySet

\* A retain adds one reference to k and changes nothing else.
LEMMA RetainFacts ==
    ASSUME NEW map \in Maps, WellFormed(map), NEW k \in Key, Present(map, k)
    PROVE  /\ RcRetain(map, k) \in Maps
           /\ WellFormed(RcRetain(map, k))
           /\ Shrinks(map, RcRetain(map, k))
           /\ \A x \in Key : RcRetain(map, k)[x].refs =
                 IF x = k THEN map[x].refs + 1 ELSE map[x].refs
  BY DEF Maps, WellFormed, Present, RcRetain, Shrinks

\* A release takes one reference from k and changes nothing else.
LEMMA ReleaseFacts ==
    ASSUME NEW map \in Maps, WellFormed(map), NEW k \in Key, Present(map, k)
    PROVE  /\ RcRelease(map, k) \in Maps
           /\ WellFormed(RcRelease(map, k))
           /\ Shrinks(map, RcRelease(map, k))
           /\ \A x \in Key : RcRelease(map, k)[x].refs =
                 IF x = k THEN map[x].refs - 1 ELSE map[x].refs
  BY NoValueAssumption DEF Maps, WellFormed, Present, RcRelease, Shrinks, Absent

\* A put gives k one reference more; the value stored before, if any, stays.
LEMMA PutFacts ==
    ASSUME NEW map \in Maps, WellFormed(map), NEW k \in Key, NEW v \in Value
    PROVE  /\ RcPut(map, k, v) \in Maps
           /\ WellFormed(RcPut(map, k, v))
           /\ \A x \in Key : RcPut(map, k, v)[x].refs =
                 IF x = k THEN map[x].refs + 1 ELSE map[x].refs
           /\ \A x \in Key : RcPut(map, k, v)[x].value =
                 IF x = k /\ ~Present(map, k) THEN v ELSE map[x].value
  BY DEF Maps, WellFormed, Present, RcRetain, RcPut, Shrinks

LEMMA OldestSlotType ==
    ASSUME NEW ring \in Rings, LruSize # 0
    PROVE  OldestSlot(ring) \in Slot
  BY LruSizeAssumption DEF Rings, OldestSlot, Slot

LEMMA LruTouchType ==
    ASSUME NEW ring \in Rings, NEW k \in Key
    PROVE  LruTouch(ring, k) \in Rings
  BY OldestSlotType DEF LruTouch, Unmoved, Rings, Slot

\* How the slots naming a key change when the ring moves on to k.
LEMMA TouchedSlots ==
    ASSUME NEW ring \in Rings, NEW k \in Key, NEW x \in Key, ~Unmoved(ring, k)
    PROVE  LET old   == OldestSlot(ring)
               slots == SlotsOf(LruTouch(ring, k), x)
           IN  /\ x = k  => slots = SlotsOf(ring, x) \cup {old}
               /\ x # k => slots = SlotsOf(ring, x) \ {old}
               /\ old \in Slot
               /\ old \in SlotsOf(ring, x) <=> ring.slots[old] = x
  BY OldestSlotType DEF LruTouch, Unmoved, SlotsOf, Rings

\* A touch by somebody who holds a reference to k, of a ring whose slots are all
\* backed by references, moves references between slots and keys one for one.
LEMMA TouchFacts ==
    ASSUME NEW map \in Maps, WellFormed(map), NEW ring \in Rings,
           NEW k \in Key, Present(map, k),
           \A x \in Key : map[x].refs >= Cardinality(SlotsOf(ring, x))
    PROVE  /\ RcTouch(map, ring, k) \in Maps
           /\ WellFormed(RcTouch(map, ring, k))
           /\ Shrinks(map, RcTouch(map, ring, k))
           /\ \A x \in Key :
                 RcTouch(map, ring, k)[x].refs + Cardinality(SlotsOf(ring, x))
                   = map[x].refs + Cardinality(SlotsOf(LruTouch(ring, k), x))
  <1>1. CASE Unmoved(ring, k)
    <2>1. RcTouch(map, ring, k) = map /\ LruTouch(ring, k) = ring
      BY <1>1 DEF RcTouch, LruTouch
    <2> QED BY <2>1 DEF Shrinks
  <1>2. CASE ~Unmoved(ring, k)
    <2> DEFINE old == OldestSlot(ring)
               evicted == ring.slots[old]
               kept == RcRetain(map, k)
               newRing == LruTouch(ring, k)
    <2>1. old \in Slot /\ evicted \in Key \cup {NoKey}
      BY <1>2, OldestSlotType DEF Unmoved, Rings
    <2>2. /\ kept \in Maps /\ WellFormed(kept) /\ Shrinks(map, kept)
          /\ \A x \in Key : kept[x].refs = IF x = k THEN map[x].refs + 1 ELSE map[x].refs
      BY RetainFacts
    <2>3. \A x \in Key : /\ map[x].refs \in Nat
                         /\ Cardinality(SlotsOf(ring, x)) \in Nat
                         /\ Cardinality(SlotsOf(newRing, x)) \in Nat
      BY SlotsFinite DEF Maps
    <2>4. \A x \in Key : x # k /\ evicted # x =>
            Cardinality(SlotsOf(newRing, x)) = Cardinality(SlotsOf(ring, x))
      <3> SUFFICES ASSUME NEW x \in Key, x # k, evicted # x
                   PROVE  SlotsOf(newRing, x) = SlotsOf(ring, x)
        OBVIOUS
      <3>1. /\ SlotsOf(newRing, x) = SlotsOf(ring, x) \ {old}
            /\ old \notin SlotsOf(ring, x)
        BY <1>2, TouchedSlots
      <3> HIDE DEF old, newRing
      <3> QED BY <3>1
    <2>5. evicted # k =>
            Cardinality(SlotsOf(newRing, k)) = Cardinality(SlotsOf(ring, k)) + 1
      BY <1>2, TouchedSlots, SlotsFinite, CardAdd
    <2>6. evicted = k =>
            Cardinality(SlotsOf(newRing, k)) = Cardinality(SlotsOf(ring, k))
      <3> SUFFICES ASSUME evicted = k PROVE SlotsOf(newRing, k) = SlotsOf(ring, k)
        OBVIOUS
      <3> QED BY <1>2, TouchedSlots
    <2>7. \A x \in Key : x # k /\ evicted = x =>
            /\ Cardinality(SlotsOf(newRing, x)) = Cardinality(SlotsOf(ring, x)) - 1
            /\ Cardinality(SlotsOf(ring, x)) > 0
      <3> SUFFICES ASSUME NEW x \in Key, x # k, evicted = x
                   PROVE  /\ Cardinality(SlotsOf(newRing, x)) = Cardinality(SlotsOf(ring, x)) - 1
                          /\ Cardinality(SlotsOf(ring, x)) > 0
        OBVIOUS
      <3> QED BY <1>2, TouchedSlots, SlotsFinite, CardRemove
    <2>8. CASE evicted = NoKey
      <3>1. RcTouch(map, ring, k) = kept
        BY <1>2, <2>8 DEF RcTouch
      <3>2. \A x \in Key : evicted # x
        BY <2>8, NoKeyAssumption
      <3> QED BY <2>2, <2>3, <2>4, <2>5, <3>1, <3>2
    <2>9. CASE evicted # NoKey
      <3>1. RcTouch(map, ring, k) = RcRelease(kept, evicted)
        BY <1>2, <2>9 DEF RcTouch
      <3>2. evicted \in Key
        BY <2>1, <2>9
      <3>3. Present(kept, evicted)
        <4>1. CASE evicted = k
          BY <2>2, <2>3, <4>1 DEF Present
        <4>2. CASE evicted # k
          BY <2>2, <2>3, <2>7, <3>2, <4>2 DEF Present
        <4> QED BY <4>1, <4>2
      <3>4. /\ RcRelease(kept, evicted) \in Maps
            /\ WellFormed(RcRelease(kept, evicted))
            /\ Shrinks(kept, RcRelease(kept, evicted))
            /\ \A x \in Key : RcRelease(kept, evicted)[x].refs =
                   IF x = evicted THEN kept[x].refs - 1 ELSE kept[x].refs
        BY <2>2, <3>2, <3>3, ReleaseFacts
      <3>5. Shrinks(map, RcRelease(kept, evicted))
        BY <2>2, <3>4 DEF Shrinks
      <3> HIDE DEF evicted, kept, newRing
      <3>6. \A x \in Key :
              RcRelease(kept, evicted)[x].refs + Cardinality(SlotsOf(ring, x))
                = map[x].refs + Cardinality(SlotsOf(newRing, x))
        <4> TAKE x \in Key
        <4>1. CASE x = k
          BY <2>2, <2>3, <2>5, <2>6, <3>4, <4>1
        <4>2. CASE x # k
          BY <2>2, <2>3, <2>4, <2>7, <3>4, <4>2
        <4> QED BY <4>1, <4>2
      <3> QED BY <3>1, <3>4, <3>5, <3>6 DEF newRing
    <2> QED BY <2>8, <2>9
  <1> QED BY <1>1, <1>2

\* When the ring's slots are the only references left, draining it empties the map.
LEMMA DrainFacts ==
    ASSUME NEW map \in Maps, NEW ring \in Rings,
           \A x \in Key : map[x].refs = Cardinality(SlotsOf(ring, x))
    PROVE  LruDrained(map, ring) = EmptyMap
  <1>1. \A x \in Key : ~(map[x].refs > Cardinality(SlotsOf(ring, x)))
    BY SlotsFinite
  <1> QED BY <1>1 DEF LruDrained, EmptyMap
===============================================================================
