--------------------------- MODULE MapManager_proofs ---------------------------
(***************************************************************************)
(* The reference counting of the map manager is right for every number of  *)
(* iterators, slices and LRU slots: IInv is an inductive invariant of      *)
(* MapManager!Spec.                                                        *)
(***************************************************************************)
EXTENDS MapManager, RcCache_proofs

LEMMA OwnersFinite ==
    ASSUME NEW S \in SUBSET Iterator
    PROVE  /\ IsFiniteSet(S)
           /\ Cardinality(S) \in Nat
           /\ \A i \in S : Cardinality(S) > 0
  <1>1. IsFiniteSet(S) /\ Cardinality(S) \in Nat
    BY IteratorAssumption, FS_Subset, FS_CardinalityType
  <1>2. \A i \in S : Cardinality(S) > 0
    BY <1>1, CardRemove
  <1> QED BY <1>1, <1>2

\* After a step, an owner's key has references.
LEMMA OwnerPresent ==
    ASSUME TypeOK', RefsExact', (\A i \in Iterator : IteratorOK(i))',
           NEW i \in Iterator, Owns(i)'
    PROVE  mapping'[i].index \in Key /\ Present(maps', mapping'[i].index)
  <1>0. PICK k \in Key : k = mapping'[i].index
    BY DEF IteratorOK, Owns
  <1>1. i \in Owners(k)'
    BY <1>0 DEF Owners
  <1>2. Owners(k)' \in SUBSET Iterator
    BY DEF Owners
  <1>3. Cardinality(Owners(k)') > 0 /\ Cardinality(Owners(k)') \in Nat
    BY <1>1, <1>2, OwnersFinite
  <1>4. maps'[k].refs = Cardinality(Owners(k)') + Cardinality(SlotsOf(lru', k))
    BY DEF RefsExact
  <1> QED BY <1>0, <1>3, <1>4, SlotsFinite DEF Present

-----------------------------------------------------------------------------
(* RefsExact, by the way a step moves references *)

LEMMA GainRef ==
    ASSUME TypeOK, RefsExact, NEW i \in Iterator, NEW k \in Key,
           ~Owns(i), Owns(i)', mapping'[i].index = k,
           \A j \in Iterator \ {i} : (Owns(j)' <=> Owns(j)) /\ mapping'[j] = mapping[j],
           \A x \in Key : maps'[x].refs = IF x = k THEN maps[x].refs + 1 ELSE maps[x].refs,
           UNCHANGED lru
    PROVE  RefsExact'
  <1> SUFFICES ASSUME NEW x \in Key
               PROVE  maps'[x].refs = Cardinality(Owners(x)') + Cardinality(SlotsOf(lru, x))
    BY DEF RefsExact
  <1>1. /\ Owners(x) \in SUBSET Iterator /\ i \notin Owners(x)
        /\ x = k => Owners(x)' = Owners(x) \cup {i}
        /\ x # k => Owners(x)' = Owners(x)
    BY DEF Owners
  <1>2. /\ Cardinality(Owners(x)) \in Nat /\ Cardinality(SlotsOf(lru, x)) \in Nat
        /\ x = k => Cardinality(Owners(x)') = Cardinality(Owners(x)) + 1
    BY <1>1, OwnersFinite, SlotsFinite, CardAdd
  <1>3. maps[x].refs = Cardinality(Owners(x)) + Cardinality(SlotsOf(lru, x))
    BY DEF RefsExact
  <1> QED BY <1>1, <1>2, <1>3

LEMMA LoseRef ==
    ASSUME TypeOK, RefsExact, NEW i \in Iterator, NEW k \in Key,
           Owns(i), ~Owns(i)', mapping[i].index = k,
           \A j \in Iterator \ {i} : (Owns(j)' <=> Owns(j)) /\ mapping'[j] = mapping[j],
           \A x \in Key : maps'[x].refs = IF x = k THEN maps[x].refs - 1 ELSE maps[x].refs,
           UNCHANGED lru
    PROVE  RefsExact'
  <1> SUFFICES ASSUME NEW x \in Key
               PROVE  maps'[x].refs = Cardinality(Owners(x)') + Cardinality(SlotsOf(lru, x))
    BY DEF RefsExact
  <1>1. /\ Owners(x) \in SUBSET Iterator /\ (x = k => i \in Owners(x))
        /\ x = k => Owners(x)' = Owners(x) \ {i}
        /\ x # k => Owners(x)' = Owners(x)
    BY DEF Owners
  <1>2. /\ Cardinality(Owners(x)) \in Nat /\ Cardinality(SlotsOf(lru, x)) \in Nat
        /\ x = k => Cardinality(Owners(x)') = Cardinality(Owners(x)) - 1
    BY <1>1, OwnersFinite, SlotsFinite, CardRemove
  <1>3. maps[x].refs = Cardinality(Owners(x)) + Cardinality(SlotsOf(lru, x))
    BY DEF RefsExact
  <1> QED BY <1>1, <1>2, <1>3

LEMMA SameRefs ==
    ASSUME RefsExact,
           \A j \in Iterator : /\ Owns(j)' <=> Owns(j)
                               /\ Owns(j) => mapping'[j] = mapping[j],
           UNCHANGED <<maps, lru>>
    PROVE  RefsExact'
  <1> SUFFICES ASSUME NEW x \in Key
               PROVE  maps[x].refs = Cardinality(Owners(x)') + Cardinality(SlotsOf(lru, x))
    BY DEF RefsExact
  <1>1. Owners(x)' = Owners(x)
    BY DEF Owners
  <1> QED BY <1>1 DEF RefsExact

-----------------------------------------------------------------------------
(* The cache's own invariants *)

\* References are dropped, and what is no longer cached is unmapped.
LEMMA ShrinkKeepsCache ==
    ASSUME TypeOK, CacheOK, MappedExact,
           NEW m \in Maps, WellFormed(m), Shrinks(maps, m), MapsBecome(m),
           UNCHANGED loaded,
           \A i \in Iterator : pc'[i] = "put" <=> pc[i] = "put"
    PROVE  CacheOK' /\ MappedExact' /\ maps' \in Maps /\ mapped' \subseteq Value
  <1>1. maps' = m /\ mapped' = mapped \ Disposed(maps, m)
    BY DEF MapsBecome
  <1>2. CacheOK'
    BY <1>1 DEF CacheOK, Shrinks
  <1>3. ASSUME NEW s \in Value
        PROVE  s \in mapped' <=>
                 \/ \E k \in Key : Present(m, k) /\ m[k].value = s
                 \/ \E i \in Iterator : pc[i] = "put" /\ loaded[i] = s
    <2>1. CASE \E k \in Key : Present(maps, k) /\ maps[k].value = s
      <3>1. PICK k \in Key : Present(maps, k) /\ maps[k].value = s
        BY <2>1
      <3>2. s \in Disposed(maps, m) <=> ~Present(m, k)
        BY <3>1 DEF Disposed, CacheOK
      <3>3. (\E l \in Key : Present(m, l) /\ m[l].value = s) <=> Present(m, k)
        BY <3>1 DEF Shrinks, CacheOK
      <3>4. \A i \in Iterator : pc[i] = "put" => loaded[i] # s
        BY <3>1 DEF CacheOK
      <3> QED BY <1>1, <3>1, <3>2, <3>3, <3>4 DEF MappedExact
    <2>2. CASE ~ \E k \in Key : Present(maps, k) /\ maps[k].value = s
      <3>1. s \notin Disposed(maps, m)
        BY <2>2 DEF Disposed
      <3>2. ~ \E l \in Key : Present(m, l) /\ m[l].value = s
        BY <2>2 DEF Shrinks
      <3> QED BY <1>1, <2>2, <3>1, <3>2 DEF MappedExact
    <2> QED BY <2>1, <2>2
  <1>4. MappedExact'
    BY <1>1, <1>3 DEF MappedExact
  <1> QED BY <1>1, <1>2, <1>4 DEF TypeOK

\* OwnedSliceMapped follows from the exact counts when an iterator that owns a
\* slice after the step has the slice that is cached, if one is.
LEMMA OwnedFromCache ==
    ASSUME TypeOK', WellFormed(maps'), MappedExact', RefsExact',
           (\A i \in Iterator : IteratorOK(i))',
           \A i \in Iterator : Owns(i)' /\ Present(maps', mapping'[i].index)
                => maps'[mapping'[i].index].value = mapping'[i].slice
    PROVE  OwnedSliceMapped'
  <1> SUFFICES ASSUME NEW i \in Iterator, Owns(i)'
               PROVE  /\ Present(maps', mapping'[i].index)
                      /\ maps'[mapping'[i].index].value = mapping'[i].slice
                      /\ mapping'[i].slice \in mapped'
    BY DEF OwnedSliceMapped
  <1>1. mapping'[i].index \in Key /\ Present(maps', mapping'[i].index)
    BY OwnerPresent
  <1>2. maps'[mapping'[i].index].value = mapping'[i].slice /\ mapping'[i].slice \in Value
    BY <1>1 DEF WellFormed
  <1> QED BY <1>1, <1>2 DEF MappedExact

-----------------------------------------------------------------------------
(* The inductive step, action by action *)

\* sqsh__map_manager_retain of what an iterator owns.
LEMMA RetainedFacts ==
    ASSUME IInv, NEW i \in Iterator, Owns(i)
    PROVE  LET k == mapping[i].index
           IN  /\ k \in Key /\ Present(maps, k)
               /\ Retained(mapping[i]) \in Maps
               /\ WellFormed(Retained(mapping[i]))
               /\ Shrinks(maps, Retained(mapping[i]))
               /\ \A x \in Key : Retained(mapping[i])[x].refs =
                     IF x = k THEN maps[x].refs + 1 ELSE maps[x].refs
  BY RetainFacts DEF IInv, TypeOK, CacheOK, OwnedSliceMapped, IteratorOK, Owns, Retained

LEMMA ReleasedFacts ==
    ASSUME IInv, NEW i \in Iterator, Owns(i)
    PROVE  LET k == mapping[i].index
           IN  /\ k \in Key /\ Present(maps, k)
               /\ Released(mapping[i]) \in Maps
               /\ WellFormed(Released(mapping[i]))
               /\ Shrinks(maps, Released(mapping[i]))
               /\ \A x \in Key : Released(mapping[i])[x].refs =
                     IF x = k THEN maps[x].refs - 1 ELSE maps[x].refs
  BY ReleaseFacts DEF IInv, TypeOK, CacheOK, OwnedSliceMapped, IteratorOK, Owns, Released

LEMMA StepCopy ==
    ASSUME IInv, NEW i \in Iterator, NEW j \in Iterator, IteratorCopy(i, j)
    PROVE  IInv'
  <1> USE DEF Goto
  <1>1. i # j
    BY DEF IteratorCopy
  <1>2. pc[i] = "dead" /\ mapping[i] = NoMapping /\ ~Owns(i) /\ Owns(i)' = Owns(j)
    BY DEF IteratorCopy, IInv, IteratorOK, Owns, TypeOK
  <1>3. \A l \in Iterator \ {i} : (Owns(l)' <=> Owns(l)) /\ mapping'[l] = mapping[l]
    BY DEF IteratorCopy, Owns, IInv, TypeOK
  <1>4. Retained(mapping[j]) \in Maps /\ WellFormed(Retained(mapping[j]))
        /\ Shrinks(maps, Retained(mapping[j]))
    <2>1. CASE Owns(j)
      BY <2>1, RetainedFacts
    <2>2. CASE ~Owns(j)
      BY <2>2 DEF Owns, IteratorCopy, Retained, IInv, TypeOK, CacheOK, Shrinks
    <2> QED BY <2>1, <2>2
  <1>5. CacheOK' /\ MappedExact' /\ maps' \in Maps /\ mapped' \subseteq Value
    BY <1>4, ShrinkKeepsCache DEF IInv, IteratorCopy, TypeOK
  <1>6. TypeOK'
    BY <1>5 DEF IteratorCopy, IInv, TypeOK, Phase, Busy
  <1>7. (\A l \in Iterator : IteratorOK(l))'
    BY DEF IteratorCopy, IInv, TypeOK, IteratorOK, Busy
  <1>8. ClosedOK'
    BY DEF IteratorCopy, IInv, ClosedOK
  <1>9. RefsExact'
    <2>1. CASE Owns(j)
      <3>1. mapping'[i].index = mapping[j].index
        BY DEF IteratorCopy, IInv, TypeOK
      <3>2. maps' = Retained(mapping[j])
        BY DEF IteratorCopy, MapsBecome
      <3> QED BY <1>2, <1>3, <2>1, <3>1, <3>2, RetainedFacts, GainRef DEF IInv, IteratorCopy
    <2>2. CASE ~Owns(j)
      <3>1. maps' = maps
        BY <2>2 DEF Owns, IteratorCopy, Retained, MapsBecome
      <3> QED BY <1>2, <1>3, <2>2, <3>1, SameRefs DEF IInv, IteratorCopy
    <2> QED BY <2>1, <2>2
  <1>10. OwnedSliceMapped'
    <2>1. \A l \in Iterator : Owns(l)' /\ Present(maps', mapping'[l].index)
            => maps'[mapping'[l].index].value = mapping'[l].slice
      BY <1>2, <1>3, <1>4 DEF IInv, OwnedSliceMapped, Shrinks, IteratorCopy, MapsBecome,
                              TypeOK, IteratorOK, Owns
    <2> QED BY <1>5, <1>6, <1>7, <1>9, <2>1, OwnedFromCache DEF CacheOK
  <1>11. DataMapped'
    BY <1>2, <1>3 DEF IInv, DataMapped, IteratorCopy, TypeOK, Owns
  <1> QED BY <1>5, <1>6, <1>7, <1>8, <1>9, <1>10, <1>11 DEF IInv

LEMMA StepInit ==
    ASSUME IInv, NEW i \in Iterator, NEW k \in Key, IteratorInit(i, k)
    PROVE  IInv'
  <1> USE DEF Goto, managerVars
  <1>1. \A l \in Iterator : (Owns(l)' <=> Owns(l)) /\ (Owns(l) => mapping'[l] = mapping[l])
    BY DEF IteratorInit, IInv, TypeOK, IteratorOK, Owns
  <1>2. TypeOK'
    BY KeyAssumption, BlockCountAssumption DEF IteratorInit, IInv, TypeOK, Phase, NoMapping
  <1>3. CacheOK' /\ MappedExact'
    BY DEF IteratorInit, IInv, TypeOK, CacheOK, MappedExact
  <1>4. (\A l \in Iterator : IteratorOK(l))'
    BY DEF IteratorInit, IInv, TypeOK, IteratorOK, Busy
  <1>5. ClosedOK'
    BY DEF IteratorInit, IInv, ClosedOK
  <1>6. RefsExact'
    BY <1>1, SameRefs DEF IteratorInit, IInv
  <1>7. OwnedSliceMapped'
    BY <1>1 DEF IteratorInit, IInv, OwnedSliceMapped
  <1>8. DataMapped'
    BY <1>1 DEF IteratorInit, IInv, DataMapped, TypeOK, Owns
  <1> QED BY <1>2, <1>3, <1>4, <1>5, <1>6, <1>7, <1>8 DEF IInv

\* The two calls that release what the iterator points to, with the invariants
\* both restore in the same way.
LEMMA ReleaseStep ==
    ASSUME IInv, NEW i \in Iterator, lock = NoIterator,
           ~Owns(i)', pc[i] # "put", pc'[i] # "put",
           pc[i] # "get", \A l \in Iterator \ {i} : pc'[l] = pc[l] /\ mapping'[l] = mapping[l],
           MapsBecome(Released(mapping[i])), UNCHANGED <<lru, loaded>>,
           TypeOK', (\A l \in Iterator : IteratorOK(l))'
    PROVE  CacheOK' /\ MappedExact' /\ RefsExact' /\ OwnedSliceMapped'
  <1>1. \A l \in Iterator \ {i} : Owns(l)' <=> Owns(l)
    BY DEF Owns
  <1>2. Released(mapping[i]) \in Maps /\ WellFormed(Released(mapping[i]))
        /\ Shrinks(maps, Released(mapping[i]))
    <2>1. CASE Owns(i)
      BY <2>1, ReleasedFacts
    <2>2. CASE ~Owns(i)
      BY <2>2 DEF Owns, Released, IInv, TypeOK, CacheOK, Shrinks
    <2> QED BY <2>1, <2>2
  <1>3. CacheOK' /\ MappedExact'
    BY <1>2, ShrinkKeepsCache DEF IInv
  <1>4. RefsExact'
    <2>1. CASE Owns(i)
      <3>1. maps' = Released(mapping[i])
        BY DEF MapsBecome
      <3> QED BY <1>1, <2>1, <3>1, ReleasedFacts, LoseRef DEF IInv
    <2>2. CASE ~Owns(i)
      <3>1. maps' = maps
        BY <2>2 DEF Owns, Released, MapsBecome
      <3> QED BY <1>1, <2>2, <3>1, SameRefs DEF IInv
    <2> QED BY <2>1, <2>2
  <1>5. \A l \in Iterator : Owns(l)' /\ Present(maps', mapping'[l].index)
          => maps'[mapping'[l].index].value = mapping'[l].slice
    BY <1>1, <1>2 DEF IInv, OwnedSliceMapped, Shrinks, MapsBecome, IteratorOK, Owns
  <1>6. OwnedSliceMapped'
    BY <1>3, <1>4, <1>5, OwnedFromCache DEF CacheOK
  <1> QED BY <1>3, <1>4, <1>6

LEMMA MapsBecomeType ==
    ASSUME IInv, NEW i \in Iterator, pc[i] # "get", MapsBecome(Released(mapping[i]))
    PROVE  maps' \in Maps /\ mapped' \subseteq Value
  <1>1. Released(mapping[i]) \in Maps
    <2>1. CASE Owns(i)
      BY <2>1, ReleasedFacts
    <2>2. CASE ~Owns(i)
      BY <2>2 DEF Owns, Released, IInv, TypeOK
    <2> QED BY <2>1, <2>2
  <1> QED BY <1>1 DEF MapsBecome, IInv, TypeOK

LEMMA StepCleanup ==
    ASSUME IInv, NEW i \in Iterator, IteratorCleanup(i)
    PROVE  IInv'
  <1> USE DEF Goto
  <1>1. maps' \in Maps /\ mapped' \subseteq Value
    BY MapsBecomeType DEF IteratorCleanup
  <1>2. TypeOK'
    BY <1>1 DEF IteratorCleanup, IInv, TypeOK, Phase, NoMapping
  <1>3. (\A l \in Iterator : IteratorOK(l))'
    BY NoIteratorAssumption DEF IteratorCleanup, IInv, TypeOK, IteratorOK, Busy
  <1>4. CacheOK' /\ MappedExact' /\ RefsExact' /\ OwnedSliceMapped'
    <2>1. ~Owns(i)' /\ pc'[i] = "dead"
      BY DEF IteratorCleanup, IInv, TypeOK, Owns
    <2> QED BY <1>2, <1>3, <2>1, ReleaseStep DEF IteratorCleanup, IInv, TypeOK
  <1>5. ClosedOK'
    BY DEF IteratorCleanup, IInv, ClosedOK
  <1>6. DataMapped'
    BY DEF IteratorCleanup, IInv, TypeOK, DataMapped, Owns
  <1> QED BY <1>2, <1>3, <1>4, <1>5, <1>6 DEF IInv

LEMMA StepAdvance ==
    ASSUME IInv, NEW i \in Iterator, pc[i] = "idle", NEW n \in Nat,
           NEW end \in {"idle", "failed"}, Advance(i, n, end)
    PROVE  IInv'
  <1> USE DEF Goto
  <1>1. CASE n >= BlockCount
    <2> USE <1>1 DEF Advance, managerVars
    <2>1. \A l \in Iterator : (Owns(l)' <=> Owns(l)) /\ mapping'[l] = mapping[l]
      BY DEF IInv, TypeOK, Owns
    <2>2. TypeOK'
      BY DEF IInv, TypeOK, Phase
    <2>3. CacheOK' /\ MappedExact'
      BY DEF IInv, TypeOK, CacheOK, MappedExact
    <2>4. (\A l \in Iterator : IteratorOK(l))'
      BY DEF IInv, TypeOK, IteratorOK, Busy
    <2>5. ClosedOK'
      BY DEF IInv, ClosedOK
    <2>6. RefsExact'
      BY <2>1, SameRefs DEF IInv
    <2>7. OwnedSliceMapped'
      BY <2>1 DEF IInv, OwnedSliceMapped
    <2>8. DataMapped'
      BY <2>1 DEF IInv, DataMapped, TypeOK
    <2> QED BY <2>2, <2>3, <2>4, <2>5, <2>6, <2>7, <2>8 DEF IInv
  <1>2. CASE ~(n >= BlockCount)
    <2>0. n \in Key
      BY <1>2, KeyAssumption, BlockCountAssumption
    <2> USE <1>2 DEF Advance
    <2>1. maps' \in Maps /\ mapped' \subseteq Value
      BY MapsBecomeType
    <2>2. TypeOK'
      BY <2>1 DEF IInv, TypeOK, Phase, Busy
    <2>3. (\A l \in Iterator : IteratorOK(l))'
      BY <2>0, NoIteratorAssumption DEF IInv, TypeOK, IteratorOK, Busy
    <2>4. CacheOK' /\ MappedExact' /\ RefsExact' /\ OwnedSliceMapped'
      <3>1. ~Owns(i)' /\ pc'[i] = "get"
        BY DEF IInv, TypeOK, Owns
      <3> QED BY <2>2, <2>3, <3>1, ReleaseStep DEF IInv, TypeOK
    <2>5. ClosedOK'
      BY DEF IInv, ClosedOK
    <2>6. DataMapped'
      BY DEF IInv, TypeOK, DataMapped, Owns
    <2> QED BY <2>2, <2>3, <2>4, <2>5, <2>6 DEF IInv
  <1> QED BY <1>1, <1>2

LEMMA StepLookup ==
    ASSUME IInv, NEW i \in Iterator, GetLookup(i)
    PROVE  IInv'
  <1> USE DEF Goto
  <1>0. next[i] \in Key /\ ~Owns(i) /\ pc[i] = "get"
    BY DEF GetLookup, IInv, IteratorOK, Busy, Owns
  <1>1. \A l \in Iterator \ {i} :
          /\ pc'[l] = pc[l] /\ mapping'[l] = mapping[l]
          /\ Owns(l)' <=> Owns(l)
    BY DEF GetLookup, IInv, TypeOK, Owns
  <1>2. ClosedOK'
    BY <1>0 DEF GetLookup, IInv, ClosedOK
  <1>3. CASE Present(maps, next[i])
    <2> DEFINE found == [index |-> next[i], slice |-> maps[next[i]].value]
    <2>1. /\ lock' = i /\ maps' = RcRetain(maps, next[i]) /\ pc'[i] = "touch"
          /\ mapping'[i] = found
          /\ UNCHANGED <<lru, mapped, loaded, data, next, open>>
      BY <1>3 DEF GetLookup, IInv, TypeOK
    <2>2. found # NoMapping /\ found.index = next[i] /\ found.slice \in Value
      BY <1>0, <1>3, NoKeyAssumption DEF IInv, CacheOK, WellFormed, NoMapping
    <2>3. /\ maps' \in Maps /\ WellFormed(maps') /\ Shrinks(maps, maps')
          /\ \A x \in Key : maps'[x].refs =
                IF x = next[i] THEN maps[x].refs + 1 ELSE maps[x].refs
      BY <1>0, <1>3, <2>1, RetainFacts DEF IInv, CacheOK, TypeOK
    <2>4. Disposed(maps, maps') = {}
      BY <2>3 DEF Disposed, Present, IInv, TypeOK, Maps
    <2>5. MapsBecome(maps') /\ \A l \in Iterator : pc'[l] = "put" <=> pc[l] = "put"
      BY <1>0, <1>1, <2>1, <2>4 DEF MapsBecome
    <2>6. CacheOK' /\ MappedExact'
      BY <2>1, <2>3, <2>5, ShrinkKeepsCache DEF IInv
    <2>7. TypeOK'
      <3>1. /\ mapping' = [mapping EXCEPT ![i] = found]
            /\ pc' = [pc EXCEPT ![i] = "touch"]
        BY <1>3 DEF GetLookup
      <3>2. found \in [index : Key \cup {NoKey}, slice : Value \cup {NoValue}]
        BY <1>0, <2>2
      <3> HIDE DEF found
      <3> QED BY <2>1, <2>3, <3>1, <3>2 DEF IInv, TypeOK, Phase, Busy
    <2>8. (\A l \in Iterator : IteratorOK(l))'
      <3>1. IteratorOK(i)'
        BY <1>0, <2>1, <2>2 DEF IteratorOK, Busy
      <3>2. ASSUME NEW l \in Iterator \ {i} PROVE IteratorOK(l)'
        BY <1>1, <2>1, NoIteratorAssumption DEF IteratorOK, Busy, IInv, GetLookup
      <3> QED BY <3>1, <3>2
    <2>9. RefsExact'
      <3>1. Owns(i)' /\ mapping'[i].index = next[i]
        BY <2>1, <2>2 DEF Owns
      <3> QED BY <1>0, <1>1, <2>1, <2>3, <3>1, GainRef DEF IInv
    <2>10. OwnedSliceMapped'
      <3>1. \A l \in Iterator : Owns(l)' /\ Present(maps', mapping'[l].index)
              => maps'[mapping'[l].index].value = mapping'[l].slice
        BY <1>0, <1>1, <2>1, <2>3 DEF IInv, OwnedSliceMapped, Shrinks, IteratorOK, Owns
      <3> QED BY <2>6, <2>7, <2>8, <2>9, <3>1, OwnedFromCache DEF CacheOK
    <2>11. DataMapped'
      BY <1>1, <2>1 DEF IInv, DataMapped
    <2> QED BY <1>2, <2>6, <2>7, <2>8, <2>9, <2>10, <2>11 DEF IInv
  <1>4. CASE ~Present(maps, next[i])
    <2>1. /\ mapping'[i] = NoMapping /\ pc'[i] = "load"
          /\ UNCHANGED <<lock, maps, lru, mapped, loaded, data, next, open>>
      BY <1>4 DEF GetLookup, IInv, TypeOK
    <2>2. TypeOK'
      BY <1>4 DEF GetLookup, IInv, TypeOK, Phase, Busy, NoMapping
    <2>3. CacheOK' /\ MappedExact'
      BY <1>0, <1>1, <2>1 DEF IInv, CacheOK, MappedExact
    <2>4. (\A l \in Iterator : IteratorOK(l))'
      <3>1. IteratorOK(i)'
        BY <1>0, <2>1, NoIteratorAssumption DEF IteratorOK, Busy, GetLookup
      <3>2. ASSUME NEW l \in Iterator \ {i} PROVE IteratorOK(l)'
        BY <1>1, <2>1 DEF IteratorOK, Busy, IInv
      <3> QED BY <3>1, <3>2
    <2>5. ~Owns(i)'
      BY <2>1 DEF Owns
    <2>6. RefsExact'
      BY <1>0, <1>1, <2>1, <2>5, SameRefs DEF IInv
    <2>7. OwnedSliceMapped'
      BY <1>0, <1>1, <2>1, <2>5 DEF IInv, OwnedSliceMapped
    <2>8. DataMapped'
      BY <1>1, <2>1 DEF IInv, DataMapped
    <2> QED BY <1>2, <2>2, <2>3, <2>4, <2>6, <2>7, <2>8 DEF IInv
  <1> QED BY <1>3, <1>4

LEMMA StepLoad ==
    ASSUME IInv, NEW i \in Iterator, NEW s \in Value \ mapped, GetLoad(i, s)
    PROVE  IInv'
  <1> USE DEF GetLoad, Goto
  <1>1. /\ \A l \in Iterator : (Owns(l)' <=> Owns(l)) /\ mapping'[l] = mapping[l]
        /\ \A l \in Iterator \ {i} : pc'[l] = pc[l] /\ loaded'[l] = loaded[l]
        /\ pc'[i] = "put" /\ loaded'[i] = s
    BY DEF IInv, TypeOK, Owns
  <1>2. TypeOK'
    BY DEF IInv, TypeOK, Phase, Busy
  <1>3. /\ \A k \in Key : Present(maps, k) => maps[k].value # s
        /\ \A j \in Iterator : pc[j] = "put" => loaded[j] # s
    BY DEF IInv, MappedExact
  <1>4. CacheOK'
    BY <1>1, <1>3 DEF IInv, CacheOK
  <1>5. MappedExact'
    BY <1>1, <1>3 DEF IInv, MappedExact
  <1>6. (\A l \in Iterator : IteratorOK(l))'
    BY NoIteratorAssumption DEF IInv, TypeOK, IteratorOK, Busy
  <1>7. ClosedOK'
    BY DEF IInv, ClosedOK
  <1>8. RefsExact'
    BY <1>1, SameRefs DEF IInv
  <1>9. OwnedSliceMapped'
    BY <1>1 DEF IInv, OwnedSliceMapped
  <1>10. DataMapped'
    BY <1>1 DEF IInv, DataMapped
  <1> QED BY <1>2, <1>4, <1>5, <1>6, <1>7, <1>8, <1>9, <1>10 DEF IInv

LEMMA StepLoadFails ==
    ASSUME IInv, NEW i \in Iterator, GetLoadFails(i)
    PROVE  IInv'
  <1> USE DEF GetLoadFails, Goto, managerVars
  <1>1. \A l \in Iterator : (Owns(l)' <=> Owns(l)) /\ mapping'[l] = mapping[l]
    BY DEF IInv, TypeOK, Owns
  <1>2. TypeOK'
    BY DEF IInv, TypeOK, Phase
  <1>3. CacheOK' /\ MappedExact'
    BY DEF IInv, TypeOK, CacheOK, MappedExact
  <1>4. (\A l \in Iterator : IteratorOK(l))'
    BY DEF IInv, TypeOK, IteratorOK, Busy
  <1>5. ClosedOK'
    BY DEF IInv, ClosedOK
  <1>6. RefsExact'
    BY <1>1, SameRefs DEF IInv
  <1>7. OwnedSliceMapped'
    BY <1>1 DEF IInv, OwnedSliceMapped
  <1>8. DataMapped'
    BY <1>1 DEF IInv, DataMapped, TypeOK
  <1> QED BY <1>2, <1>3, <1>4, <1>5, <1>6, <1>7, <1>8 DEF IInv

\* The put settles the race of two threads that loaded the same index.
LEMMA StepPut ==
    ASSUME IInv, NEW i \in Iterator, GetPut(i)
    PROVE  IInv'
  <1> DEFINE k == next[i]
             s == loaded[i]
             stored == [index |-> k, slice |-> maps'[k].value]
  <1>1. /\ k \in Key /\ s \in Value /\ ~Owns(i) /\ pc[i] = "put"
        /\ \A x \in Key : Present(maps, x) => maps[x].value # s
        /\ \A l \in Iterator \ {i} : pc[l] = "put" => loaded[l] # s
    BY DEF GetPut, IInv, IteratorOK, Busy, Owns, CacheOK
  <1>2. /\ lock = NoIterator /\ lock' = i /\ pc' = [pc EXCEPT ![i] = "touch"]
        /\ mapping' = [mapping EXCEPT ![i] = stored]
        /\ loaded' = [loaded EXCEPT ![i] = NoValue]
        /\ maps' = RcPut(maps, k, s)
        /\ mapped' = IF Present(maps, k) THEN mapped \ {s} ELSE mapped
        /\ UNCHANGED <<open, lru, data, next>>
    BY DEF GetPut, Goto
  <1>3. /\ maps' \in Maps /\ WellFormed(maps')
        /\ \A x \in Key : maps'[x].refs = IF x = k THEN maps[x].refs + 1 ELSE maps[x].refs
        /\ \A x \in Key : maps'[x].value =
              IF x = k /\ ~Present(maps, k) THEN s ELSE maps[x].value
    BY <1>1, <1>2, PutFacts DEF IInv, TypeOK, CacheOK
  <1>4. stored # NoMapping /\ stored.index = k /\ stored.slice \in Value
    BY <1>1, <1>3, NoKeyAssumption DEF WellFormed, Present, NoMapping, Maps, IInv, TypeOK
  <1>5. /\ mapping'[i] = stored /\ pc'[i] = "touch"
        /\ \A l \in Iterator \ {i} :
              /\ pc'[l] = pc[l] /\ mapping'[l] = mapping[l] /\ loaded'[l] = loaded[l]
              /\ Owns(l)' <=> Owns(l)
    BY <1>2 DEF IInv, TypeOK, Owns
  <1>6. TypeOK'
    <2>1. stored \in [index : Key \cup {NoKey}, slice : Value \cup {NoValue}]
      BY <1>1, <1>4
    <2> HIDE DEF stored
    <2> QED BY <1>1, <1>2, <1>3, <2>1 DEF IInv, TypeOK, Phase, Busy
  <1> HIDE DEF stored
  <1>7. \A x \in Key : Present(maps', x) <=> Present(maps, x) \/ x = k
    BY <1>1, <1>3 DEF Present, IInv, TypeOK, Maps
  <1> HIDE DEF k, s
  <1>8. CacheOK'
    <2>1. ASSUME NEW x \in Key, NEW y \in Key, Present(maps', x), Present(maps', y),
                 maps'[x].value = maps'[y].value
          PROVE  x = y
      BY <1>1, <1>3, <1>7, <2>1 DEF IInv, CacheOK
    <2>2. ASSUME NEW l \in Iterator, pc'[l] = "put"
          PROVE  /\ loaded'[l] \in Value
                 /\ \A x \in Key : Present(maps', x) => maps'[x].value # loaded'[l]
                 /\ \A j \in Iterator : pc'[j] = "put" /\ loaded'[j] = loaded'[l] => j = l
      BY <1>1, <1>3, <1>5, <1>7, <2>2 DEF IInv, CacheOK
    <2> QED BY <1>3, <2>1, <2>2 DEF CacheOK
  <1>9. MappedExact'
    <2> SUFFICES ASSUME NEW v \in Value
                 PROVE  v \in mapped' <=>
                          \/ \E x \in Key : Present(maps', x) /\ maps'[x].value = v
                          \/ \E l \in Iterator : pc'[l] = "put" /\ loaded'[l] = v
      BY DEF MappedExact
    <2>1. v \in mapped <=>
            \/ \E x \in Key : Present(maps, x) /\ maps[x].value = v
            \/ \E l \in Iterator : pc[l] = "put" /\ loaded[l] = v
      BY DEF IInv, MappedExact
    <2>2. (\E l \in Iterator : pc[l] = "put" /\ loaded[l] = v) <=>
            v = s \/ \E l \in Iterator : pc'[l] = "put" /\ loaded'[l] = v
      BY <1>1, <1>5 DEF s
    <2>3. \A l \in Iterator : pc'[l] = "put" => loaded'[l] # s
      BY <1>1, <1>5
    <2>4. CASE Present(maps, k)
      <3>1. \A x \in Key : /\ Present(maps', x) <=> Present(maps, x)
                           /\ maps'[x].value = maps[x].value
        BY <1>3, <1>7, <2>4
      <3>2. mapped' = mapped \ {s}
        BY <1>2, <2>4
      <3> QED BY <1>1, <2>1, <2>2, <2>3, <3>1, <3>2
    <2>5. CASE ~Present(maps, k)
      <3>1. (\E x \in Key : Present(maps', x) /\ maps'[x].value = v) <=>
              v = s \/ \E x \in Key : Present(maps, x) /\ maps[x].value = v
        BY <1>1, <1>3, <1>7, <2>5
      <3>2. mapped' = mapped
        BY <1>2, <2>5
      <3> QED BY <2>1, <2>2, <3>1, <3>2
    <2> QED BY <2>4, <2>5
  <1>10. (\A l \in Iterator : IteratorOK(l))'
    <2>1. IteratorOK(i)'
      BY <1>1, <1>2, <1>4, <1>5 DEF IteratorOK, Busy, k
    <2>2. ASSUME NEW l \in Iterator \ {i} PROVE IteratorOK(l)'
      BY <1>2, <1>5, NoIteratorAssumption DEF IteratorOK, Busy, IInv
    <2> QED BY <2>1, <2>2
  <1>11. ClosedOK'
    BY <1>1, <1>2 DEF IInv, ClosedOK
  <1>12. Owns(i)'
    BY <1>4, <1>5 DEF Owns
  <1>13. RefsExact'
    BY <1>1, <1>2, <1>3, <1>4, <1>5, <1>12, GainRef DEF IInv
  <1>14. OwnedSliceMapped'
    <2>1. ASSUME NEW l \in Iterator, Owns(l)'
          PROVE  maps'[mapping'[l].index].value = mapping'[l].slice
      <3>1. CASE l = i
        BY <1>4, <1>5, <3>1 DEF stored
      <3>2. CASE l # i
        BY <1>3, <1>5, <2>1, <3>2 DEF IInv, OwnedSliceMapped, IteratorOK, Owns
      <3> QED BY <3>1, <3>2
    <2> QED BY <1>3, <1>6, <1>9, <1>10, <1>13, <2>1, OwnedFromCache
  <1>15. DataMapped'
    BY <1>2, <1>5 DEF IInv, DataMapped
  <1> QED BY <1>6, <1>8, <1>9, <1>10, <1>11, <1>13, <1>14, <1>15 DEF IInv

LEMMA StepPutFails ==
    ASSUME IInv, NEW i \in Iterator, GetPutFails(i)
    PROVE  IInv'
  <1> USE DEF GetPutFails, Goto
  <1>1. /\ loaded[i] \in Value
        /\ \A x \in Key : Present(maps, x) => maps[x].value # loaded[i]
        /\ \A l \in Iterator \ {i} : pc[l] = "put" => loaded[l] # loaded[i]
    BY DEF IInv, CacheOK
  <1>2. \A l \in Iterator : (Owns(l)' <=> Owns(l)) /\ mapping'[l] = mapping[l]
    BY DEF IInv, TypeOK, Owns
  <1>3. /\ pc'[i] = "failed"
        /\ \A l \in Iterator \ {i} : pc'[l] = pc[l] /\ loaded'[l] = loaded[l]
    BY DEF IInv, TypeOK
  <1>4. TypeOK'
    BY DEF IInv, TypeOK, Phase
  <1>5. CacheOK'
    BY <1>3 DEF IInv, CacheOK
  <1>6. MappedExact'
    BY <1>1, <1>3 DEF IInv, MappedExact
  <1>7. (\A l \in Iterator : IteratorOK(l))'
    BY NoIteratorAssumption DEF IInv, TypeOK, IteratorOK, Busy
  <1>8. ClosedOK'
    BY DEF IInv, ClosedOK
  <1>9. RefsExact'
    BY <1>2, SameRefs DEF IInv
  <1>10. OwnedSliceMapped'
    BY <1>1, <1>2 DEF IInv, OwnedSliceMapped, Owns, IteratorOK
  <1>11. DataMapped'
    BY <1>2, <1>3 DEF IInv, DataMapped
  <1> QED BY <1>4, <1>5, <1>6, <1>7, <1>8, <1>9, <1>10, <1>11 DEF IInv

LEMMA StepTouch ==
    ASSUME IInv, NEW i \in Iterator, GetTouch(i)
    PROVE  IInv'
  <1> DEFINE k == next[i]
             m == RcTouch(maps, lru, k)
  <1>1. /\ pc[i] = "touch" /\ lock = i /\ k \in Key /\ Owns(i)
        /\ mapping[i] # NoMapping /\ mapping[i].index = k /\ Present(maps, k)
    BY DEF GetTouch, IInv, IteratorOK, Busy, Owns, OwnedSliceMapped
  <1>2. /\ MapsBecome(m) /\ lru' = LruTouch(lru, k) /\ lock' = NoIterator
        /\ data' = [data EXCEPT ![i] = mapping[i].slice]
        /\ next' = [next EXCEPT ![i] = @ + 1]
        /\ pc' = [pc EXCEPT ![i] = "idle"]
        /\ UNCHANGED <<open, mapping, loaded>>
    BY DEF GetTouch, Goto
  <1>3. \A l \in Iterator : /\ Owns(l)' <=> Owns(l)
                            /\ mapping'[l] = mapping[l]
    BY <1>1, <1>2 DEF Owns, IInv, TypeOK
  <1>4. \A x \in Key : /\ maps[x].refs = Cardinality(Owners(x)) + Cardinality(SlotsOf(lru, x))
                       /\ Cardinality(Owners(x)) \in Nat
                       /\ Cardinality(SlotsOf(lru, x)) \in Nat
                       /\ Cardinality(SlotsOf(lru', x)) \in Nat
    <2>1. \A x \in Key : Owners(x) \in SUBSET Iterator
      BY DEF Owners
    <2> QED BY <2>1, OwnersFinite, SlotsFinite DEF IInv, RefsExact
  <1>5. /\ m \in Maps /\ WellFormed(m) /\ Shrinks(maps, m)
        /\ \A x \in Key : m[x].refs + Cardinality(SlotsOf(lru, x))
                           = maps[x].refs + Cardinality(SlotsOf(LruTouch(lru, k), x))
    <2>1. \A x \in Key : maps[x].refs >= Cardinality(SlotsOf(lru, x))
      BY <1>4
    <2>2. maps \in Maps /\ WellFormed(maps) /\ lru \in Rings
      BY DEF IInv, TypeOK, CacheOK
    <2> QED BY <1>1, <2>1, <2>2, TouchFacts
  <1>6. maps' = m
    BY <1>2 DEF MapsBecome
  <1> HIDE DEF m, k
  <1>7. CacheOK' /\ MappedExact' /\ maps' \in Maps /\ mapped' \subseteq Value
    <2>1. \A l \in Iterator : pc'[l] = "put" <=> pc[l] = "put"
      BY <1>1, <1>2 DEF IInv, TypeOK
    <2> QED BY <1>2, <1>5, <2>1, ShrinkKeepsCache DEF IInv
  <1>8. TypeOK'
    <2>1. lru' \in Rings
      BY <1>1, <1>2, LruTouchType DEF IInv, TypeOK
    <2> QED BY <1>2, <1>7, <2>1 DEF IInv, TypeOK, Phase
  <1>9. (\A l \in Iterator : IteratorOK(l))'
    BY <1>1, <1>2, NoIteratorAssumption, KeyAssumption DEF IInv, TypeOK, IteratorOK, Busy
  <1>10. ClosedOK'
    BY <1>1, <1>2 DEF IInv, ClosedOK
  <1>11. RefsExact'
    <2> SUFFICES ASSUME NEW x \in Key
                 PROVE  m[x].refs = Cardinality(Owners(x)') + Cardinality(SlotsOf(lru', x))
      BY <1>6 DEF RefsExact
    <2>1. Owners(x)' = Owners(x)
      BY <1>3 DEF Owners
    <2>2. m[x].refs \in Nat
      BY <1>5 DEF Maps
    <2> QED BY SMTT(30), <1>2, <1>4, <1>5, <2>1, <2>2
  <1>12. OwnedSliceMapped'
    <2>1. \A l \in Iterator : Owns(l)' /\ Present(maps', mapping'[l].index)
            => maps'[mapping'[l].index].value = mapping'[l].slice
      BY <1>3, <1>5, <1>6 DEF IInv, OwnedSliceMapped, Shrinks, IteratorOK, Owns
    <2> QED BY <1>5, <1>6, <1>7, <1>8, <1>9, <1>11, <2>1, OwnedFromCache
  <1>13. DataMapped'
    BY <1>1, <1>2, <1>3 DEF IInv, DataMapped, TypeOK
  <1> QED BY <1>7, <1>8, <1>9, <1>10, <1>11, <1>12, <1>13 DEF IInv

LEMMA StepTouchFails ==
    ASSUME IInv, NEW i \in Iterator, GetTouchFails(i)
    PROVE  IInv'
  <1> USE DEF GetTouchFails, Goto
  <1>1. \A l \in Iterator : (Owns(l)' <=> Owns(l)) /\ mapping'[l] = mapping[l]
    BY DEF IInv, TypeOK, Owns
  <1>2. TypeOK'
    BY DEF IInv, TypeOK, Phase
  <1>3. CacheOK' /\ MappedExact'
    BY DEF IInv, TypeOK, CacheOK, MappedExact
  <1>4. (\A l \in Iterator : IteratorOK(l))'
    BY NoIteratorAssumption DEF IInv, TypeOK, IteratorOK, Busy
  <1>5. ClosedOK'
    BY DEF IInv, ClosedOK
  <1>6. RefsExact'
    BY <1>1, SameRefs DEF IInv
  <1>7. OwnedSliceMapped'
    BY <1>1 DEF IInv, OwnedSliceMapped
  <1>8. DataMapped'
    BY <1>1 DEF IInv, DataMapped, TypeOK
  <1> QED BY <1>2, <1>3, <1>4, <1>5, <1>6, <1>7, <1>8 DEF IInv

\* With no iterator alive the LRU's references are the last ones.
LEMMA StepManagerCleanup ==
    ASSUME IInv, ManagerCleanup
    PROVE  IInv' /\ maps' = EmptyMap
  <1> USE DEF ManagerCleanup
  <1>1. \A i \in Iterator : /\ pc[i] = "dead" /\ ~Owns(i) /\ ~Owns(i)'
                            /\ mapping[i] = NoMapping
    BY DEF IInv, IteratorOK, Owns
  <1>2. LruDrained(maps, lru) = EmptyMap
    <2> SUFFICES ASSUME NEW x \in Key
                 PROVE  maps[x].refs = Cardinality(SlotsOf(lru, x))
      BY DrainFacts DEF IInv, TypeOK
    <2>1. Owners(x) = {}
      BY <1>1 DEF Owners
    <2>2. Cardinality(Owners(x)) = 0 /\ Cardinality(SlotsOf(lru, x)) \in Nat
      BY <2>1, FS_EmptySet, SlotsFinite
    <2>3. maps[x].refs = Cardinality(Owners(x)) + Cardinality(SlotsOf(lru, x))
      BY DEF IInv, RefsExact
    <2> QED BY <2>2, <2>3
  <1>3. EmptyMap \in Maps /\ WellFormed(EmptyMap) /\ Shrinks(maps, EmptyMap)
    BY NoValueAssumption DEF EmptyMap, Maps, WellFormed, Present, Shrinks, Absent
  <1>4. MapsBecome(EmptyMap) /\ maps' = EmptyMap
    BY <1>2 DEF MapsBecome
  <1>5. CacheOK' /\ MappedExact' /\ maps' \in Maps /\ mapped' \subseteq Value
    BY <1>3, <1>4, ShrinkKeepsCache DEF IInv
  <1>6. TypeOK'
    <2>1. EmptyRing \in Rings
      BY LruSizeAssumption DEF EmptyRing, Rings
    <2> QED BY <1>5, <2>1 DEF IInv, TypeOK
  <1>7. (\A l \in Iterator : IteratorOK(l))'
    BY DEF IInv, TypeOK, IteratorOK
  <1>8. ClosedOK'
    BY <1>1, <1>4 DEF ClosedOK
  <1>9. RefsExact'
    <2> SUFFICES ASSUME NEW x \in Key
                 PROVE  EmptyMap[x].refs = Cardinality(Owners(x)') + Cardinality(SlotsOf(EmptyRing, x))
      BY <1>4 DEF RefsExact
    <2>1. Owners(x)' = {}
      BY <1>1 DEF Owners
    <2> QED BY <2>1, FS_EmptySet, SlotsOfEmptyRing DEF EmptyMap, Absent
  <1>10. OwnedSliceMapped'
    BY <1>1 DEF OwnedSliceMapped
  <1>11. DataMapped'
    BY <1>1 DEF DataMapped
  <1> QED BY <1>4, <1>5, <1>6, <1>7, <1>8, <1>9, <1>10, <1>11 DEF IInv

LEMMA StepManagerInit ==
    ASSUME IInv, ManagerInit
    PROVE  IInv'
  <1> USE DEF ManagerInit
  <1>1. maps = EmptyMap /\ lru = EmptyRing
    BY DEF IInv, ClosedOK
  <1>2. \A l \in Iterator : (Owns(l)' <=> Owns(l)) /\ mapping'[l] = mapping[l]
    BY DEF Owns
  <1>3. TypeOK'
    BY <1>1 DEF IInv, TypeOK
  <1>4. CacheOK' /\ MappedExact'
    BY <1>1 DEF IInv, CacheOK, MappedExact
  <1>5. (\A l \in Iterator : IteratorOK(l))'
    BY DEF IInv, IteratorOK
  <1>6. ClosedOK'
    BY DEF ClosedOK
  <1>7. RefsExact'
    BY <1>1, <1>2, SameRefs DEF IInv
  <1>8. OwnedSliceMapped'
    BY <1>1, <1>2 DEF IInv, OwnedSliceMapped
  <1>9. DataMapped'
    BY <1>2 DEF IInv, DataMapped
  <1> QED BY <1>3, <1>4, <1>5, <1>6, <1>7, <1>8, <1>9 DEF IInv

LEMMA InitIInv == Init => IInv
  <1> SUFFICES ASSUME Init PROVE IInv
    OBVIOUS
  <1> USE DEF Init
  <1>1. TypeOK
    BY LruSizeAssumption DEF TypeOK, EmptyMap, EmptyRing, Maps, Rings, Absent, Phase, NoMapping
  <1>2. CacheOK /\ MappedExact
    BY NoValueAssumption DEF CacheOK, WellFormed, MappedExact, EmptyMap, Absent, Present
  <1>3. \A i \in Iterator : IteratorOK(i) /\ ~Owns(i)
    BY NoIteratorAssumption DEF IteratorOK, Busy, Owns
  <1>4. RefsExact
    <2> SUFFICES ASSUME NEW x \in Key
                 PROVE  EmptyMap[x].refs = Cardinality(Owners(x)) + Cardinality(SlotsOf(EmptyRing, x))
      BY DEF RefsExact
    <2>1. Owners(x) = {}
      BY <1>3 DEF Owners
    <2> QED BY <2>1, FS_EmptySet, SlotsOfEmptyRing DEF EmptyMap, Absent
  <1> QED BY <1>1, <1>2, <1>3, <1>4 DEF IInv, ClosedOK, OwnedSliceMapped, DataMapped

LEMMA NextIInv == IInv /\ [Next]_vars => IInv'
  <1> SUFFICES ASSUME IInv, [Next]_vars PROVE IInv'
    OBVIOUS
  <1>1. CASE UNCHANGED vars
    <2> USE <1>1 DEF vars, managerVars
    <2>1. TypeOK' /\ CacheOK' /\ MappedExact' /\ ClosedOK'
      BY DEF IInv, TypeOK, CacheOK, MappedExact, ClosedOK
    <2>2. (\A l \in Iterator : IteratorOK(l))'
      BY DEF IInv, IteratorOK
    <2>3. \A l \in Iterator : (Owns(l)' <=> Owns(l)) /\ mapping'[l] = mapping[l]
      BY DEF Owns
    <2>4. RefsExact'
      BY <2>3, SameRefs DEF IInv
    <2>5. OwnedSliceMapped' /\ DataMapped'
      BY <2>3 DEF IInv, OwnedSliceMapped, DataMapped
    <2> QED BY <2>1, <2>2, <2>4, <2>5 DEF IInv
  <1>2. ASSUME NEW i \in Iterator, Begin(i)
        PROVE  IInv'
    <2>1. CASE \E k \in Key : IteratorInit(i, k)
      BY <2>1, StepInit
    <2>2. CASE \E j \in Iterator : IteratorCopy(i, j)
      BY <2>2, StepCopy
    <2>3. CASE IteratorNext(i)
      <3>1. next[i] \in Nat
        BY DEF IInv, TypeOK
      <3> QED BY <2>3, <3>1, StepAdvance DEF IteratorNext
    <2>4. CASE \E q \in 0..MaxSkip : IteratorSkip(i, q)
      <3>1. PICK q \in 0..MaxSkip : IteratorSkip(i, q)
        BY <2>4
      <3>2. next[i] + q - (IF data[i] = NoValue THEN 0 ELSE 1) \in Nat
        BY <3>1, MaxSkipAssumption, BlockCountAssumption
           DEF IteratorSkip, IInv, TypeOK, IteratorOK
      <3> QED BY <3>1, <3>2, StepAdvance DEF IteratorSkip
    <2>5. CASE IteratorCleanup(i)
      BY <2>5, StepCleanup
    <2> QED BY <1>2, <2>1, <2>2, <2>3, <2>4, <2>5 DEF Begin
  <1>3. ASSUME NEW i \in Iterator, Continue(i)
        PROVE  IInv'
    BY <1>3, StepLookup, StepLoad, StepLoadFails, StepPut, StepPutFails, StepTouch,
       StepTouchFails DEF Continue
  <1> QED BY <1>1, <1>2, <1>3, StepManagerCleanup, StepManagerInit DEF Next

-----------------------------------------------------------------------------
(* The theorems *)

\* IInv holds in every reachable state of the map manager.
THEOREM Invariance == Spec => []IInv
  BY InitIInv, NextIInv, PTL DEF Spec

\* Type correctness of the map manager and its iterators.
THEOREM TypeCorrect == Spec => []TypeOK
  <1>1. IInv => TypeOK
    BY DEF IInv
  <1> QED BY <1>1, Invariance, PTL

\* The reference count of every slice is exactly the number of its users, for any
\* number of threads, slices and LRU slots.
THEOREM CountsExact == Spec => []RefsExact
  <1>1. IInv => RefsExact
    BY DEF IInv
  <1> QED BY <1>1, Invariance, PTL

\* No thread uses a slice after it was unmapped.
THEOREM NoUseAfterUnmap == Spec => []SlicesMapped
  <1>1. IInv => SlicesMapped
    BY DEF IInv, SlicesMapped
  <1> QED BY <1>1, Invariance, PTL

\* No mapping is leaked, and none survives the manager.
THEOREM NoLeak == Spec => []NothingLeaked
  <1>1. IInv => NothingLeaked
    <2> SUFFICES ASSUME IInv PROVE NothingLeaked
      OBVIOUS
    <2>1. ASSUME NEW s
          PROVE  s \in mapped <=>
                   s \in {maps[k].value : k \in {x \in Key : Present(maps, x)}}
                          \cup {loaded[i] : i \in {x \in Iterator : pc[x] = "put"}}
      <3>1. CASE s \in Value
        BY <3>1 DEF IInv, MappedExact
      <3>2. CASE s \notin Value
        BY <3>2 DEF IInv, CacheOK, WellFormed, TypeOK
      <3> QED BY <3>1, <3>2
    <2>2. ~open => mapped = {}
      <3>1. ASSUME ~open, NEW s \in mapped PROVE FALSE
        BY <3>1 DEF IInv, TypeOK, ClosedOK, MappedExact, EmptyMap, Absent, Present
      <3> QED BY <3>1
    <2> QED BY <2>1, <2>2 DEF NothingLeaked
  <1> QED BY <1>1, Invariance, PTL

\* The mapped slices are never more than the LRU's slots and the iterators together:
\* each is named by a slot, or by an iterator that owns or loads it.
LEMMA IInvBound == IInv => MappedBound
  <1> SUFFICES ASSUME IInv PROVE MappedBound
    OBVIOUS
  <1> DEFINE Kept(s, n) == lru.slots[n] \in Key /\ maps[lru.slots[n]].value = s
             Used(s, i) == \/ Owns(i) /\ maps[mapping[i].index].value = s
                           \/ pc[i] = "put" /\ loaded[i] = s
             InLru == {s \in mapped : \E n \in Slot : Kept(s, n)}
             InUse == {s \in mapped : \E i \in Iterator : Used(s, i)}
  <1>1. mapped = InLru \cup InUse
    <2> SUFFICES ASSUME NEW s \in mapped
                 PROVE  (\E n \in Slot : Kept(s, n)) \/ (\E i \in Iterator : Used(s, i))
      OBVIOUS
    <2>1. s \in Value
      BY DEF IInv, TypeOK
    <2>2. CASE \E i \in Iterator : pc[i] = "put" /\ loaded[i] = s
      BY <2>2
    <2>3. CASE \E k \in Key : Present(maps, k) /\ maps[k].value = s
      <3>1. PICK k \in Key : Present(maps, k) /\ maps[k].value = s
        BY <2>3
      <3>2. maps[k].refs = Cardinality(Owners(k)) + Cardinality(SlotsOf(lru, k))
        BY DEF IInv, RefsExact
      <3>3. Owners(k) # {} \/ SlotsOf(lru, k) # {}
        BY <3>1, <3>2, FS_EmptySet DEF Present
      <3> QED BY <3>1, <3>3 DEF Owners, SlotsOf
    <2> QED BY <2>1, <2>2, <2>3 DEF IInv, MappedExact
  <1>2. IsFiniteSet(InLru) /\ Cardinality(InLru) <= LruSize
    <2> DEFINE f == [s \in InLru |-> CHOOSE n \in Slot : Kept(s, n)]
    <2>1. \A s \in InLru : f[s] \in Slot /\ Kept(s, f[s])
      OBVIOUS
    <2>2. f \in Injection(InLru, Slot)
      BY <2>1 DEF Injection, IsInjective
    <2>3. IsFiniteSet(Slot) /\ Cardinality(Slot) = LruSize
      BY FS_Interval, LruSizeAssumption DEF Slot
    <2> HIDE DEF f, InLru
    <2> QED BY <2>2, <2>3, FS_Injection
  <1>3. IsFiniteSet(InUse) /\ Cardinality(InUse) <= Cardinality(Iterator)
    <2> DEFINE f == [s \in InUse |-> CHOOSE i \in Iterator : Used(s, i)]
    <2>1. \A s \in InUse : f[s] \in Iterator /\ Used(s, f[s])
      OBVIOUS
    <2> HIDE DEF f
    <2>2. \A s, t \in InUse : f[s] = f[t] => s = t
      <3>1. ASSUME NEW i \in Iterator, NEW s, NEW t, Used(s, i), Used(t, i) PROVE s = t
        BY <3>1 DEF IInv, IteratorOK, Owns
      <3> HIDE DEF Used, InUse
      <3> QED BY <2>1, <3>1
    <2>3. f \in Injection(InUse, Iterator)
      BY <2>1, <2>2 DEF Injection, IsInjective, f
    <2> HIDE DEF InUse
    <2> QED BY <2>3, IteratorAssumption, FS_Injection
  <1> HIDE DEF InLru, InUse
  <1>4. /\ Cardinality(InLru) \in Nat /\ Cardinality(InUse) \in Nat
        /\ Cardinality(InLru \cap InUse) \in Nat /\ Cardinality(Iterator) \in Nat
    <2>1. IsFiniteSet(InLru \cap InUse)
      BY <1>2, FS_Subset
    <2> QED BY <1>2, <1>3, <2>1, IteratorAssumption, FS_CardinalityType
  <1>5. Cardinality(mapped) =
          Cardinality(InLru) + Cardinality(InUse) - Cardinality(InLru \cap InUse)
    BY <1>1, <1>2, <1>3, FS_Union
  <1> QED BY <1>2, <1>3, <1>4, <1>5, LruSizeAssumption DEF MappedBound

\* The cache is bounded, however many slices the archive has.
THEOREM MemoryBounded == Spec => []MappedBound
  BY Invariance, IInvBound, PTL
===============================================================================
