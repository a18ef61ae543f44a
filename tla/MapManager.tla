----------------------------- MODULE MapManager -----------------------------
(***************************************************************************)
(* libsqsh/src/mapper: the map manager, which caches the mapped slices of  *)
(* the archive, and the map iterators that are its only clients.           *)
(*                                                                         *)
(* Any number of threads use the manager, each through iterators of its    *)
(* own: an iterator is used by one thread at a time, so the variable pc    *)
(* gives for each iterator how far the call running on it has come.  The   *)
(* manager's mutex is held from the lookup of a cached slice to the touch  *)
(* of the LRU and dropped while a missing slice is being mapped; a         *)
(* critical section without such a gap is one step.                        *)
(*                                                                         *)
(* pthread_mutex_lock does not fail on an initialised default mutex: the   *)
(* branches for a failing lock are left out.                               *)
(***************************************************************************)
EXTENDS Naturals, FiniteSets, RcCache

CONSTANTS Iterator,    \* the map iterators in use, over all threads
          NoIterator,  \* the mutex is free
          BlockCount,  \* number of slices the archive is cut into
          MaxSkip      \* bound: blocks a single skip moves over

ASSUME NoIteratorAssumption == NoIterator \notin Iterator
ASSUME BlockCountAssumption == BlockCount \in Nat \ {0}
ASSUME MaxSkipAssumption    == MaxSkip \in Nat
ASSUME KeyAssumption        == Key = 0..(BlockCount - 1)
ASSUME IteratorAssumption   == IsFiniteSet(Iterator)

VARIABLES open,     \* the archive, and with it the manager, is initialised
          lock,     \* the iterator whose thread is inside the critical section
          maps,     \* manager->maps: slice index -> reference count and slice
          lru,      \* manager->lru
          mapped,   \* the slices for which map() was called and unmap() was not
          pc,       \* how far the call on an iterator has come
          mapping,  \* iterator->mapping, the slice pointer with its index
          data,     \* iterator->data: the slice it points into
          next,     \* iterator->next_index
          loaded    \* the local variable "mapping" of sqsh__map_manager_get

managerVars == <<open, lock, maps, lru, mapped>>
vars == <<open, lock, maps, lru, mapped, pc, mapping, data, next, loaded>>

NoMapping == [index |-> NoKey, slice |-> NoValue]

\* An iterator is "dead" before init and after cleanup, "idle" between two calls
\* and "failed" after a call that returned an error.
Busy == {"get", "load", "put", "touch"}
Phase == {"dead", "idle", "failed"} \cup Busy

TypeOK ==
    /\ open \in BOOLEAN
    /\ lock \in Iterator \cup {NoIterator}
    /\ maps \in Maps
    /\ lru \in Rings
    /\ mapped \subseteq Value
    /\ pc \in [Iterator -> Phase]
    /\ mapping \in [Iterator -> [index : Key \cup {NoKey},
                                 slice : Value \cup {NoValue}]]
    /\ data \in [Iterator -> Value \cup {NoValue}]
    /\ next \in [Iterator -> Nat]
    /\ loaded \in [Iterator -> Value \cup {NoValue}]

Init ==
    /\ open = TRUE
    /\ lock = NoIterator
    /\ maps = EmptyMap
    /\ lru = EmptyRing
    /\ mapped = {}
    /\ pc = [i \in Iterator |-> "dead"]
    /\ mapping = [i \in Iterator |-> NoMapping]
    /\ data = [i \in Iterator |-> NoValue]
    /\ next = [i \in Iterator |-> 0]
    /\ loaded = [i \in Iterator |-> NoValue]

Goto(i, phase) == pc' = [pc EXCEPT ![i] = phase]

\* The map changes and unmaps what its cleanup callback runs on.
MapsBecome(m) ==
    /\ maps' = m
    /\ mapped' = mapped \ Disposed(maps, m)

\* Mutants of Retained and Released: the reference count is left alone.
NotCounted(m) == maps

\* sqsh__map_manager_retain and _release of a mapping; NULL is ignored.
Retained(m) == IF m = NoMapping THEN maps ELSE RcRetain(maps, m.index)
Released(m) == IF m = NoMapping THEN maps ELSE RcRelease(maps, m.index)
-----------------------------------------------------------------------------
(* Iterators *)

\* Mutant of IteratorInit: the data of the iterator's previous life is kept.
IteratorInitKeepsData(i, k) ==
    /\ open /\ pc[i] = "dead"
    /\ Goto(i, "idle")
    /\ mapping' = [mapping EXCEPT ![i] = NoMapping]
    /\ next' = [next EXCEPT ![i] = k]
    /\ UNCHANGED <<managerVars, data, loaded>>

IteratorInit(i, k) ==
    /\ open /\ pc[i] = "dead"
    /\ Goto(i, "idle")
    /\ mapping' = [mapping EXCEPT ![i] = NoMapping]
    /\ data' = [data EXCEPT ![i] = NoValue]
    /\ next' = [next EXCEPT ![i] = k]
    /\ UNCHANGED <<managerVars, loaded>>

\* The thread that copies j into i uses both, so no call is running on j.
IteratorCopy(i, j) ==
    /\ pc[i] = "dead" /\ pc[j] = "idle" /\ lock = NoIterator
    /\ Goto(i, "idle")
    /\ mapping' = [mapping EXCEPT ![i] = mapping[j]]
    /\ MapsBecome(Retained(mapping[j]))
    /\ data' = [data EXCEPT ![i] = IF data[j] = NoValue THEN NoValue
                                   ELSE mapping[j].slice]
    /\ next' = [next EXCEPT ![i] = next[j]]
    /\ UNCHANGED <<open, lock, lru, loaded>>

IteratorCleanup(i) ==
    /\ pc[i] \in {"idle", "failed"} /\ lock = NoIterator
    /\ Goto(i, "dead")
    /\ MapsBecome(Released(mapping[i]))
    /\ mapping' = [mapping EXCEPT ![i] = NoMapping]
    /\ UNCHANGED <<open, lock, lru, data, next, loaded>>

\* sqsh__map_iterator_next with next_index = n: past the end the mapping is kept,
\* otherwise it is released before the next one is asked for.
Advance(i, n, endPhase) ==
    /\ next' = [next EXCEPT ![i] = n]
    /\ IF n >= BlockCount
       THEN /\ data' = [data EXCEPT ![i] = NoValue]
            /\ Goto(i, endPhase)
            /\ UNCHANGED <<managerVars, mapping, loaded>>
       ELSE /\ lock = NoIterator
            /\ MapsBecome(Released(mapping[i]))
            /\ Goto(i, "get")
            /\ UNCHANGED <<open, lock, lru, mapping, data, loaded>>

IteratorNext(i) == pc[i] = "idle" /\ Advance(i, next[i], "idle")

\* sqsh__map_iterator_skip over q blocks.  The mapped block counts as one of them;
\* a skip inside it is an early return, unless it is the last, shorter one.
IteratorSkip(i, q) ==
    /\ pc[i] = "idle"
    /\ q > 0 \/ data[i] = NoValue \/ next[i] = BlockCount
    /\ Advance(i, next[i] + q - (IF data[i] = NoValue THEN 0 ELSE 1), "failed")

-----------------------------------------------------------------------------
(* sqsh__map_manager_get, on behalf of iterator i *)

GetLookup(i) ==
    /\ pc[i] = "get" /\ lock = NoIterator
    /\ IF Present(maps, next[i])
       THEN /\ lock' = i
            /\ maps' = RcRetain(maps, next[i])
            /\ mapping' = [mapping EXCEPT ![i] =
                              [index |-> next[i], slice |-> maps[next[i]].value]]
            /\ Goto(i, "touch")
       ELSE /\ mapping' = [mapping EXCEPT ![i] = NoMapping]
            /\ Goto(i, "load")
            /\ UNCHANGED <<lock, maps>>
    /\ UNCHANGED <<open, lru, mapped, data, next, loaded>>

\* load_mapping, outside the mutex.
GetLoad(i, s) ==
    /\ pc[i] = "load"
    /\ loaded' = [loaded EXCEPT ![i] = s]
    /\ mapped' = mapped \cup {s}
    /\ Goto(i, "put")
    /\ UNCHANGED <<open, lock, maps, lru, mapping, data, next>>

GetLoadFails(i) ==
    /\ pc[i] = "load"
    /\ Goto(i, "failed")
    /\ UNCHANGED <<managerVars, mapping, data, next, loaded>>

\* Mutant of GetPut: the slice that came second stays mapped.
GetPutForgetsSecond(i) ==
    /\ pc[i] = "put" /\ lock = NoIterator
    /\ lock' = i
    /\ maps' = RcPut(maps, next[i], loaded[i])
    /\ mapping' = [mapping EXCEPT ![i] =
                      [index |-> next[i], slice |-> maps'[next[i]].value]]
    /\ loaded' = [loaded EXCEPT ![i] = NoValue]
    /\ Goto(i, "touch")
    /\ UNCHANGED <<open, lru, mapped, data, next>>

\* Another thread may have put a slice for the same index in the meantime: then
\* that one is returned and the one just loaded is unmapped.
GetPut(i) ==
    /\ pc[i] = "put" /\ lock = NoIterator
    /\ lock' = i
    /\ maps' = RcPut(maps, next[i], loaded[i])
    /\ mapped' = IF Present(maps, next[i]) THEN mapped \ {loaded[i]} ELSE mapped
    /\ mapping' = [mapping EXCEPT ![i] =
                      [index |-> next[i], slice |-> maps'[next[i]].value]]
    /\ loaded' = [loaded EXCEPT ![i] = NoValue]
    /\ Goto(i, "touch")
    /\ UNCHANGED <<open, lru, data, next>>

\* Mutant of GetPutFails: the slice just loaded is forgotten.
GetPutFailsForgets(i) ==
    /\ pc[i] = "put" /\ lock = NoIterator
    /\ loaded' = [loaded EXCEPT ![i] = NoValue]
    /\ Goto(i, "failed")
    /\ UNCHANGED <<open, lock, maps, lru, mapped, mapping, data, next>>

GetPutFails(i) ==
    /\ pc[i] = "put" /\ lock = NoIterator
    /\ mapped' = mapped \ {loaded[i]}
    /\ loaded' = [loaded EXCEPT ![i] = NoValue]
    /\ Goto(i, "failed")
    /\ UNCHANGED <<open, lock, maps, lru, mapping, data, next>>

\* cx_lru_touch, unlock, and the rest of sqsh__map_iterator_next.
GetTouch(i) ==
    /\ pc[i] = "touch" /\ lock = i
    /\ MapsBecome(RcTouch(maps, lru, next[i]))
    /\ lru' = LruTouch(lru, next[i])
    /\ lock' = NoIterator
    /\ data' = [data EXCEPT ![i] = mapping[i].slice]
    /\ next' = [next EXCEPT ![i] = @ + 1]
    /\ Goto(i, "idle")
    /\ UNCHANGED <<open, mapping, loaded>>

\* Mutant of GetTouchFails: returns with the mutex held.
GetTouchFailsLocked(i) ==
    /\ pc[i] = "touch" /\ lock = i
    /\ Goto(i, "failed")
    /\ UNCHANGED <<open, lock, maps, lru, mapped, mapping, data, next, loaded>>

GetTouchFails(i) ==
    /\ pc[i] = "touch" /\ lock = i
    /\ lock' = NoIterator
    /\ Goto(i, "failed")
    /\ UNCHANGED <<open, maps, lru, mapped, mapping, data, next, loaded>>

-----------------------------------------------------------------------------
(* The manager itself: set up and torn down with its archive *)

\* cx_rc_hash_map_cleanup after the LRU's has nothing left to unmap (StepManagerCleanup
\* in MapManager_proofs).
ManagerCleanup ==
    /\ open /\ \A i \in Iterator : pc[i] = "dead"
    /\ open' = FALSE
    /\ MapsBecome(LruDrained(maps, lru))
    /\ lru' = EmptyRing
    /\ UNCHANGED <<lock, pc, mapping, data, next, loaded>>

ManagerInit ==
    /\ ~open
    /\ open' = TRUE
    /\ maps' = EmptyMap
    /\ lru' = EmptyRing
    /\ UNCHANGED <<lock, mapped, pc, mapping, data, next, loaded>>

\* A new call on an iterator, as opposed to a step of one that is running.
Begin(i) ==
    \/ \E k \in Key : IteratorInit(i, k)
    \/ \E j \in Iterator : IteratorCopy(i, j)
    \/ IteratorNext(i)
    \/ \E q \in 0..MaxSkip : IteratorSkip(i, q)
    \/ IteratorCleanup(i)

Continue(i) ==
    \/ GetLookup(i)
    \/ \E s \in Value \ mapped : GetLoad(i, s)
    \/ GetLoadFails(i)
    \/ GetPut(i)
    \/ GetPutFails(i)
    \/ GetTouch(i)
    \/ GetTouchFails(i)

Next ==
    \/ \E i \in Iterator : Begin(i) \/ Continue(i)
    \/ ManagerCleanup
    \/ ManagerInit

\* A thread that is inside a call is scheduled until the call returns; nobody has
\* to start a new call.
Fairness == \A i \in Iterator : WF_vars(Continue(i))

Spec == Init /\ [][Next]_vars /\ Fairness
-----------------------------------------------------------------------------
(* Properties *)

\* From the release in sqsh__map_iterator_next until the lookup overwrites it,
\* iterator->mapping is a pointer the iterator has no reference for.
Owns(i) == mapping[i] # NoMapping /\ pc[i] # "get"

Owners(k) == {i \in Iterator : Owns(i) /\ mapping[i].index = k}

\* Every reference of a cached slice is accounted for: one per iterator that
\* points to it and one per LRU slot that names it.  A reference too few unmaps
\* a slice in use, one too many leaks it (map_manager.c:134-212, all threads).
RefsExact ==
    \A k \in Key : maps[k].refs = Cardinality(Owners(k)) + Cardinality(SlotsOf(lru, k))

\* No use after unmap: the slice an iterator owns is the cached one for its index
\* and is still mapped, whatever other threads load, release or evict.
OwnedSliceMapped ==
    \A i \in Iterator :
        Owns(i) => /\ Present(maps, mapping[i].index)
                   /\ maps[mapping[i].index].value = mapping[i].slice
                   /\ mapping[i].slice \in mapped

\* What sqsh__map_iterator_data returns between two successful calls points into
\* a slice that is mapped (map_iterator.c:72-93, 141-173).
DataMapped ==
    \A i \in Iterator :
        pc[i] = "idle" /\ data[i] # NoValue => Owns(i) /\ data[i] = mapping[i].slice

\* What an iterator points to, and what it gave its caller, is mapped (both of the above).
SlicesMapped == OwnedSliceMapped /\ DataMapped

\* No mapping is lost: what is mapped is cached or just being loaded, and after
\* sqsh__map_manager_cleanup nothing is.  Two threads that miss on one index both
\* load it; the one that comes second must unmap its copy (map_manager.c:148-168).
NothingLeaked ==
    /\ mapped = {maps[k].value : k \in {x \in Key : Present(maps, x)}}
                \cup {loaded[i] : i \in {x \in Iterator : pc[x] = "put"}}
    /\ ~open => mapped = {}

\* The memory the cache can hold: the LRU's slices and one per iterator, the
\* slice it owns or the slice it is loading.
MappedBound == Cardinality(mapped) <= LruSize + Cardinality(Iterator)

\* Once no thread starts a new call, every call that is running returns: the
\* error paths leave the mutex free, and nobody waits for ever.
CallsReturn ==
    (<>[][~ \E i \in Iterator : Begin(i)]_vars)
        => <>[](\A i \in Iterator : pc[i] \notin Busy)

-----------------------------------------------------------------------------
(* The inductive strengthening used by the proofs *)

\* A key has a value exactly when it has references; no slice is stored or being
\* loaded twice.
CacheOK ==
    /\ WellFormed(maps)
    /\ \A k, l \in Key :
          Present(maps, k) /\ Present(maps, l) /\ maps[k].value = maps[l].value => k = l
    /\ \A i \in Iterator : pc[i] = "put" =>
          /\ loaded[i] \in Value
          /\ \A k \in Key : Present(maps, k) => maps[k].value # loaded[i]
          /\ \A j \in Iterator : pc[j] = "put" /\ loaded[j] = loaded[i] => j = i

\* NothingLeaked, membership by membership.
MappedExact ==
    \A s \in Value : s \in mapped <=>
        \/ \E k \in Key : Present(maps, k) /\ maps[k].value = s
        \/ \E i \in Iterator : pc[i] = "put" /\ loaded[i] = s

IteratorOK(i) ==
    /\ mapping[i] # NoMapping => mapping[i].index \in Key /\ mapping[i].slice \in Value
    /\ pc[i] \in {"dead", "load", "put"} => mapping[i] = NoMapping
    /\ pc[i] \in Busy => next[i] \in Key
    /\ pc[i] = "touch" <=> lock = i
    /\ pc[i] = "touch" => mapping[i] # NoMapping /\ mapping[i].index = next[i]
    /\ pc[i] = "idle" /\ data[i] # NoValue => next[i] > 0

ClosedOK ==
    ~open => /\ \A i \in Iterator : pc[i] = "dead"
             /\ maps = EmptyMap
             /\ lru = EmptyRing

IInv ==
    /\ TypeOK
    /\ CacheOK
    /\ MappedExact
    /\ \A i \in Iterator : IteratorOK(i)
    /\ ClosedOK
    /\ RefsExact
    /\ OwnedSliceMapped
    /\ DataMapped
=============================================================================
