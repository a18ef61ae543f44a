---------------------------- MODULE ExtractManager ----------------------------
(***************************************************************************)
(* libsqsh/src/extract: the extract manager, which caches decompressed     *)
(* blocks under the archive address they start at, and the extract views   *)
(* through which metablock iterators, file iterators and fragment views    *)
(* use it.                                                                 *)
(*                                                                         *)
(* As in the map manager the mutex is held from the lookup to the touch of *)
(* the LRU and dropped while a missing block is decompressed.  Copying a   *)
(* view adds its reference WITHOUT the mutex (extract_manager.c:175-180),  *)
(* a read and a write of the count that other threads can come between.    *)
(***************************************************************************)
EXTENDS Naturals, FiniteSets, RcCache, Extractor

CONSTANTS View,        \* the extract views in use, over all threads
          NoView,      \* the mutex is free
          CopiesRace,  \* views are copied while other threads are inside the manager
          MaxLost      \* bound: references a failing touch leaves behind

ASSUME NoViewAssumption     == NoView \notin View
ASSUME ViewAssumption       == IsFiniteSet(View)
ASSUME CopiesRaceAssumption == CopiesRace \in BOOLEAN
ASSUME MaxLostAssumption    == MaxLost \in Nat

VARIABLES lock,      \* the view whose thread is inside the critical section
          cache,     \* manager->cache: address -> reference count and buffer
          lru,       \* manager->lru
          contexts,  \* how many states of the compression libraries are set up
          allocated, \* the buffers that were initialised and not cleaned up
          pc,        \* how far the call on a view has come
          address,   \* the address a view was or is being initialised for
          buffer,    \* view->buffer
          extracted, \* the local tmp_buffer of sqsh__extract_manager_uncompress
          source,    \* the view a running copy reads from
          seen,      \* the count an unlocked retain has read
          lost       \* references nobody will release (history)

vars == <<lock, cache, lru, contexts, allocated, pc, address, buffer, extracted, source, seen, lost>>

Busy == {"get", "extract", "put", "touch", "retain"}

TypeOK ==
    /\ lock \in View \cup {NoView}
    /\ cache \in Maps
    /\ lru \in Rings
    /\ contexts \in Int
    /\ allocated \subseteq Value
    /\ pc \in [View -> {"dead", "live"} \cup Busy]
    /\ address \in [View -> Key \cup {NoKey}]
    /\ buffer \in [View -> Value \cup {NoValue}]
    /\ extracted \in [View -> Value \cup {NoValue}]
    /\ source \in [View -> View \cup {NoView}]
    /\ seen \in [View -> Nat]
    /\ lost \in [Key -> Nat]

Init ==
    /\ lock = NoView
    /\ cache = EmptyMap
    /\ lru = EmptyRing
    /\ contexts = 0
    /\ allocated = {}
    /\ pc = [v \in View |-> "dead"]
    /\ address = [v \in View |-> NoKey]
    /\ buffer = [v \in View |-> NoValue]
    /\ extracted = [v \in View |-> NoValue]
    /\ source = [v \in View |-> NoView]
    /\ seen = [v \in View |-> 0]
    /\ lost = [k \in Key |-> 0]

Goto(v, phase) == pc' = [pc EXCEPT ![v] = phase]

CacheBecomes(m) ==
    /\ cache' = m
    /\ allocated' = allocated \ Disposed(cache, m)

\* No other call overlaps a copy, unless copies race: the two conditions under which
\* a copy, and another call, may start.
CopyMayStart  == CopiesRace \/ \A v \in View : pc[v] \notin Busy
OtherMayStart == CopiesRace \/ \A v \in View : pc[v] # "retain"

\* A view is used by one thread at a time: it is left alone while it is copied.
Untouched(v) == \A w \in View : pc[w] = "retain" => source[w] # v

\* sqsh__extract_view_init zeroes the view; its manager is set on success only.
Zeroed(v) ==
    /\ address' = [address EXCEPT ![v] = NoKey]
    /\ buffer' = [buffer EXCEPT ![v] = NoValue]
-----------------------------------------------------------------------------
ViewInit(v, k) ==
    /\ pc[v] = "dead" /\ OtherMayStart
    /\ address' = [address EXCEPT ![v] = k]
    /\ Goto(v, "get")
    /\ UNCHANGED <<lock, cache, lru, allocated, buffer, extracted, source, seen, lost>>

\* Mutant of Lookup: the cached buffer is used without a reference of its own.
LookupUncounted(v) ==
    /\ pc[v] = "get" /\ lock = NoView
    /\ IF Present(cache, address[v])
       THEN /\ lock' = v
            /\ buffer' = [buffer EXCEPT ![v] = cache[address[v]].value]
            /\ Goto(v, "touch")
       ELSE /\ Goto(v, "extract")
            /\ UNCHANGED <<lock, buffer>>
    /\ UNCHANGED <<cache, lru, allocated, address, extracted, source, seen, lost>>

Lookup(v) ==
    /\ pc[v] = "get" /\ lock = NoView
    /\ IF Present(cache, address[v])
       THEN /\ lock' = v
            /\ cache' = RcRetain(cache, address[v])
            /\ buffer' = [buffer EXCEPT ![v] = cache[address[v]].value]
            /\ Goto(v, "touch")
       ELSE /\ Goto(v, "extract")
            /\ UNCHANGED <<lock, cache, buffer>>
    /\ UNCHANGED <<lru, allocated, address, extracted, source, seen, lost>>

\* What a decompression can come to.
Streams == [size : {1, 2}, whole : BOOLEAN, sound : BOOLEAN]
Outcomes == UNION {Extracted(codec, stream, 1) : codec \in Codecs, stream \in Streams}

\* extract, outside the mutex; on failure it cleans its buffer up.
Extract(v, b) ==
    /\ pc[v] = "extract"
    /\ \E e \in Outcomes : e.rv = "ok" /\ contexts' = contexts + e.open
    /\ extracted' = [extracted EXCEPT ![v] = b]
    /\ allocated' = allocated \cup {b}
    /\ Goto(v, "put")
    /\ UNCHANGED <<lock, cache, lru, address, buffer, source, seen, lost>>

ExtractFails(v) ==
    /\ pc[v] = "extract"
    /\ \E e \in Outcomes : e.rv = "error" /\ contexts' = contexts + e.open
    /\ Zeroed(v)
    /\ Goto(v, "dead")
    /\ UNCHANGED <<lock, cache, lru, allocated, extracted, source, seen, lost>>

Put(v) ==
    /\ pc[v] = "put" /\ lock = NoView
    /\ lock' = v
    /\ cache' = RcPut(cache, address[v], extracted[v])
    /\ allocated' = IF Present(cache, address[v]) THEN allocated \ {extracted[v]} ELSE allocated
    /\ buffer' = [buffer EXCEPT ![v] = cache'[address[v]].value]
    /\ extracted' = [extracted EXCEPT ![v] = NoValue]
    /\ Goto(v, "touch")
    /\ UNCHANGED <<lru, address, source, seen, lost>>

PutFails(v) ==
    /\ pc[v] = "put" /\ lock = NoView
    /\ allocated' = allocated \ {extracted[v]}
    /\ extracted' = [extracted EXCEPT ![v] = NoValue]
    /\ Zeroed(v)
    /\ Goto(v, "dead")
    /\ UNCHANGED <<lock, cache, lru, source, seen, lost>>

Touch(v) ==
    /\ pc[v] = "touch" /\ lock = v
    /\ CacheBecomes(RcTouch(cache, lru, address[v]))
    /\ lru' = LruTouch(lru, address[v])
    /\ lock' = NoView
    /\ Goto(v, "live")
    /\ UNCHANGED <<address, buffer, extracted, source, seen, lost>>

\* Mutant of TouchFails: returns with the mutex held.
TouchFailsLocked(v) ==
    /\ pc[v] = "touch" /\ lock = v
    /\ lost[address[v]] < MaxLost
    /\ lost' = [lost EXCEPT ![address[v]] = @ + 1]
    /\ Zeroed(v)
    /\ Goto(v, "dead")
    /\ UNCHANGED <<lock, cache, lru, allocated, extracted, source, seen>>

\* The view is zeroed before its manager is set, so its cleanup releases nothing:
\* the reference taken by the lookup or the put stays.
TouchFails(v) ==
    /\ pc[v] = "touch" /\ lock = v
    /\ lost[address[v]] < MaxLost
    /\ lost' = [lost EXCEPT ![address[v]] = @ + 1]
    /\ lock' = NoView
    /\ Zeroed(v)
    /\ Goto(v, "dead")
    /\ UNCHANGED <<cache, lru, allocated, extracted, source, seen>>

\* sqsh__extract_view_copy: the unlocked read of the count ...
CopyRead(v, w) ==
    /\ pc[v] = "dead" /\ CopyMayStart
    /\ pc[w] = "live" /\ Untouched(w)
    /\ source' = [source EXCEPT ![v] = w]
    /\ seen' = [seen EXCEPT ![v] = cache[address[w]].refs]
    /\ Goto(v, "retain")
    /\ UNCHANGED <<lock, cache, lru, allocated, address, buffer, extracted, lost>>

\* ... and the write.  If the count has changed in between, either write can be the
\* one that stays.
CopyWrite(v) ==
    LET k == address[source[v]]
    IN  /\ pc[v] = "retain"
        /\ \E n \in {seen[v] + 1} \cup ({cache[k].refs} \ {seen[v]}) :
              cache' = IF Present(cache, k) THEN [cache EXCEPT ![k].refs = n] ELSE cache
        /\ address' = [address EXCEPT ![v] = k]
        /\ buffer' = [buffer EXCEPT ![v] = buffer[source[v]]]
        /\ source' = [source EXCEPT ![v] = NoView]
        /\ seen' = [seen EXCEPT ![v] = 0]
        /\ Goto(v, "live")
        /\ UNCHANGED <<lock, lru, allocated, extracted, lost>>

\* sqsh__extract_manager_release, under the mutex.
Release(v) ==
    /\ lock = NoView
    /\ CacheBecomes(RcRelease(cache, address[v]))

\* Mutant of ViewCleanup: the reference is not given back.
ViewCleanupKeepsReference(v) ==
    /\ pc[v] = "live" /\ lock = NoView /\ Untouched(v) /\ OtherMayStart
    /\ Zeroed(v)
    /\ Goto(v, "dead")
    /\ UNCHANGED <<lock, cache, lru, allocated, extracted, source, seen, lost>>

ViewCleanup(v) ==
    /\ pc[v] = "live" /\ Untouched(v) /\ OtherMayStart
    /\ Release(v)
    /\ Zeroed(v)
    /\ Goto(v, "dead")
    /\ UNCHANGED <<lock, lru, extracted, source, seen, lost>>

\* sqsh__extract_manager_cleanup, followed by the init of the next archive.
ManagerCleanup ==
    /\ \A v \in View : pc[v] = "dead"
    /\ CacheBecomes(EmptyMap)
    /\ lru' = EmptyRing
    /\ lost' = [k \in Key |-> 0]
    /\ UNCHANGED <<lock, pc, address, buffer, extracted, source, seen>>

Begin(v) ==
    \/ \E k \in Key : ViewInit(v, k)
    \/ \E w \in View : CopyRead(v, w)
    \/ ViewCleanup(v)

Decompress(v) == (\E b \in Value \ allocated : Extract(v, b)) \/ ExtractFails(v)

Continue(v) ==
    \/ Decompress(v)
    \/ /\ \/ Lookup(v)
          \/ Put(v)
          \/ PutFails(v)
          \/ Touch(v)
          \/ TouchFails(v)
          \/ CopyWrite(v)
       /\ UNCHANGED contexts

Next ==
    \/ \E v \in View : (Begin(v) /\ UNCHANGED contexts) \/ Continue(v)
    \/ ManagerCleanup /\ UNCHANGED contexts

Fairness == \A v \in View : WF_vars(Continue(v))

Spec == Init /\ [][Next]_vars /\ Fairness
-----------------------------------------------------------------------------
(* Properties *)

\* A view that holds a reference, the ones lost to a failing touch aside.
Holds(v, k) == pc[v] \in {"live", "touch"} /\ address[v] = k

Holders(k) == {v \in View : Holds(v, k)}

\* Every reference of a cached block has a view, an LRU slot or a failed touch
\* behind it.  Holds as long as no view is copied while another thread is inside
\* the manager.
RefsExact ==
    \A k \in Key : cache[k].refs =
        Cardinality(Holders(k)) + Cardinality(SlotsOf(lru, k)) + lost[k]

\* No use after free: the buffer of a live view is the cached one for its address
\* and has not been cleaned up.
ViewBufferAlive ==
    \A v \in View : pc[v] = "live" =>
        /\ Present(cache, address[v])
        /\ cache[address[v]].value = buffer[v]
        /\ buffer[v] \in allocated

\* What is allocated is cached or just being put: of two threads that decompress the
\* same block, one gives its buffer back (extract_manager.c:143-166).  No state of a compression
\* library stays set up after a decompression, or is taken down twice, however it ended
\* (extractor.c:114-150).
NothingLeaked ==
    /\ contexts = 0
    /\ allocated = {cache[k].value : k \in {x \in Key : Present(cache, x)}}
                   \cup {extracted[v] : v \in {x \in View : pc[x] = "put"}}

\* Two threads that read one address get one buffer.
OneBufferPerAddress ==
    \A v, w \in View :
        pc[v] = "live" /\ pc[w] = "live" =>
            (address[v] = address[w] <=> buffer[v] = buffer[w])

\* Once no thread starts a new call, every running call returns.
CallsReturn ==
    (<>[][~ \E v \in View : Begin(v)]_vars)
        => <>[](\A v \in View : pc[v] \notin Busy)
=============================================================================
