------------------------- MODULE ExtractManager_proofs -------------------------
(***************************************************************************)
(* The reference counting of the extract manager is right for every number *)
(* of views, buffers and LRU slots, as long as no view is copied while     *)
(* another thread is inside the manager: IInv is an inductive invariant of *)
(* ExtractManager!Spec when CopiesRace is false.                           *)
(***************************************************************************)
EXTENDS ExtractManager, RcCache_proofs

\* A view that holds a reference.
Owns(v) == pc[v] \in {"live", "touch"}

\* A key has a value exactly when it has references; no buffer is stored or being put twice.
CacheOK ==
    /\ WellFormed(cache)
    /\ \A k, l \in Key :
          Present(cache, k) /\ Present(cache, l) /\ cache[k].value = cache[l].value => k = l
    /\ \A v \in View : pc[v] = "put" =>
          /\ extracted[v] \in Value
          /\ \A k \in Key : Present(cache, k) => cache[k].value # extracted[v]
          /\ \A w \in View : pc[w] = "put" /\ extracted[w] = extracted[v] => w = v

\* What is allocated is cached or just being put, membership by membership.
AllocatedExact ==
    \A b \in Value : b \in allocated <=>
        \/ \E k \in Key : Present(cache, k) /\ cache[k].value = b
        \/ \E v \in View : pc[v] = "put" /\ extracted[v] = b

ViewOK(v) ==
    /\ pc[v] \notin {"dead", "retain"} => address[v] \in Key
    /\ pc[v] = "touch" <=> lock = v

\* A view that is copied stays as it is, and so does the count that was read.
CopyOK(v) ==
    pc[v] = "retain" =>
        /\ source[v] \in View /\ pc[source[v]] = "live"
        /\ seen[v] = cache[address[source[v]]].refs
        /\ \A w \in View \ {v} : pc[w] \in {"dead", "live"}

\* A view that holds a reference has the buffer that is cached.
BufferOK ==
    \A v \in View : Owns(v) =>
        Present(cache, address[v]) /\ cache[address[v]].value = buffer[v]

IInv ==
    /\ TypeOK /\ contexts = 0
    /\ CacheOK /\ AllocatedExact /\ RefsExact /\ BufferOK
    /\ \A v \in View : ViewOK(v) /\ CopyOK(v)

-----------------------------------------------------------------------------
(* A decompression *)

Extractors ==
    [rv : {"ok", "error"}, impl : BOOLEAN, open : Int, size : Int, ended : BOOLEAN]

\* The library's state is set up exactly as long as there is an implementation to finish.
Balanced(e) == e \in Extractors /\ e.open = IF e.impl THEN 1 ELSE 0

LEMMA SetRv ==
    ASSUME NEW e \in Extractors, NEW rv \in {"ok", "error"}
    PROVE  LET f == [e EXCEPT !.rv = rv]
           IN  f \in Extractors /\ f.impl = e.impl /\ f.open = e.open /\ f.rv = rv
  BY DEF Extractors

LEMMA SetSize ==
    ASSUME NEW e \in Extractors, NEW n \in Int
    PROVE  LET f == [e EXCEPT !.size = n]
           IN  f \in Extractors /\ f.impl = e.impl /\ f.open = e.open
  BY DEF Extractors

LEMMA SetEnded ==
    ASSUME NEW e \in Extractors, NEW n \in Int, NEW b \in BOOLEAN
    PROVE  LET f == [e EXCEPT !.size = n, !.ended = b]
           IN  f \in Extractors /\ f.impl = e.impl /\ f.open = e.open
  BY DEF Extractors

LEMMA SetImpl ==
    ASSUME NEW e \in Extractors, NEW b \in BOOLEAN
    PROVE  LET f == [e EXCEPT !.impl = b]
           IN  f \in Extractors /\ f.impl = b /\ f.open = e.open /\ f.rv = e.rv
  BY DEF Extractors

LEMMA SetOpen ==
    ASSUME NEW e \in Extractors, NEW n \in Int, NEW rv \in {"ok", "error"}
    PROVE  LET f == [e EXCEPT !.open = n, !.rv = rv]
           IN  f \in Extractors /\ f.impl = e.impl /\ f.open = n
  BY DEF Extractors

LEMMA InitBalanced ==
    ASSUME NEW codec, NEW e \in ExtractorInit(codec)
    PROVE  Balanced(e) /\ (codec = "none" => ~e.impl)
  <1>1. NoExtractor \in Extractors /\ NoExtractor.open = 0 /\ ~NoExtractor.impl /\ NoExtractor.rv = "error"
    BY DEF NoExtractor, Extractors
  <1>2. CASE e = NoExtractor
    BY <1>1, <1>2 DEF Balanced
  <1>3. ASSUME NEW i \in ImplInit(NoExtractor), e = [i EXCEPT !.impl = (i.rv = "ok")]
        PROVE  Balanced(e)
    <2>1. i \in Extractors /\ i.open = IF i.rv = "ok" THEN 1 ELSE 0
      <3>1. CASE i = NoExtractor
        BY <1>1, <3>1
      <3>2. CASE i = [NoExtractor EXCEPT !.rv = "ok", !.open = 1]
        <4>1. i = [rv |-> "ok", impl |-> FALSE, open |-> 1, size |-> 0, ended |-> FALSE]
          BY <3>2 DEF NoExtractor
        <4> QED BY <4>1 DEF Extractors
      <3> QED BY <1>3, <3>1, <3>2 DEF ImplInit
    <2>2. (i.rv = "ok") \in BOOLEAN
      OBVIOUS
    <2>3. e \in Extractors /\ e.impl = (i.rv = "ok") /\ e.open = i.open
      BY <1>3, <2>1, <2>2, SetImpl
    <2> QED BY <2>1, <2>3 DEF Balanced
  <1>4. codec = "none" => ~e.impl
    BY <1>1 DEF ExtractorInit
  <1> QED BY <1>2, <1>3, <1>4 DEF ExtractorInit

LEMMA WriteBalanced ==
    ASSUME NEW codec \in Codecs, NEW stream \in Streams, NEW e, Balanced(e), codec = "none" => ~e.impl,
           NEW f \in ExtractorWrite(e, codec, stream, 1)
    PROVE  Balanced(f)
  <1> DEFINE n == IF stream.size > 1 THEN 1 ELSE stream.size
             b == stream.whole /\ stream.size <= 1
             failed == [e EXCEPT !.rv = "error"]
             sized == [e EXCEPT !.size = n]
             exact == [e EXCEPT !.size = stream.size]
             ended == [e EXCEPT !.size = n, !.ended = b]
  <1>1. stream.size \in Int /\ n \in Int /\ b \in BOOLEAN /\ e \in Extractors
    BY DEF Streams, Balanced
  <1>2. /\ InflateWrite(e, stream, 1) \subseteq {failed, ended}
        /\ Lz4Write(e, stream, 1) \subseteq {failed, exact}
        /\ ZstdWrite(e, stream, 1) \subseteq {failed, sized}
    BY DEF InflateWrite, Lz4Write, ZstdWrite
  <1> HIDE DEF n, b
  <1>3. Balanced(failed) /\ Balanced(ended) /\ Balanced(exact) /\ Balanced(sized)
    <2>1. failed \in Extractors /\ failed.impl = e.impl /\ failed.open = e.open
      BY <1>1, SetRv
    <2>2. ended \in Extractors /\ ended.impl = e.impl /\ ended.open = e.open
      BY <1>1, SetEnded
    <2>3. exact \in Extractors /\ exact.impl = e.impl /\ exact.open = e.open
      BY <1>1, SetSize
    <2>4. sized \in Extractors /\ sized.impl = e.impl /\ sized.open = e.open
      BY <1>1, SetSize
    <2> HIDE DEF failed, ended, exact, sized
    <2> QED BY <2>1, <2>2, <2>3, <2>4 DEF Balanced
  <1>4. ASSUME NEW g \in InflateWrite(e, stream, 1) \cup Lz4Write(e, stream, 1) \cup ZstdWrite(e, stream, 1)
        PROVE  Balanced(g)
    BY <1>2, <1>3
  <1>5. CASE ~e.impl
    <2>1. ExtractorWrite(e, codec, stream, 1) = {failed}
      BY <1>5 DEF ExtractorWrite
    <2> QED BY <1>3, <2>1
  <1>6. CASE e.impl
    <2>1. codec \in {"zlib", "lzma", "lz4", "zstd"}
      BY <1>6, CodecsAssumption
    <2>2. codec = "zlib" => ExtractorWrite(e, codec, stream, 1) = InflateWrite(e, stream, 1)
      BY <1>6 DEF ExtractorWrite
    <2>3. codec = "lzma" => ExtractorWrite(e, codec, stream, 1) = InflateWrite(e, stream, 1)
      BY <1>6 DEF ExtractorWrite, LzmaWrite
    <2>4. codec = "lz4" => ExtractorWrite(e, codec, stream, 1) = Lz4Write(e, stream, 1)
      BY <1>6 DEF ExtractorWrite
    <2>5. codec = "zstd" => ExtractorWrite(e, codec, stream, 1) = ZstdWrite(e, stream, 1)
      BY <1>6 DEF ExtractorWrite
    <2>6. f \in InflateWrite(e, stream, 1) \cup Lz4Write(e, stream, 1) \cup ZstdWrite(e, stream, 1)
      BY <2>1, <2>2, <2>3, <2>4, <2>5
    <2> QED BY <1>4, <2>6
  <1> QED BY <1>5, <1>6

\* Finishing takes the state down, and nothing is left for the clean-up then.
LEMMA FinishCloses ==
    ASSUME NEW codec, NEW e, Balanced(e), e.impl
    PROVE  LET f == ImplFinish([e EXCEPT !.impl = FALSE], codec)
           IN  f \in Extractors /\ f.open = 0 /\ ~f.impl
  <1> DEFINE g == [e EXCEPT !.impl = FALSE]
  <1>1. g \in Extractors /\ ~g.impl /\ g.open = 1
    BY SetImpl DEF Balanced
  <1> HIDE DEF g
  <1> DEFINE n == g.open - 1
  <1>2. n = 0
    BY <1>1
  <1> HIDE DEF n
  <1>3. /\ InflateFinish(g) = [g EXCEPT !.open = n, !.rv = IF g.ended THEN "ok" ELSE "error"]
        /\ StreamFinish(g) = [g EXCEPT !.open = n, !.rv = "ok"]
    BY DEF InflateFinish, StreamFinish, n
  <1>3a. /\ InflateFinish(g) \in Extractors /\ InflateFinish(g).open = 0 /\ ~InflateFinish(g).impl
        /\ StreamFinish(g) \in Extractors /\ StreamFinish(g).open = 0 /\ ~StreamFinish(g).impl
    <2> DEFINE rv == IF g.ended THEN "ok" ELSE "error"
               inflated == [g EXCEPT !.open = n, !.rv = rv]
               streamed == [g EXCEPT !.open = n, !.rv = "ok"]
    <2>1. n \in Int /\ rv \in {"ok", "error"}
      BY <1>2
    <2> HIDE DEF rv
    <2>2. inflated \in Extractors /\ inflated.impl = g.impl /\ inflated.open = n
      BY <1>1, <2>1, SetOpen
    <2>3. streamed \in Extractors /\ streamed.impl = g.impl /\ streamed.open = n
      BY <1>1, <2>1, SetOpen
    <2>4. InflateFinish(g) = inflated /\ StreamFinish(g) = streamed
      BY <1>3 DEF rv
    <2> HIDE DEF inflated, streamed
    <2> QED BY <1>1, <1>2, <2>2, <2>3, <2>4
  <1>4. LET f == LzmaFinish(g) IN f \in Extractors /\ f.open = 0 /\ ~f.impl
    <2>1. (IF g.ended THEN InflateFinish(g).size ELSE 0) \in Int
      BY <1>3a DEF Extractors
    <2> QED BY <1>3a, <2>1, SetSize DEF LzmaFinish
  <1>5. LET f == ImplFinish(g, codec) IN f \in Extractors /\ f.open = 0 /\ ~f.impl
    BY <1>3a, <1>4 DEF ImplFinish
  <1> QED BY <1>5 DEF g

\* However a decompression ends, no state of a library stays set up.
LEMMA OutcomesClosed ==
    ASSUME NEW o \in Outcomes
    PROVE  o.open = 0
  <1>1. PICK codec \in Codecs, stream \in Streams : o \in Extracted(codec, stream, 1)
    BY DEF Outcomes
  <1> DEFINE inits == ExtractorInit(codec)
             writes == UNION {IF e.rv = "ok" THEN ExtractorWrite(e, codec, stream, 1) ELSE {e} : e \in inits}
             finishes == {IF e.rv = "ok" THEN ExtractorFinish(e, codec) ELSE e : e \in writes}
  <1>2. \A e \in writes : Balanced(e)
    BY InitBalanced, WriteBalanced
  <1> HIDE DEF inits, writes
  <1>3. \A e \in finishes : Balanced(e)
    <2> SUFFICES ASSUME NEW e \in writes, e.rv = "ok" PROVE Balanced(ExtractorFinish(e, codec))
      BY <1>2
    <2>1. CASE e.impl
      BY <1>2, <2>1, FinishCloses DEF ExtractorFinish, Balanced
    <2>2. CASE ~e.impl
      BY <1>2, <2>2, SetRv DEF ExtractorFinish, Balanced
    <2> QED BY <2>1, <2>2
  <1>4. PICK e \in finishes : o = ExtractorCleanup(e, codec)
    BY <1>1 DEF Extracted, inits, writes
  <1>5. Balanced(e)
    BY <1>3, <1>4
  <1> HIDE DEF finishes
  <1>6. CASE e.impl
    <2> DEFINE f == ImplFinish([e EXCEPT !.impl = FALSE], codec)
    <2>1. f \in Extractors /\ f.open = 0
      BY <1>5, <1>6, FinishCloses
    <2>2. e.rv \in {"ok", "error"}
      BY <1>5 DEF Balanced, Extractors
    <2>3. o = [f EXCEPT !.rv = e.rv]
      BY <1>4, <1>6 DEF ExtractorCleanup
    <2> HIDE DEF f
    <2> QED BY <2>1, <2>2, <2>3, SetRv
  <1>7. CASE ~e.impl
    BY <1>4, <1>5, <1>7 DEF ExtractorCleanup, Balanced
  <1> QED BY <1>6, <1>7

-----------------------------------------------------------------------------
(* Counting references *)

LEMMA ViewsFinite ==
    ASSUME NEW S \in SUBSET View
    PROVE  /\ IsFiniteSet(S)
           /\ Cardinality(S) \in Nat
           /\ \A v \in S : Cardinality(S) > 0
  <1>1. IsFiniteSet(S) /\ Cardinality(S) \in Nat
    BY ViewAssumption, FS_Subset, FS_CardinalityType
  <1> QED BY <1>1, CardRemove

\* The summands of RefsExact are numbers.
LEMMA CountsTyped ==
    ASSUME TypeOK, NEW k \in Key
    PROVE  /\ Holders(k) \in SUBSET View
           /\ Cardinality(Holders(k)) \in Nat
           /\ Cardinality(SlotsOf(lru, k)) \in Nat
           /\ lost[k] \in Nat
  <1>1. Holders(k) \in SUBSET View
    BY DEF Holders
  <1> QED BY <1>1, ViewsFinite, SlotsFinite DEF TypeOK

\* After a step, the key of a view that holds a reference has references.
LEMMA HolderPresent ==
    ASSUME TypeOK', RefsExact', NEW v \in View, Owns(v)', address'[v] \in Key
    PROVE  Present(cache', address'[v])
  <1>0. PICK k \in Key : k = address'[v]
    OBVIOUS
  <1>1. v \in Holders(k)'
    BY <1>0 DEF Holders, Holds, Owns
  <1>2. Holders(k)' \in SUBSET View
    BY DEF Holders
  <1>3. Cardinality(Holders(k)') > 0 /\ Cardinality(Holders(k)') \in Nat
    BY <1>1, <1>2, ViewsFinite
  <1>4. cache'[k].refs = Cardinality(Holders(k)') + Cardinality(SlotsOf(lru', k)) + lost'[k]
    BY DEF RefsExact
  <1>5. Cardinality(SlotsOf(lru', k)) \in Nat /\ lost'[k] \in Nat
    BY SlotsFinite DEF TypeOK
  <1> QED BY <1>0, <1>3, <1>4, <1>5 DEF Present

LEMMA GainRef ==
    ASSUME TypeOK, RefsExact, NEW v \in View, NEW k \in Key,
           ~Owns(v), Owns(v)', address'[v] = k,
           \A w \in View \ {v} : (Owns(w)' <=> Owns(w)) /\ address'[w] = address[w],
           \A x \in Key : cache'[x].refs = IF x = k THEN cache[x].refs + 1 ELSE cache[x].refs,
           UNCHANGED <<lru, lost>>
    PROVE  RefsExact'
  <1> SUFFICES ASSUME NEW x \in Key
               PROVE  cache'[x].refs = Cardinality(Holders(x)') + Cardinality(SlotsOf(lru, x)) + lost[x]
    BY DEF RefsExact
  <1>1. /\ v \notin Holders(x)
        /\ x = k => Holders(x)' = Holders(x) \cup {v}
        /\ x # k => Holders(x)' = Holders(x)
    BY DEF Holders, Holds, Owns
  <1>2. x = k => Cardinality(Holders(x)') = Cardinality(Holders(x)) + 1
    BY <1>1, CountsTyped, ViewsFinite, CardAdd
  <1>3. cache[x].refs = Cardinality(Holders(x)) + Cardinality(SlotsOf(lru, x)) + lost[x]
    BY DEF RefsExact
  <1> QED BY <1>1, <1>2, <1>3, CountsTyped

LEMMA LoseHolder ==
    ASSUME TypeOK, NEW v \in View, NEW k \in Key,
           Owns(v), ~Owns(v)', address[v] = k,
           \A w \in View \ {v} : (Owns(w)' <=> Owns(w)) /\ address'[w] = address[w]
    PROVE  \A x \in Key : Cardinality(Holders(x)') =
              IF x = k THEN Cardinality(Holders(x)) - 1 ELSE Cardinality(Holders(x))
  <1> SUFFICES ASSUME NEW x \in Key
               PROVE  Cardinality(Holders(x)') =
                         IF x = k THEN Cardinality(Holders(x)) - 1 ELSE Cardinality(Holders(x))
    OBVIOUS
  <1>1. /\ x = k => v \in Holders(x)
        /\ x = k => Holders(x)' = Holders(x) \ {v}
        /\ x # k => Holders(x)' = Holders(x)
    BY DEF Holders, Holds, Owns
  <1> QED BY <1>1, CountsTyped, ViewsFinite, CardRemove

LEMMA LoseRef ==
    ASSUME TypeOK, RefsExact, NEW v \in View, NEW k \in Key,
           Owns(v), ~Owns(v)', address[v] = k,
           \A w \in View \ {v} : (Owns(w)' <=> Owns(w)) /\ address'[w] = address[w],
           \A x \in Key : cache'[x].refs = IF x = k THEN cache[x].refs - 1 ELSE cache[x].refs,
           UNCHANGED <<lru, lost>>
    PROVE  RefsExact'
  <1> SUFFICES ASSUME NEW x \in Key
               PROVE  cache'[x].refs = Cardinality(Holders(x)') + Cardinality(SlotsOf(lru, x)) + lost[x]
    BY DEF RefsExact
  <1>1. cache[x].refs = Cardinality(Holders(x)) + Cardinality(SlotsOf(lru, x)) + lost[x]
    BY DEF RefsExact
  <1> QED BY <1>1, LoseHolder, CountsTyped

LEMMA SameRefs ==
    ASSUME RefsExact,
           \A v \in View : /\ Owns(v)' <=> Owns(v)
                           /\ Owns(v) => address'[v] = address[v],
           UNCHANGED <<cache, lru, lost>>
    PROVE  RefsExact'
  <1> SUFFICES ASSUME NEW x \in Key
               PROVE  cache[x].refs = Cardinality(Holders(x)') + Cardinality(SlotsOf(lru, x)) + lost[x]
    BY DEF RefsExact
  <1>1. \A v \in View : Holds(v, x)' <=> Holds(v, x)
    BY DEF Holds, Owns
  <1>2. Holders(x)' = Holders(x)
    BY <1>1 DEF Holders
  <1> QED BY <1>2 DEF RefsExact

-----------------------------------------------------------------------------
(* The cache's own invariants *)

\* References are dropped, and what is no longer cached is cleaned up.
LEMMA ShrinkKeepsCache ==
    ASSUME TypeOK, CacheOK, AllocatedExact,
           NEW m \in Maps, WellFormed(m), Shrinks(cache, m), CacheBecomes(m),
           UNCHANGED extracted,
           \A v \in View : pc'[v] = "put" <=> pc[v] = "put"
    PROVE  CacheOK' /\ AllocatedExact' /\ cache' \in Maps /\ allocated' \subseteq Value
  <1>1. cache' = m /\ allocated' = allocated \ Disposed(cache, m)
    BY DEF CacheBecomes
  <1>2. CacheOK'
    BY <1>1 DEF CacheOK, Shrinks
  <1>3. ASSUME NEW b \in Value
        PROVE  b \in allocated' <=>
                 \/ \E k \in Key : Present(m, k) /\ m[k].value = b
                 \/ \E v \in View : pc[v] = "put" /\ extracted[v] = b
    <2>1. CASE \E k \in Key : Present(cache, k) /\ cache[k].value = b
      <3>1. PICK k \in Key : Present(cache, k) /\ cache[k].value = b
        BY <2>1
      <3>2. b \in Disposed(cache, m) <=> ~Present(m, k)
        BY <3>1 DEF Disposed, CacheOK
      <3>3. (\E l \in Key : Present(m, l) /\ m[l].value = b) <=> Present(m, k)
        BY <3>1 DEF Shrinks, CacheOK
      <3>4. \A v \in View : pc[v] = "put" => extracted[v] # b
        BY <3>1 DEF CacheOK
      <3> QED BY <1>1, <3>1, <3>2, <3>3, <3>4 DEF AllocatedExact
    <2>2. CASE ~ \E k \in Key : Present(cache, k) /\ cache[k].value = b
      <3>1. b \notin Disposed(cache, m)
        BY <2>2 DEF Disposed
      <3>2. ~ \E l \in Key : Present(m, l) /\ m[l].value = b
        BY <2>2 DEF Shrinks
      <3> QED BY <1>1, <2>2, <3>1, <3>2 DEF AllocatedExact
    <2> QED BY <2>1, <2>2
  <1>4. AllocatedExact'
    BY <1>1, <1>3 DEF AllocatedExact
  <1> QED BY <1>1, <1>2, <1>4 DEF TypeOK

\* BufferOK follows from the exact counts when a view that holds a reference after the step has
\* the buffer that is cached, if one is.
LEMMA BufferFromCache ==
    ASSUME TypeOK', RefsExact', (\A v \in View : ViewOK(v))',
           \A v \in View : Owns(v)' /\ Present(cache', address'[v])
                => cache'[address'[v]].value = buffer'[v]
    PROVE  BufferOK'
  <1> SUFFICES ASSUME NEW v \in View, Owns(v)'
               PROVE  Present(cache', address'[v])
    BY DEF BufferOK
  <1>1. address'[v] \in Key
    BY DEF ViewOK, Owns
  <1> QED BY <1>1, HolderPresent

\* While a call runs, nothing is being copied.
LEMMA NoCopy ==
    ASSUME IInv, NEW v \in View, pc[v] \in Busy \ {"retain"}
    PROVE  \A w \in View : pc[w] # "retain"
  BY DEF IInv, CopyOK, Busy

\* Nor does a call begin while something is.
LEMMA NoneCopied ==
    ASSUME CopiesRace = FALSE, OtherMayStart
    PROVE  \A w \in View : pc[w] # "retain"
  BY DEF OtherMayStart

-----------------------------------------------------------------------------
(* The inductive step, action by action *)

\* What every step of a call that is not a copy has in common: view v alone moves on.
LEMMA MovesOn ==
    ASSUME IInv, NEW v \in View, NEW phase \in {"dead", "live"} \cup (Busy \ {"retain"}),
           Goto(v, phase), \A w \in View : pc[w] # "retain",
           UNCHANGED <<source, seen>>
    PROVE  /\ pc' \in [View -> {"dead", "live"} \cup Busy]
           /\ pc'[v] = phase
           /\ \A w \in View \ {v} : pc'[w] = pc[w] /\ (Owns(w)' <=> Owns(w))
           /\ Owns(v)' <=> phase \in {"live", "touch"}
           /\ (\A w \in View : CopyOK(w))'
  <1>1. /\ pc' \in [View -> {"dead", "live"} \cup Busy] /\ pc'[v] = phase
        /\ \A w \in View \ {v} : pc'[w] = pc[w]
    BY DEF Goto, IInv, TypeOK
  <1>2. \A w \in View : pc'[w] # "retain"
    BY <1>1 DEF Busy
  <1>3. (\A w \in View : CopyOK(w))'
    BY <1>2 DEF CopyOK
  <1> QED BY <1>1, <1>3 DEF Owns

LEMMA StepViewInit ==
    ASSUME CopiesRace = FALSE, IInv, contexts' = 0, NEW v \in View, NEW k \in Key, ViewInit(v, k)
    PROVE  IInv'
  <1>1. /\ pc[v] = "dead" /\ Goto(v, "get") /\ address' = [address EXCEPT ![v] = k]
        /\ UNCHANGED <<lock, cache, lru, allocated, buffer, extracted, source, seen, lost>>
        /\ \A w \in View : pc[w] # "retain"
    BY NoneCopied DEF ViewInit
  <1>2. /\ pc' \in [View -> {"dead", "live"} \cup Busy] /\ pc'[v] = "get"
        /\ \A w \in View \ {v} : pc'[w] = pc[w] /\ (Owns(w)' <=> Owns(w))
        /\ ~Owns(v) /\ ~Owns(v)'
        /\ (\A w \in View : CopyOK(w))'
    BY <1>1, MovesOn DEF Busy, Owns
  <1>3. address' \in [View -> Key \cup {NoKey}] /\ address'[v] = k
        /\ \A w \in View \ {v} : address'[w] = address[w]
    BY <1>1 DEF IInv, TypeOK
  <1>4. TypeOK'
    BY <1>1, <1>2, <1>3 DEF IInv, TypeOK
  <1>5. CacheOK' /\ AllocatedExact'
    BY <1>1, <1>2 DEF IInv, CacheOK, AllocatedExact
  <1>6. (\A w \in View : ViewOK(w))'
    BY <1>1, <1>2, <1>3 DEF IInv, ViewOK
  <1>7. RefsExact'
    BY <1>1, <1>2, <1>3, SameRefs DEF IInv
  <1>8. BufferOK'
    BY <1>1, <1>2, <1>3 DEF IInv, BufferOK
  <1> QED BY <1>2, <1>4, <1>5, <1>6, <1>7, <1>8 DEF IInv

LEMMA StepLookup ==
    ASSUME IInv, contexts' = 0, NEW v \in View, Lookup(v)
    PROVE  IInv'
  <1> DEFINE k == address[v]
  <1>1. /\ pc[v] = "get" /\ lock = NoView /\ k \in Key /\ ~Owns(v)
        /\ \A w \in View : pc[w] # "retain"
        /\ UNCHANGED <<lru, allocated, address, extracted, source, seen, lost>>
    BY NoCopy DEF Lookup, IInv, ViewOK, Owns, Busy
  <1>2. CASE Present(cache, k)
    <2>1. /\ lock' = v /\ cache' = RcRetain(cache, k) /\ Goto(v, "touch")
          /\ buffer' = [buffer EXCEPT ![v] = cache[k].value]
      BY <1>2 DEF Lookup
    <2>2. /\ pc' \in [View -> {"dead", "live"} \cup Busy] /\ pc'[v] = "touch"
          /\ \A w \in View \ {v} : pc'[w] = pc[w] /\ (Owns(w)' <=> Owns(w))
          /\ Owns(v)'
          /\ (\A w \in View : CopyOK(w))'
      BY <1>1, <2>1, MovesOn DEF Busy
    <2>3. /\ cache' \in Maps /\ WellFormed(cache') /\ Shrinks(cache, cache')
          /\ \A x \in Key : cache'[x].refs = IF x = k THEN cache[x].refs + 1 ELSE cache[x].refs
      BY <1>1, <1>2, <2>1, RetainFacts DEF IInv, CacheOK, TypeOK
    <2>4. Disposed(cache, cache') = {}
      BY <2>3 DEF Disposed, Present, IInv, TypeOK, Maps
    <2>5. CacheBecomes(cache') /\ \A w \in View : pc'[w] = "put" <=> pc[w] = "put"
      BY <1>1, <2>2, <2>4 DEF CacheBecomes
    <2>6. CacheOK' /\ AllocatedExact'
      BY <1>1, <2>3, <2>5, ShrinkKeepsCache DEF IInv
    <2>7. cache[k].value \in Value
      BY <1>1, <1>2 DEF IInv, CacheOK, WellFormed
    <2>8. /\ buffer' \in [View -> Value \cup {NoValue}] /\ buffer'[v] = cache[k].value
          /\ \A w \in View \ {v} : buffer'[w] = buffer[w]
      BY <2>1, <2>7 DEF IInv, TypeOK
    <2>9. TypeOK'
      BY <1>1, <2>1, <2>2, <2>3, <2>8 DEF IInv, TypeOK
    <2>10. (\A w \in View : ViewOK(w))'
      BY <1>1, <2>1, <2>2, NoViewAssumption DEF IInv, ViewOK
    <2>11. RefsExact'
      BY <1>1, <2>2, <2>3, GainRef DEF IInv
    <2>12. BufferOK'
      <3>1. \A w \in View : Owns(w)' /\ Present(cache', address'[w])
              => cache'[address'[w]].value = buffer'[w]
        BY <1>1, <2>2, <2>3, <2>8 DEF IInv, BufferOK, Shrinks, ViewOK, Owns
      <3> QED BY <2>9, <2>10, <2>11, <3>1, BufferFromCache
    <2> QED BY <2>2, <2>6, <2>9, <2>10, <2>11, <2>12 DEF IInv
  <1>3. CASE ~Present(cache, k)
    <2>1. Goto(v, "extract") /\ UNCHANGED <<lock, cache, buffer>>
      BY <1>3 DEF Lookup
    <2>2. /\ pc' \in [View -> {"dead", "live"} \cup Busy] /\ pc'[v] = "extract"
          /\ \A w \in View \ {v} : pc'[w] = pc[w] /\ (Owns(w)' <=> Owns(w))
          /\ ~Owns(v)'
          /\ (\A w \in View : CopyOK(w))'
      BY <1>1, <2>1, MovesOn DEF Busy
    <2>3. TypeOK'
      BY <1>1, <2>1, <2>2 DEF IInv, TypeOK
    <2>4. CacheOK' /\ AllocatedExact'
      BY <1>1, <2>1, <2>2 DEF IInv, CacheOK, AllocatedExact
    <2>5. (\A w \in View : ViewOK(w))'
      BY <1>1, <2>1, <2>2, NoViewAssumption DEF IInv, ViewOK
    <2>6. RefsExact'
      BY <1>1, <2>1, <2>2, SameRefs DEF IInv
    <2>7. BufferOK'
      BY <1>1, <2>1, <2>2 DEF IInv, BufferOK
    <2> QED BY <2>2, <2>3, <2>4, <2>5, <2>6, <2>7 DEF IInv
  <1> QED BY <1>2, <1>3

LEMMA StepExtract ==
    ASSUME IInv, contexts' = 0, NEW v \in View, NEW b \in Value \ allocated, Extract(v, b)
    PROVE  IInv'
  <1>1. /\ pc[v] = "extract" /\ address[v] \in Key /\ ~Owns(v) /\ Goto(v, "put")
        /\ \A w \in View : pc[w] # "retain"
        /\ extracted' = [extracted EXCEPT ![v] = b] /\ allocated' = allocated \cup {b}
        /\ UNCHANGED <<lock, cache, lru, address, buffer, source, seen, lost>>
    BY NoCopy DEF Extract, IInv, ViewOK, Owns, Busy
  <1>2. /\ pc' \in [View -> {"dead", "live"} \cup Busy] /\ pc'[v] = "put"
        /\ \A w \in View \ {v} : pc'[w] = pc[w] /\ (Owns(w)' <=> Owns(w))
        /\ ~Owns(v)'
        /\ (\A w \in View : CopyOK(w))'
    BY <1>1, MovesOn DEF Busy
  <1>3. /\ extracted' \in [View -> Value \cup {NoValue}] /\ extracted'[v] = b
        /\ \A w \in View \ {v} : extracted'[w] = extracted[w]
    BY <1>1 DEF IInv, TypeOK
  <1>4. TypeOK'
    BY <1>1, <1>2, <1>3 DEF IInv, TypeOK
  <1>5. /\ \A k \in Key : Present(cache, k) => cache[k].value # b
        /\ \A w \in View : pc[w] = "put" => extracted[w] # b
    BY DEF IInv, AllocatedExact
  <1>6. CacheOK'
    BY <1>1, <1>2, <1>3, <1>5 DEF IInv, CacheOK
  <1>7. AllocatedExact'
    BY <1>1, <1>2, <1>3, <1>5 DEF IInv, AllocatedExact
  <1>8. (\A w \in View : ViewOK(w))'
    BY <1>1, <1>2, NoViewAssumption DEF IInv, ViewOK
  <1>9. RefsExact'
    BY <1>1, <1>2, SameRefs DEF IInv
  <1>10. BufferOK'
    BY <1>1, <1>2 DEF IInv, BufferOK
  <1> QED BY <1>2, <1>4, <1>6, <1>7, <1>8, <1>9, <1>10 DEF IInv

LEMMA StepExtractFails ==
    ASSUME IInv, contexts' = 0, NEW v \in View, ExtractFails(v)
    PROVE  IInv'
  <1>1. /\ pc[v] = "extract" /\ ~Owns(v) /\ Goto(v, "dead")
        /\ \A w \in View : pc[w] # "retain"
        /\ address' = [address EXCEPT ![v] = NoKey] /\ buffer' = [buffer EXCEPT ![v] = NoValue]
        /\ UNCHANGED <<lock, cache, lru, allocated, extracted, source, seen, lost>>
    BY NoCopy DEF ExtractFails, Zeroed, Owns, Busy
  <1>2. /\ pc' \in [View -> {"dead", "live"} \cup Busy] /\ pc'[v] = "dead"
        /\ \A w \in View \ {v} : pc'[w] = pc[w] /\ (Owns(w)' <=> Owns(w))
        /\ ~Owns(v)'
        /\ (\A w \in View : CopyOK(w))'
    BY <1>1, MovesOn DEF Busy
  <1>3. /\ address' \in [View -> Key \cup {NoKey}] /\ buffer' \in [View -> Value \cup {NoValue}]
        /\ \A w \in View \ {v} : address'[w] = address[w] /\ buffer'[w] = buffer[w]
    BY <1>1 DEF IInv, TypeOK
  <1>4. TypeOK'
    BY <1>1, <1>2, <1>3 DEF IInv, TypeOK
  <1>5. CacheOK' /\ AllocatedExact'
    BY <1>1, <1>2 DEF IInv, CacheOK, AllocatedExact
  <1>6. (\A w \in View : ViewOK(w))'
    BY <1>1, <1>2, <1>3, NoViewAssumption DEF IInv, ViewOK
  <1>7. RefsExact'
    BY <1>1, <1>2, <1>3, SameRefs DEF IInv
  <1>8. BufferOK'
    BY <1>1, <1>2, <1>3 DEF IInv, BufferOK
  <1> QED BY <1>2, <1>4, <1>5, <1>6, <1>7, <1>8 DEF IInv

\* The put settles the race of two threads that decompressed the same block.
LEMMA StepPut ==
    ASSUME IInv, contexts' = 0, NEW v \in View, Put(v)
    PROVE  IInv'
  <1> DEFINE k == address[v]
             b == extracted[v]
  <1>1. /\ k \in Key /\ b \in Value /\ ~Owns(v) /\ pc[v] = "put" /\ lock = NoView
        /\ \A x \in Key : Present(cache, x) => cache[x].value # b
        /\ \A w \in View \ {v} : pc[w] = "put" => extracted[w] # b
        /\ \A w \in View : pc[w] # "retain"
    BY NoCopy DEF Put, IInv, ViewOK, Owns, CacheOK, Busy
  <1>2. /\ lock' = v /\ Goto(v, "touch")
        /\ cache' = RcPut(cache, k, b)
        /\ allocated' = IF Present(cache, k) THEN allocated \ {b} ELSE allocated
        /\ buffer' = [buffer EXCEPT ![v] = cache'[k].value]
        /\ extracted' = [extracted EXCEPT ![v] = NoValue]
        /\ UNCHANGED <<lru, address, source, seen, lost>>
    BY DEF Put
  <1>3. /\ cache' \in Maps /\ WellFormed(cache')
        /\ \A x \in Key : cache'[x].refs = IF x = k THEN cache[x].refs + 1 ELSE cache[x].refs
        /\ \A x \in Key : cache'[x].value =
              IF x = k /\ ~Present(cache, k) THEN b ELSE cache[x].value
    BY <1>1, <1>2, PutFacts DEF IInv, TypeOK, CacheOK
  <1>4. /\ pc' \in [View -> {"dead", "live"} \cup Busy] /\ pc'[v] = "touch"
        /\ \A w \in View \ {v} : pc'[w] = pc[w] /\ (Owns(w)' <=> Owns(w))
        /\ Owns(v)'
        /\ (\A w \in View : CopyOK(w))'
    BY <1>1, <1>2, MovesOn DEF Busy
  <1>5. cache'[k].value \in Value \cup {NoValue}
    BY <1>1, <1>3 DEF Maps
  <1>6. /\ buffer' \in [View -> Value \cup {NoValue}] /\ buffer'[v] = cache'[k].value
        /\ extracted' \in [View -> Value \cup {NoValue}]
        /\ \A w \in View \ {v} : buffer'[w] = buffer[w] /\ extracted'[w] = extracted[w]
    BY <1>2, <1>5 DEF IInv, TypeOK
  <1>7. TypeOK'
    BY <1>2, <1>3, <1>4, <1>6 DEF IInv, TypeOK
  <1>8. \A x \in Key : Present(cache', x) <=> Present(cache, x) \/ x = k
    BY <1>1, <1>3 DEF Present, IInv, TypeOK, Maps
  <1> HIDE DEF k, b
  <1>9. CacheOK'
    <2>1. ASSUME NEW x \in Key, NEW y \in Key, Present(cache', x), Present(cache', y),
                 cache'[x].value = cache'[y].value
          PROVE  x = y
      BY <1>1, <1>3, <1>8, <2>1 DEF IInv, CacheOK
    <2>2. ASSUME NEW w \in View, pc'[w] = "put"
          PROVE  /\ extracted'[w] \in Value
                 /\ \A x \in Key : Present(cache', x) => cache'[x].value # extracted'[w]
                 /\ \A u \in View : pc'[u] = "put" /\ extracted'[u] = extracted'[w] => u = w
      BY <1>1, <1>3, <1>4, <1>6, <1>8, <2>2 DEF IInv, CacheOK
    <2> QED BY <1>3, <2>1, <2>2 DEF CacheOK
  <1>10. AllocatedExact'
    <2> SUFFICES ASSUME NEW c \in Value
                 PROVE  c \in allocated' <=>
                          \/ \E x \in Key : Present(cache', x) /\ cache'[x].value = c
                          \/ \E w \in View : pc'[w] = "put" /\ extracted'[w] = c
      BY DEF AllocatedExact
    <2>1. c \in allocated <=>
            \/ \E x \in Key : Present(cache, x) /\ cache[x].value = c
            \/ \E w \in View : pc[w] = "put" /\ extracted[w] = c
      BY DEF IInv, AllocatedExact
    <2>2. (\E w \in View : pc[w] = "put" /\ extracted[w] = c) <=>
            c = b \/ \E w \in View : pc'[w] = "put" /\ extracted'[w] = c
      BY <1>1, <1>4, <1>6 DEF b
    <2>3. \A w \in View : pc'[w] = "put" => extracted'[w] # b
      BY <1>1, <1>4, <1>6
    <2>4. CASE Present(cache, k)
      <3>1. \A x \in Key : /\ Present(cache', x) <=> Present(cache, x)
                           /\ cache'[x].value = cache[x].value
        BY <1>3, <1>8, <2>4
      <3> QED BY <1>1, <1>2, <2>1, <2>2, <2>3, <2>4, <3>1
    <2>5. CASE ~Present(cache, k)
      <3>1. (\E x \in Key : Present(cache', x) /\ cache'[x].value = c) <=>
              c = b \/ \E x \in Key : Present(cache, x) /\ cache[x].value = c
        BY <1>1, <1>3, <1>8, <2>5
      <3> QED BY <1>2, <2>1, <2>2, <2>5, <3>1
    <2> QED BY <2>4, <2>5
  <1>11. (\A w \in View : ViewOK(w))'
    BY <1>1, <1>2, <1>4, NoViewAssumption DEF IInv, ViewOK, k
  <1>12. RefsExact'
    <2>1. address'[v] = k /\ \A w \in View : address'[w] = address[w]
      BY <1>2 DEF k
    <2> QED BY <1>1, <1>2, <1>3, <1>4, <2>1, GainRef DEF IInv
  <1>13. BufferOK'
    <2>1. \A w \in View : Owns(w)' /\ Present(cache', address'[w])
            => cache'[address'[w]].value = buffer'[w]
      <3> SUFFICES ASSUME NEW w \in View, Owns(w)'
                   PROVE  cache'[address'[w]].value = buffer'[w]
        OBVIOUS
      <3>1. CASE w = v
        BY <1>2, <1>6, <3>1 DEF k
      <3>2. CASE w # v
        <4>1. Owns(w) /\ Present(cache, address[w]) /\ cache[address[w]].value = buffer[w] /\ address[w] \in Key
          BY <1>4, <3>2 DEF IInv, BufferOK, ViewOK, Owns
        <4> QED BY <1>2, <1>3, <1>6, <3>2, <4>1
      <3> QED BY <3>1, <3>2
    <2> QED BY <1>7, <1>11, <1>12, <2>1, BufferFromCache
  <1> QED BY <1>4, <1>7, <1>9, <1>10, <1>11, <1>12, <1>13 DEF IInv

LEMMA StepPutFails ==
    ASSUME IInv, contexts' = 0, NEW v \in View, PutFails(v)
    PROVE  IInv'
  <1>1. /\ pc[v] = "put" /\ lock = NoView /\ ~Owns(v) /\ Goto(v, "dead")
        /\ \A w \in View : pc[w] # "retain"
        /\ allocated' = allocated \ {extracted[v]} /\ extracted' = [extracted EXCEPT ![v] = NoValue]
        /\ address' = [address EXCEPT ![v] = NoKey] /\ buffer' = [buffer EXCEPT ![v] = NoValue]
        /\ UNCHANGED <<lock, cache, lru, source, seen, lost>>
    BY NoCopy DEF PutFails, Zeroed, Owns, Busy
  <1>2. /\ pc' \in [View -> {"dead", "live"} \cup Busy] /\ pc'[v] = "dead"
        /\ \A w \in View \ {v} : pc'[w] = pc[w] /\ (Owns(w)' <=> Owns(w))
        /\ ~Owns(v)'
        /\ (\A w \in View : CopyOK(w))'
    BY <1>1, MovesOn DEF Busy
  <1>3. /\ address' \in [View -> Key \cup {NoKey}] /\ buffer' \in [View -> Value \cup {NoValue}]
        /\ extracted' \in [View -> Value \cup {NoValue}]
        /\ \A w \in View \ {v} :
              address'[w] = address[w] /\ buffer'[w] = buffer[w] /\ extracted'[w] = extracted[w]
    BY <1>1 DEF IInv, TypeOK
  <1>4. TypeOK'
    BY <1>1, <1>2, <1>3 DEF IInv, TypeOK
  <1>5. /\ extracted[v] \in Value
        /\ \A k \in Key : Present(cache, k) => cache[k].value # extracted[v]
        /\ \A w \in View \ {v} : pc[w] = "put" => extracted[w] # extracted[v]
    BY <1>1 DEF IInv, CacheOK
  <1>6. CacheOK'
    BY <1>1, <1>2, <1>3 DEF IInv, CacheOK
  <1>7. AllocatedExact'
    BY <1>1, <1>2, <1>3, <1>5 DEF IInv, AllocatedExact
  <1>8. (\A w \in View : ViewOK(w))'
    BY <1>1, <1>2, <1>3, NoViewAssumption DEF IInv, ViewOK
  <1>9. RefsExact'
    BY <1>1, <1>2, <1>3, SameRefs DEF IInv
  <1>10. BufferOK'
    BY <1>1, <1>2, <1>3 DEF IInv, BufferOK
  <1> QED BY <1>2, <1>4, <1>6, <1>7, <1>8, <1>9, <1>10 DEF IInv

LEMMA StepTouch ==
    ASSUME IInv, contexts' = 0, NEW v \in View, Touch(v)
    PROVE  IInv'
  <1> DEFINE k == address[v]
             m == RcTouch(cache, lru, k)
  <1>1. /\ pc[v] = "touch" /\ lock = v /\ k \in Key /\ Owns(v) /\ Present(cache, k)
        /\ \A w \in View : pc[w] # "retain"
    BY NoCopy DEF Touch, IInv, ViewOK, BufferOK, Owns, Busy
  <1>2. /\ CacheBecomes(m) /\ lru' = LruTouch(lru, k) /\ lock' = NoView /\ Goto(v, "live")
        /\ UNCHANGED <<address, buffer, extracted, source, seen, lost>>
    BY DEF Touch
  <1>3. /\ pc' \in [View -> {"dead", "live"} \cup Busy] /\ pc'[v] = "live"
        /\ \A w \in View \ {v} : pc'[w] = pc[w] /\ (Owns(w)' <=> Owns(w))
        /\ Owns(v)'
        /\ (\A w \in View : CopyOK(w))'
    BY <1>1, <1>2, MovesOn
  <1>4. \A x \in Key : /\ cache[x].refs = Cardinality(Holders(x)) + Cardinality(SlotsOf(lru, x)) + lost[x]
                       /\ Cardinality(Holders(x)) \in Nat
                       /\ Cardinality(SlotsOf(lru, x)) \in Nat
                       /\ Cardinality(SlotsOf(lru', x)) \in Nat
                       /\ lost[x] \in Nat
    BY CountsTyped, SlotsFinite DEF IInv, RefsExact
  <1>5. /\ m \in Maps /\ WellFormed(m) /\ Shrinks(cache, m)
        /\ \A x \in Key : m[x].refs + Cardinality(SlotsOf(lru, x))
                           = cache[x].refs + Cardinality(SlotsOf(LruTouch(lru, k), x))
    <2>1. \A x \in Key : cache[x].refs >= Cardinality(SlotsOf(lru, x))
      BY <1>4
    <2>2. cache \in Maps /\ WellFormed(cache) /\ lru \in Rings
      BY DEF IInv, TypeOK, CacheOK
    <2> QED BY <1>1, <2>1, <2>2, TouchFacts
  <1>6. cache' = m
    BY <1>2 DEF CacheBecomes
  <1> HIDE DEF m, k
  <1>7. CacheOK' /\ AllocatedExact' /\ cache' \in Maps /\ allocated' \subseteq Value
    <2>1. \A w \in View : pc'[w] = "put" <=> pc[w] = "put"
      BY <1>1, <1>3
    <2> QED BY <1>2, <1>5, <2>1, ShrinkKeepsCache DEF IInv
  <1>8. TypeOK'
    <2>1. lru' \in Rings
      BY <1>1, <1>2, LruTouchType DEF IInv, TypeOK
    <2> QED BY <1>2, <1>3, <1>7, <2>1 DEF IInv, TypeOK
  <1>9. (\A w \in View : ViewOK(w))'
    BY <1>1, <1>2, <1>3, NoViewAssumption DEF IInv, ViewOK
  <1>10. RefsExact'
    <2> SUFFICES ASSUME NEW x \in Key
                 PROVE  m[x].refs = Cardinality(Holders(x)') + Cardinality(SlotsOf(lru', x)) + lost[x]
      BY <1>2, <1>6 DEF RefsExact
    <2>1. \A w \in View : Owns(w)' <=> Owns(w)
      BY <1>1, <1>3
    <2>2. \A w \in View : Holds(w, x)' <=> Holds(w, x)
      BY <1>2, <2>1 DEF Holds, Owns
    <2>3. Holders(x)' = Holders(x)
      BY <2>2 DEF Holders
    <2>4. m[x].refs \in Nat
      BY <1>5 DEF Maps
    <2>5. m[x].refs + Cardinality(SlotsOf(lru, x)) = cache[x].refs + Cardinality(SlotsOf(lru', x))
      BY <1>2, <1>5
    <2>6. /\ cache[x].refs = Cardinality(Holders(x)) + Cardinality(SlotsOf(lru, x)) + lost[x]
          /\ Cardinality(Holders(x)) \in Nat /\ Cardinality(SlotsOf(lru, x)) \in Nat
          /\ Cardinality(SlotsOf(lru', x)) \in Nat /\ lost[x] \in Nat
      BY <1>4
    <2> QED BY <2>3, <2>4, <2>5, <2>6
  <1>11. BufferOK'
    <2>1. \A w \in View : Owns(w)' /\ Present(cache', address'[w])
            => cache'[address'[w]].value = buffer'[w]
      BY <1>1, <1>2, <1>3, <1>5, <1>6 DEF IInv, BufferOK, Shrinks, ViewOK, Owns
    <2> QED BY <1>8, <1>9, <1>10, <2>1, BufferFromCache
  <1> QED BY <1>3, <1>7, <1>8, <1>9, <1>10, <1>11 DEF IInv

\* The reference that the view had is lost, but counted.
LEMMA StepTouchFails ==
    ASSUME IInv, contexts' = 0, NEW v \in View, TouchFails(v)
    PROVE  IInv'
  <1> DEFINE k == address[v]
  <1>1. /\ pc[v] = "touch" /\ lock = v /\ k \in Key /\ Owns(v)
        /\ \A w \in View : pc[w] # "retain"
        /\ lost' = [lost EXCEPT ![k] = @ + 1] /\ lock' = NoView /\ Goto(v, "dead")
        /\ address' = [address EXCEPT ![v] = NoKey] /\ buffer' = [buffer EXCEPT ![v] = NoValue]
        /\ UNCHANGED <<cache, lru, allocated, extracted, source, seen>>
    BY NoCopy DEF TouchFails, Zeroed, IInv, ViewOK, Owns, Busy
  <1>2. /\ pc' \in [View -> {"dead", "live"} \cup Busy] /\ pc'[v] = "dead"
        /\ \A w \in View \ {v} : pc'[w] = pc[w] /\ (Owns(w)' <=> Owns(w))
        /\ ~Owns(v)'
        /\ (\A w \in View : CopyOK(w))'
    BY <1>1, MovesOn DEF Busy
  <1>3. /\ address' \in [View -> Key \cup {NoKey}] /\ buffer' \in [View -> Value \cup {NoValue}]
        /\ \A w \in View \ {v} : address'[w] = address[w] /\ buffer'[w] = buffer[w]
    BY <1>1 DEF IInv, TypeOK
  <1>4. /\ lost' \in [Key -> Nat]
        /\ \A x \in Key : lost'[x] = IF x = k THEN lost[x] + 1 ELSE lost[x]
    BY <1>1 DEF IInv, TypeOK
  <1>5. TypeOK'
    BY <1>1, <1>2, <1>3, <1>4 DEF IInv, TypeOK
  <1>6. CacheOK' /\ AllocatedExact'
    BY <1>1, <1>2 DEF IInv, CacheOK, AllocatedExact
  <1>7. (\A w \in View : ViewOK(w))'
    BY <1>1, <1>2, <1>3, NoViewAssumption DEF IInv, ViewOK
  <1>8. RefsExact'
    <2> SUFFICES ASSUME NEW x \in Key
                 PROVE  cache[x].refs = Cardinality(Holders(x)') + Cardinality(SlotsOf(lru, x)) + lost'[x]
      BY <1>1 DEF RefsExact
    <2>1. cache[x].refs = Cardinality(Holders(x)) + Cardinality(SlotsOf(lru, x)) + lost[x]
      BY DEF IInv, RefsExact
    <2>2. /\ Cardinality(Holders(x)) \in Nat /\ Cardinality(SlotsOf(lru, x)) \in Nat
          /\ lost[x] \in Nat
      BY CountsTyped DEF IInv
    <2>3. Cardinality(Holders(x)') =
             IF x = k THEN Cardinality(Holders(x)) - 1 ELSE Cardinality(Holders(x))
      BY <1>1, <1>2, <1>3, LoseHolder DEF IInv
    <2> HIDE DEF k
    <2> QED BY <1>4, <2>1, <2>2, <2>3
  <1>9. BufferOK'
    BY <1>1, <1>2, <1>3 DEF IInv, BufferOK
  <1> QED BY <1>2, <1>5, <1>6, <1>7, <1>8, <1>9 DEF IInv

LEMMA StepCopyRead ==
    ASSUME CopiesRace = FALSE, IInv, contexts' = 0, NEW v \in View, NEW w \in View, CopyRead(v, w)
    PROVE  IInv'
  <1>1. /\ pc[v] = "dead" /\ pc[w] = "live" /\ v # w /\ ~Owns(v)
        /\ \A u \in View : pc[u] \in {"dead", "live"}
        /\ source' = [source EXCEPT ![v] = w] /\ seen' = [seen EXCEPT ![v] = cache[address[w]].refs]
        /\ pc' = [pc EXCEPT ![v] = "retain"]
        /\ UNCHANGED <<lock, cache, lru, allocated, address, buffer, extracted, lost>>
    BY DEF CopyRead, CopyMayStart, Goto, IInv, TypeOK, Busy, Owns
  <1>2. /\ pc' \in [View -> {"dead", "live"} \cup Busy] /\ pc'[v] = "retain"
        /\ \A u \in View \ {v} : pc'[u] = pc[u] /\ (Owns(u)' <=> Owns(u))
        /\ ~Owns(v)'
    BY <1>1 DEF IInv, TypeOK, Busy, Owns
  <1>3. address[w] \in Key /\ cache[address[w]].refs \in Nat
    BY <1>1 DEF IInv, ViewOK, TypeOK, Maps
  <1>4. /\ source' \in [View -> View \cup {NoView}] /\ source'[v] = w
        /\ seen' \in [View -> Nat] /\ seen'[v] = cache[address[w]].refs
    BY <1>1, <1>3 DEF IInv, TypeOK
  <1>5. TypeOK'
    BY <1>1, <1>2, <1>4 DEF IInv, TypeOK
  <1>6. CacheOK' /\ AllocatedExact'
    BY <1>1, <1>2 DEF IInv, CacheOK, AllocatedExact
  <1>7. (\A u \in View : ViewOK(u))'
    BY <1>1, <1>2 DEF IInv, ViewOK
  <1>8. (\A u \in View : CopyOK(u))'
    BY <1>1, <1>2, <1>4 DEF CopyOK
  <1>9. RefsExact'
    BY <1>1, <1>2, SameRefs DEF IInv
  <1>10. BufferOK'
    BY <1>1, <1>2 DEF IInv, BufferOK
  <1> QED BY <1>5, <1>6, <1>7, <1>8, <1>9, <1>10 DEF IInv

\* Nothing has changed the count since it was read, so the copy adds the one reference it has.
LEMMA StepCopyWrite ==
    ASSUME IInv, contexts' = 0, NEW v \in View, CopyWrite(v)
    PROVE  IInv'
  <1> DEFINE w == source[v]
             k == address[w]
  <1>1. /\ pc[v] = "retain" /\ w \in View /\ pc[w] = "live" /\ ~Owns(v) /\ Owns(w) /\ k \in Key
        /\ seen[v] = cache[k].refs /\ Present(cache, k) /\ cache[k].value = buffer[w]
        /\ \A u \in View \ {v} : pc[u] \in {"dead", "live"}
    BY DEF CopyWrite, IInv, CopyOK, ViewOK, BufferOK, Owns
  <1>2. /\ address' = [address EXCEPT ![v] = k] /\ buffer' = [buffer EXCEPT ![v] = buffer[w]]
        /\ source' = [source EXCEPT ![v] = NoView] /\ seen' = [seen EXCEPT ![v] = 0]
        /\ pc' = [pc EXCEPT ![v] = "live"]
        /\ UNCHANGED <<lock, lru, allocated, extracted, lost>>
    BY DEF CopyWrite, Goto
  <1>3. cache' = RcRetain(cache, k)
    <2>1. \E n \in {seen[v] + 1} \cup ({cache[k].refs} \ {seen[v]}) :
              cache' = IF Present(cache, k) THEN [cache EXCEPT ![k].refs = n] ELSE cache
      BY DEF CopyWrite
    <2>2. cache' = [cache EXCEPT ![k].refs = cache[k].refs + 1]
      BY <1>1, <2>1
    <2> QED BY <1>1, <2>2 DEF RcRetain
  <1>4. /\ cache' \in Maps /\ WellFormed(cache') /\ Shrinks(cache, cache')
        /\ \A x \in Key : cache'[x].refs = IF x = k THEN cache[x].refs + 1 ELSE cache[x].refs
    BY <1>1, <1>3, RetainFacts DEF IInv, CacheOK, TypeOK
  <1>5. /\ pc' \in [View -> {"dead", "live"} \cup Busy] /\ pc'[v] = "live"
        /\ \A u \in View \ {v} : pc'[u] = pc[u] /\ (Owns(u)' <=> Owns(u))
        /\ Owns(v)'
    BY <1>2 DEF IInv, TypeOK, Owns
  <1>6. /\ address' \in [View -> Key \cup {NoKey}] /\ address'[v] = k
        /\ buffer' \in [View -> Value \cup {NoValue}] /\ buffer'[v] = buffer[w]
        /\ source' \in [View -> View \cup {NoView}] /\ seen' \in [View -> Nat]
        /\ \A u \in View \ {v} : address'[u] = address[u] /\ buffer'[u] = buffer[u]
    BY <1>1, <1>2 DEF IInv, TypeOK
  <1>7. CacheOK' /\ AllocatedExact'
    <2>1. Disposed(cache, cache') = {}
      BY <1>4 DEF Disposed, Present, IInv, TypeOK, Maps
    <2>2. CacheBecomes(cache') /\ \A u \in View : pc'[u] = "put" <=> pc[u] = "put"
      BY <1>1, <1>2, <1>5, <2>1 DEF CacheBecomes
    <2> QED BY <1>2, <1>4, <2>2, ShrinkKeepsCache DEF IInv
  <1>8. TypeOK'
    BY <1>2, <1>4, <1>5, <1>6 DEF IInv, TypeOK
  <1>9. (\A u \in View : ViewOK(u))'
    BY <1>1, <1>2, <1>5, <1>6, NoViewAssumption DEF IInv, ViewOK
  <1>10. (\A u \in View : CopyOK(u))'
    BY <1>1, <1>5 DEF CopyOK
  <1>11. RefsExact'
    BY <1>1, <1>2, <1>4, <1>5, <1>6, GainRef DEF IInv
  <1> HIDE DEF k, w
  <1>12. BufferOK'
    <2>1. \A u \in View : Owns(u)' /\ Present(cache', address'[u])
            => cache'[address'[u]].value = buffer'[u]
      <3> SUFFICES ASSUME NEW u \in View, Owns(u)', Present(cache', address'[u])
                   PROVE  cache'[address'[u]].value = buffer'[u]
        OBVIOUS
      <3>1. CASE u = v
        BY <1>1, <1>4, <1>6, <3>1 DEF Shrinks
      <3>2. CASE u # v
        <4>1. Owns(u) /\ cache[address[u]].value = buffer[u] /\ address[u] \in Key
          BY <1>5, <3>2 DEF IInv, BufferOK, ViewOK, Owns
        <4> QED BY <1>4, <1>6, <3>2, <4>1 DEF Shrinks
      <3> QED BY <3>1, <3>2
    <2> QED BY <1>8, <1>9, <1>11, <2>1, BufferFromCache
  <1> QED BY <1>7, <1>8, <1>9, <1>10, <1>11, <1>12 DEF IInv

LEMMA StepViewCleanup ==
    ASSUME CopiesRace = FALSE, IInv, contexts' = 0, NEW v \in View, ViewCleanup(v)
    PROVE  IInv'
  <1> DEFINE k == address[v]
             m == RcRelease(cache, k)
  <1>1. /\ pc[v] = "live" /\ Owns(v) /\ k \in Key /\ Present(cache, k)
        /\ \A w \in View : pc[w] # "retain"
        /\ CacheBecomes(m) /\ Goto(v, "dead")
        /\ address' = [address EXCEPT ![v] = NoKey] /\ buffer' = [buffer EXCEPT ![v] = NoValue]
        /\ UNCHANGED <<lock, lru, extracted, source, seen, lost>>
    BY NoneCopied DEF ViewCleanup, Release, Zeroed, IInv, ViewOK, BufferOK, Owns
  <1>2. /\ pc' \in [View -> {"dead", "live"} \cup Busy] /\ pc'[v] = "dead"
        /\ \A w \in View \ {v} : pc'[w] = pc[w] /\ (Owns(w)' <=> Owns(w))
        /\ ~Owns(v)'
        /\ (\A w \in View : CopyOK(w))'
    BY <1>1, MovesOn DEF Busy
  <1>3. /\ address' \in [View -> Key \cup {NoKey}] /\ buffer' \in [View -> Value \cup {NoValue}]
        /\ \A w \in View \ {v} : address'[w] = address[w] /\ buffer'[w] = buffer[w]
    BY <1>1 DEF IInv, TypeOK
  <1>4. /\ m \in Maps /\ WellFormed(m) /\ Shrinks(cache, m)
        /\ \A x \in Key : m[x].refs = IF x = k THEN cache[x].refs - 1 ELSE cache[x].refs
    BY <1>1, ReleaseFacts DEF IInv, CacheOK, TypeOK
  <1>5. cache' = m
    BY <1>1 DEF CacheBecomes
  <1> HIDE DEF m
  <1>6. CacheOK' /\ AllocatedExact' /\ cache' \in Maps /\ allocated' \subseteq Value
    <2>1. \A w \in View : pc'[w] = "put" <=> pc[w] = "put"
      BY <1>1, <1>2
    <2> QED BY <1>1, <1>4, <2>1, ShrinkKeepsCache DEF IInv
  <1>7. TypeOK'
    BY <1>1, <1>2, <1>3, <1>6 DEF IInv, TypeOK
  <1>8. (\A w \in View : ViewOK(w))'
    BY <1>1, <1>2, <1>3, NoViewAssumption DEF IInv, ViewOK
  <1>9. RefsExact'
    BY <1>1, <1>2, <1>3, <1>4, <1>5, LoseRef DEF IInv
  <1>10. BufferOK'
    <2>1. \A w \in View : Owns(w)' /\ Present(cache', address'[w])
            => cache'[address'[w]].value = buffer'[w]
      <3> SUFFICES ASSUME NEW w \in View, Owns(w)', Present(cache', address'[w])
                   PROVE  cache'[address'[w]].value = buffer'[w]
        OBVIOUS
      <3>1. w # v /\ Owns(w) /\ cache[address[w]].value = buffer[w] /\ address[w] \in Key
        BY <1>2 DEF IInv, BufferOK, ViewOK, Owns
      <3> QED BY <1>3, <1>4, <1>5, <3>1 DEF Shrinks
    <2> QED BY <1>7, <1>8, <1>9, <2>1, BufferFromCache
  <1> QED BY <1>2, <1>6, <1>7, <1>8, <1>9, <1>10 DEF IInv

\* With no view alive, what is left in the cache goes with it.
LEMMA StepManagerCleanup ==
    ASSUME IInv, contexts' = 0, ManagerCleanup
    PROVE  IInv'
  <1>1. /\ \A v \in View : pc[v] = "dead"
        /\ CacheBecomes(EmptyMap) /\ cache' = EmptyMap /\ lru' = EmptyRing
        /\ lost' = [k \in Key |-> 0]
        /\ UNCHANGED <<lock, pc, address, buffer, extracted, source, seen>>
    BY DEF ManagerCleanup, CacheBecomes
  <1>2. EmptyMap \in Maps /\ WellFormed(EmptyMap) /\ Shrinks(cache, EmptyMap)
    BY NoValueAssumption DEF EmptyMap, Maps, WellFormed, Present, Shrinks, Absent
  <1>3. CacheOK' /\ AllocatedExact' /\ cache' \in Maps /\ allocated' \subseteq Value
    BY <1>1, <1>2, ShrinkKeepsCache DEF IInv
  <1>4. TypeOK'
    <2>1. EmptyRing \in Rings
      BY LruSizeAssumption DEF EmptyRing, Rings
    <2> QED BY <1>1, <1>3, <2>1 DEF IInv, TypeOK
  <1>5. (\A v \in View : ViewOK(v) /\ CopyOK(v))'
    BY <1>1 DEF IInv, ViewOK, CopyOK
  <1>6. RefsExact'
    <2> SUFFICES ASSUME NEW x \in Key
                 PROVE  EmptyMap[x].refs = Cardinality(Holders(x)') + Cardinality(SlotsOf(EmptyRing, x)) + 0
      BY <1>1 DEF RefsExact
    <2>1. Holders(x)' = {}
      BY <1>1 DEF Holders, Holds
    <2> QED BY <2>1, FS_EmptySet, SlotsOfEmptyRing DEF EmptyMap, Absent
  <1>7. BufferOK'
    BY <1>1 DEF BufferOK, Owns
  <1> QED BY <1>3, <1>4, <1>5, <1>6, <1>7 DEF IInv

LEMMA InitIInv == Init => IInv
  <1> SUFFICES ASSUME Init PROVE IInv
    OBVIOUS
  <1> USE DEF Init
  <1>1. TypeOK
    <2>1. EmptyMap \in Maps /\ EmptyRing \in Rings
      BY LruSizeAssumption DEF EmptyMap, EmptyRing, Maps, Rings, Absent
    <2> QED BY <2>1 DEF TypeOK
  <1>2. CacheOK /\ AllocatedExact
    BY NoValueAssumption DEF CacheOK, WellFormed, AllocatedExact, EmptyMap, Absent, Present
  <1>3. \A v \in View : ViewOK(v) /\ CopyOK(v) /\ ~Owns(v)
    BY NoViewAssumption DEF ViewOK, CopyOK, Owns
  <1>4. RefsExact
    <2> SUFFICES ASSUME NEW x \in Key
                 PROVE  EmptyMap[x].refs = Cardinality(Holders(x)) + Cardinality(SlotsOf(EmptyRing, x)) + 0
      BY DEF RefsExact
    <2>1. Holders(x) = {}
      BY DEF Holders, Holds
    <2> QED BY <2>1, FS_EmptySet, SlotsOfEmptyRing DEF EmptyMap, Absent
  <1> QED BY <1>1, <1>2, <1>3, <1>4 DEF IInv, BufferOK

\* A decompression leaves no state of a library set up.
LEMMA ContextsStay ==
    ASSUME IInv, NEW v \in View, Decompress(v)
    PROVE  contexts' = 0
  <1>1. PICK e \in Outcomes : contexts' = contexts + e.open
    BY DEF Decompress, Extract, ExtractFails
  <1>2. e.open = 0 /\ contexts = 0
    BY OutcomesClosed DEF IInv
  <1> QED BY <1>1, <1>2

LEMMA NextIInv ==
    ASSUME CopiesRace = FALSE, IInv, [Next]_vars
    PROVE  IInv'
  <1>1. CASE UNCHANGED vars
    <2> USE <1>1 DEF vars
    <2>1. TypeOK' /\ contexts' = 0 /\ CacheOK' /\ AllocatedExact'
      BY DEF IInv, TypeOK, CacheOK, AllocatedExact
    <2>2. (\A v \in View : ViewOK(v) /\ CopyOK(v))'
      BY DEF IInv, ViewOK, CopyOK
    <2>3. \A v \in View : (Owns(v)' <=> Owns(v)) /\ address'[v] = address[v]
      BY DEF Owns
    <2>4. RefsExact'
      BY <2>3, SameRefs DEF IInv
    <2>5. BufferOK'
      BY <2>3 DEF IInv, BufferOK
    <2> QED BY <2>1, <2>2, <2>4, <2>5 DEF IInv
  <1>2. ASSUME UNCHANGED contexts PROVE contexts' = 0
    BY <1>2 DEF IInv
  <1>3. ASSUME NEW v \in View, Begin(v), contexts' = 0
        PROVE  IInv'
    BY <1>3, StepViewInit, StepCopyRead, StepViewCleanup DEF Begin
  <1>4. ASSUME NEW v \in View, Decompress(v)
        PROVE  IInv'
    BY <1>4, ContextsStay, StepExtract, StepExtractFails DEF Decompress
  <1>5. ASSUME NEW v \in View, Continue(v), ~Decompress(v)
        PROVE  IInv'
    BY <1>2, <1>5, StepLookup, StepPut, StepPutFails, StepTouch, StepTouchFails, StepCopyWrite
       DEF Continue
  <1> QED BY <1>1, <1>2, <1>3, <1>4, <1>5, StepManagerCleanup DEF Next

-----------------------------------------------------------------------------
(* The theorems *)

\* IInv holds in every reachable state, as long as copies do not overlap other calls.
THEOREM Invariance == CopiesRace = FALSE => (Spec => []IInv)
  <1> SUFFICES ASSUME CopiesRace = FALSE PROVE Spec => []IInv
    OBVIOUS
  <1>1. IInv /\ [Next]_vars => IInv'
    BY NextIInv
  <1> QED BY InitIInv, <1>1, PTL DEF Spec

\* The fields keep their types: what extract_manager.c and extract_view.c store in them.
THEOREM TypeCorrect == CopiesRace = FALSE => (Spec => []TypeOK)
  <1>1. IInv => TypeOK
    BY DEF IInv
  <1> QED
    BY <1>1, Invariance, PTL

\* The reference count of every block is exactly the number of its users, for any number of
\* threads, blocks and LRU slots, those that a failing touch forgets included.
THEOREM CountsExact == CopiesRace = FALSE => (Spec => []RefsExact)
  <1>1. IInv => RefsExact
    BY DEF IInv
  <1> QED BY <1>1, Invariance, PTL

\* No thread uses a decompressed block after it was cleaned up (sqsh__extract_view_data).
THEOREM NoUseAfterFree == CopiesRace = FALSE => (Spec => []ViewBufferAlive)
  <1>1. IInv => ViewBufferAlive
    <2> SUFFICES ASSUME IInv, NEW v \in View, pc[v] = "live"
                 PROVE  /\ Present(cache, address[v]) /\ cache[address[v]].value = buffer[v]
                        /\ buffer[v] \in allocated
      BY DEF ViewBufferAlive
    <2>1. Present(cache, address[v]) /\ cache[address[v]].value = buffer[v] /\ address[v] \in Key
      BY DEF IInv, BufferOK, ViewOK, Owns
    <2>2. buffer[v] \in Value
      BY <2>1 DEF IInv, CacheOK, WellFormed
    <2> QED BY <2>1, <2>2 DEF IInv, AllocatedExact
  <1> QED BY <1>1, Invariance, PTL

\* No buffer is leaked, of two threads that decompress the same block one gives its buffer back,
\* and no state of a compression library stays set up.
THEOREM NoLeak == CopiesRace = FALSE => (Spec => []NothingLeaked)
  <1>1. IInv => NothingLeaked
    <2> SUFFICES ASSUME IInv PROVE NothingLeaked
      OBVIOUS
    <2>1. ASSUME NEW b
          PROVE  b \in allocated <=>
                   b \in {cache[k].value : k \in {x \in Key : Present(cache, x)}}
                          \cup {extracted[v] : v \in {x \in View : pc[x] = "put"}}
      <3>1. CASE b \in Value
        BY <3>1 DEF IInv, AllocatedExact
      <3>2. CASE b \notin Value
        BY <3>2 DEF IInv, CacheOK, WellFormed, TypeOK
      <3> QED BY <3>1, <3>2
    <2> QED BY <2>1 DEF NothingLeaked, IInv
  <1> QED BY <1>1, Invariance, PTL

\* Views of one address share one buffer, views of two addresses do not.
THEOREM BuffersShared == CopiesRace = FALSE => (Spec => []OneBufferPerAddress)
  <1>1. IInv => OneBufferPerAddress
    <2> SUFFICES ASSUME IInv, NEW v \in View, NEW w \in View, pc[v] = "live", pc[w] = "live"
                 PROVE  address[v] = address[w] <=> buffer[v] = buffer[w]
      BY DEF OneBufferPerAddress
    <2>1. /\ Present(cache, address[v]) /\ cache[address[v]].value = buffer[v] /\ address[v] \in Key
          /\ Present(cache, address[w]) /\ cache[address[w]].value = buffer[w] /\ address[w] \in Key
      BY DEF IInv, BufferOK, ViewOK, Owns
    <2> QED BY <2>1 DEF IInv, CacheOK
  <1> QED BY <1>1, Invariance, PTL
=============================================================================
