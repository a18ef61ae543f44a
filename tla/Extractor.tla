------------------------------ MODULE Extractor ------------------------------
(***************************************************************************)
(* extract/extractor.c and the decompressors behind it, zlib.c, lz4.c,     *)
(* lzma.c and zstd.c: a block is decompressed by one write between an init *)
(* and a finish.                                                           *)
(*                                                                         *)
(* A stream says what the compression libraries make of a block: whether   *)
(* it is sound, whether it is whole, and the bytes that come out of it.    *)
(***************************************************************************)
EXTENDS Integers

CONSTANTS Codecs  \* the decompressors; "none" is one that was not compiled in

ASSUME CodecsAssumption == Codecs \subseteq {"zlib", "lzma", "lz4", "zstd", "none"}

\* struct SqshExtractor; open counts the states of the library that are set up.
NoExtractor == [rv |-> "error", impl |-> FALSE, open |-> 0, size |-> 0, ended |-> FALSE]

\* sqsh_zlib_init, sqsh_lz4_init, sqsh_lzma_init, sqsh_zstd_init: the state of the library is set
\* up, or there is none, zstd's being taken down when it does not take its parameter.
ImplInit(e) == {e, [e EXCEPT !.rv = "ok", !.open = 1]}

\* sqsh__extractor_init: the implementation and the room for the block can be missing.
ExtractorInit(codec) ==
    {NoExtractor} \cup (IF codec = "none" THEN {}
                        ELSE {[e EXCEPT !.impl = (e.rv = "ok")] : e \in ImplInit(NoExtractor)})

\* sqsh_zlib_decompress: a stream that ends early, or has more than the room takes, is not an
\* error yet.
InflateWrite(e, stream, room) ==
    IF ~stream.sound THEN {[e EXCEPT !.rv = "error"]}
    ELSE {[e EXCEPT !.size = IF stream.size > room THEN room ELSE stream.size,
                    !.ended = stream.whole /\ stream.size <= room]}

\* sqsh_lzma_decompress, for lzma and xz alike.
LzmaWrite(e, stream, room) == InflateWrite(e, stream, room)

\* sqsh_lz4_decompress: too much for the room is an error, a block cut short may be one.
Lz4Write(e, stream, room) ==
    (IF stream.sound /\ stream.size <= room THEN {[e EXCEPT !.size = stream.size]} ELSE {})
    \cup (IF stream.sound /\ stream.whole /\ stream.size <= room THEN {} ELSE {[e EXCEPT !.rv = "error"]})

\* sqsh_zstd_decompress: the loop ends with the input.  Of a frame that is too long the library
\* may have taken all the input, or cannot go on.
ZstdWrite(e, stream, room) ==
    (IF stream.sound THEN {[e EXCEPT !.size = IF stream.size > room THEN room ELSE stream.size]} ELSE {})
    \cup (IF stream.sound /\ stream.size <= room THEN {} ELSE {[e EXCEPT !.rv = "error"]})

\* sqsh__extractor_write
ExtractorWrite(e, codec, stream, room) ==
    CASE ~e.impl -> {[e EXCEPT !.rv = "error"]}
      [] e.impl /\ codec = "zlib" -> InflateWrite(e, stream, room)
      [] e.impl /\ codec = "lzma" -> LzmaWrite(e, stream, room)
      [] e.impl /\ codec = "lz4" -> Lz4Write(e, stream, room)
      [] e.impl /\ codec = "zstd" -> ZstdWrite(e, stream, room)

\* sqsh_zlib_finish, which wants the end of the stream.
InflateFinish(e) == [e EXCEPT !.open = @ - 1, !.rv = IF e.ended THEN "ok" ELSE "error"]

\* sqsh_lzma_finish, which leaves nothing without it.
LzmaFinish(e) == [InflateFinish(e) EXCEPT !.size = IF e.ended THEN @ ELSE 0]

\* sqsh_lz4_finish and sqsh_zstd_finish take what there is.
StreamFinish(e) == [e EXCEPT !.open = @ - 1, !.rv = "ok"]

ImplFinish(e, codec) ==
    CASE codec = "zlib" -> InflateFinish(e) [] codec = "lzma" -> LzmaFinish(e) [] OTHER -> StreamFinish(e)

\* Mutant of ExtractorFinish: the implementation stays, for the clean-up to finish it again.
ExtractorFinishAgain(e, codec) ==
    IF e.impl THEN ImplFinish(e, codec) ELSE [e EXCEPT !.rv = "error"]

\* sqsh__extractor_finish
ExtractorFinish(e, codec) ==
    IF e.impl THEN ImplFinish([e EXCEPT !.impl = FALSE], codec) ELSE [e EXCEPT !.rv = "error"]

\* sqsh__extractor_cleanup: what was begun and not finished is finished.
ExtractorCleanup(e, codec) ==
    IF e.impl THEN [ImplFinish([e EXCEPT !.impl = FALSE], codec) EXCEPT !.rv = e.rv] ELSE e

\* The function extract of extract_manager.c: init, write, finish, each if the one before did
\* not fail, and the clean-up in any case.
Extracted(codec, stream, room) ==
    LET inits == ExtractorInit(codec)
        writes == UNION {IF e.rv = "ok" THEN ExtractorWrite(e, codec, stream, room) ELSE {e} : e \in inits}
        finishes == {IF e.rv = "ok" THEN ExtractorFinish(e, codec) ELSE e : e \in writes}
    IN  {ExtractorCleanup(e, codec) : e \in finishes}
=============================================================================
