------------------------------- MODULE Reader -------------------------------
(***************************************************************************)
(* common/src/reader/reader.c: a window of any size over an iterator that  *)
(* delivers its data in blocks.  A window that lies in one block points    *)
(* into it; one that spans blocks is put together in a buffer.             *)
(*                                                                         *)
(* A reader is a record, and an advance goes through the stages "skip"     *)
(* (the iterator skips to the window), "fill" (one block is copied) and    *)
(* "next" (the iterator goes on to the next block).  The iterator belongs  *)
(* to the module that uses this one, which runs it in stages "skip" and    *)
(* "next" and passes the data of its current block.                        *)
(***************************************************************************)
EXTENDS Integers, Sequences

CONSTANT SizeMax   \* a size_t counts modulo SizeMax

ASSUME SizeMaxAssumption == SizeMax \in Nat \ {0}

\* struct SqshReader, with the arguments and locals of the call that runs.
FreshReader ==
    [stage |-> "idle", data |-> <<>>, offset |-> 0, iterator_offset |-> 0, buffer |-> <<>>,
     skip |-> 0, size |-> 0, remaining |-> 0, start |-> 0]

\* From here on reader_fill_buffer copies until the buffer holds size bytes.
Filling(r) ==
    [r EXCEPT !.stage = "fill", !.remaining = (r.size - Len(r.buffer)) % SizeMax,
              !.start = r.iterator_offset]

\* handle_buffered: what the window leaves behind is dropped from the buffer.
Buffered(r, offset, size) ==
    Filling([r EXCEPT !.size = size,
                      !.offset = Len(r.buffer) - r.iterator_offset,
                      !.buffer = SubSeq(r.buffer, offset + 1, Len(r.buffer))])

\* sqsh__reader_advance, up to the skip of the iterator in handle_mapped.
Advanced(r, offset, size) ==
    IF offset >= r.iterator_offset
    THEN [r EXCEPT !.stage = "skip", !.skip = offset - r.iterator_offset + r.offset,
                   !.iterator_offset = 0, !.size = size]
    ELSE Buffered(r, offset, size)

\* handle_mapped after the skip left the window at offset in the current block.
Mapped(r, offset, block) ==
    IF offset + r.size <= Len(block)
    THEN [r EXCEPT !.stage = "idle", !.offset = offset,
                   !.data = SubSeq(block, offset + 1, offset + r.size)]
    ELSE Filling([r EXCEPT !.offset = offset, !.buffer = <<>>])

\* One turn of the loop of reader_fill_buffer.
Filled(r, block) ==
    LET rest == SubSeq(block, r.offset + 1, Len(block))
        n == IF Len(rest) < r.remaining THEN Len(rest) ELSE r.remaining
        buffer == r.buffer \o SubSeq(rest, 1, n)
    IN  IF n = r.remaining
        THEN [r EXCEPT !.stage = "idle", !.offset = 0, !.buffer = buffer, !.data = buffer,
                       !.iterator_offset = r.start]
        ELSE [r EXCEPT !.stage = "next", !.offset = 0, !.buffer = buffer,
                       !.remaining = @ - n, !.start = r.size - r.remaining + n]

\* reader_iterator_next succeeded.
Continued(r) == [r EXCEPT !.stage = "fill"]

\* The call failed; its reader is only cleaned up afterwards.
Broken(r) == [r EXCEPT !.stage = "failed"]

\* What a loop leaves of x after n turns.  A turn leaves alone what has nothing to do any more, so
\* n only has to be large enough.
Turns(Turn(_), x, n) ==
    LET after[k \in 0..n] == IF k = 0 THEN x ELSE Turn(after[k - 1]) IN after[n]
=============================================================================
