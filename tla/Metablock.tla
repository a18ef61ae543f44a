------------------------------ MODULE Metablock ------------------------------
(***************************************************************************)
(* metablock/metablock_iterator.c and metablock/metablock_reader.c: the    *)
(* tables of an archive are runs of metablocks, a header and up to         *)
(* MetaSize bytes each, stored as they are or compressed.  A metablock     *)
(* reader is a Reader over a metablock iterator.                           *)
(*                                                                         *)
(* A table is the sequence of its metablocks, each with its address, the   *)
(* size it is stored in and the bytes it holds.  Addresses count from the  *)
(* start of the table, and the table ends at the upper limit of the map    *)
(* reader.                                                                 *)
(***************************************************************************)
EXTENDS Reader, SequencesExt

CONSTANTS MetaSize,   \* SQSH_METABLOCK_BLOCK_SIZE
          MetaHeader  \* sizeof(struct SqshDataMetablock)

ASSUME MetaSizeAssumption   == MetaSize \in Nat \ {0}
ASSUME MetaHeaderAssumption == MetaHeader \in Nat \ {0}

\* struct SqshMetablockIterator with its map reader, after sqsh__metablock_iterator_init.
FreshMetablocks(start) == [ok |-> TRUE, address |-> start, outer |-> 0, block |-> 0, data |-> <<>>]

\* process_next_header: the window moves past the metablock, onto the header of the next.
\* What stands where no header is cannot be read as one: a table that is used right never asks.
NextHeader(table, i) ==
    LET address == i.address + i.outer
        found == {b \in 1..Len(table) : table[b].address = address}
    IN  IF \E b \in found : table[b].stored <= MetaSize
        THEN LET b == CHOOSE b \in found : TRUE
             IN  [i EXCEPT !.address = address, !.block = b, !.outer = table[b].stored]
        ELSE [i EXCEPT !.ok = FALSE]

\* map_data: the window moves on to the contents.
MetaMapped(table, i) ==
    IF i.ok THEN [i EXCEPT !.address = @ + MetaHeader, !.data = table[i.block].bytes] ELSE i

\* sqsh__metablock_iterator_next
MetaNext(table, i) == MetaMapped(table, NextHeader(table, i))

\* A turn of the loop of sqsh__metablock_iterator_skip, with size bytes in the metablock that is
\* left: only the last one is opened, those before it are taken to be full.
SkipTurn(table, s) ==
    LET h == NextHeader(table, s.it)
        m == MetaMapped(table, h)
        rest == s.offset - s.size
        Left(i) == [it |-> i, offset |-> rest, size |-> MetaSize]
    IN  CASE s.offset < s.size \/ ~s.it.ok -> s
          [] s.offset >= s.size /\ s.it.ok /\ ~h.ok -> Left(h)
          [] s.offset >= s.size /\ s.it.ok /\ h.ok /\ rest < MetaSize ->
               Left([m EXCEPT !.ok = rest < Len(m.data)])
          [] OTHER -> Left([h EXCEPT !.address = @ + h.outer + MetaHeader, !.outer = 0])

\* sqsh__metablock_iterator_skip: every turn but the last passes a metablock.
MetaSkip(table, i, offset, size) ==
    Turns(LAMBDA s : SkipTurn(table, s), [it |-> i, offset |-> offset, size |-> size], Len(table) + 1)

\* struct SqshMetablockReader, after sqsh__metablock_reader_init.
FreshMetaReader(start) == [it |-> FreshMetablocks(start), reader |-> FreshReader]

\* A stage of sqsh__reader_advance over the metablock iterator.
MetaTurn(table, m) ==
    CASE m.reader.stage = "skip" ->
           LET s == MetaSkip(table, m.it, m.reader.skip, Len(m.it.data))
           IN  [it |-> s.it, reader |-> IF s.it.ok THEN Mapped(m.reader, s.offset, s.it.data)
                                        ELSE Broken(m.reader)]
      [] m.reader.stage = "fill" -> [m EXCEPT !.reader = Filled(@, m.it.data)]
      [] m.reader.stage = "next" ->
           LET i == MetaNext(table, m.it)
           IN  [it |-> i, reader |-> IF i.ok THEN Continued(m.reader) ELSE Broken(m.reader)]
      [] OTHER -> m

\* All stages: the iterator goes on at most once for each metablock, and once to no other.
MetaRun(table, m) == Turns(LAMBDA x : MetaTurn(table, x), m, 2 * Len(table) + 4)

\* sqsh__metablock_reader_advance and what it returns.
MetaAdvanced(table, m, offset, size) ==
    MetaRun(table, [m EXCEPT !.reader = Advanced(@, offset, size)])
MetaOk(m) == m.reader.stage = "idle"
MetaData(m) == m.reader.data
=============================================================================
