---------------------------- MODULE FileContent ----------------------------
(***************************************************************************)
(* The content of a file: file/file_iterator.c, file/fragment_view.c and   *)
(* file/file_reader.c, which is a Reader over a file iterator, with the    *)
(* programs that read whole files or pieces of them through these.         *)
(*                                                                         *)
(* A byte is the number of its place in the file, or Zero where nothing is *)
(* stored.  A stored block is mapped at an address of the archive; the     *)
(* blocks of the file lie one after the other from address 0.              *)
(***************************************************************************)
EXTENDS Reader, Extractor, FiniteSets

CONSTANTS BlockSize,  \* 1 << block_log of the superblock
          ZeroSize,   \* size of the archive's block of zeros
          MapSize,    \* bytes of one slice of the map manager
          Images,     \* the files: their blocks, the fragment's size, how it is stored, and the
                      \* block of fragments it lies in
          Clients,    \* the programs that read
          MinChunk    \* the smallest chunks a program reads one after the other, unless the file
                      \* is one block

ASSUME BlockSizeAssumption == BlockSize \in Nat \ {0}
ASSUME ZeroSizeAssumption  == ZeroSize \in Nat \ {0}
ASSUME MapSizeAssumption   == MapSize \in Nat \ {0}
\* Block kinds: stored as it is, compressed, or not stored at all; a compressed block can have
\* lost its end, hold more than its place in the file takes, or be none at all.
Packed == {"packed", "cut", "long", "broken"}
Block == [kind : {"raw"}, stored : Nat] \cup [kind : {"sparse"}, stored : {0}]
         \cup [kind : Packed, stored : Nat \ {0}]
ASSUME ImagesAssumption ==
    \A i \in Images : /\ i.blocks \in Seq(Block)
                      /\ i.fragment \in 0..(BlockSize - 1)
                      /\ i.last \in 1..BlockSize
                      /\ i.codec \in Codecs
                      /\ i.shared \in [kind : {"raw"} \cup Packed, size : 0..BlockSize, offset : Nat]
                      /\ Len(i.blocks) * BlockSize + i.fragment < SizeMax
ASSUME MinChunkAssumption == MinChunk \in Nat \ {0}
ASSUME ClientsAssumption == Clients \subseteq {"stream", "tasks", "pread", "chunks"}

VARIABLES image,   \* the file
          client,  \* the program, and the piece it asks for
          it,      \* struct SqshFileIterator
          reader,  \* struct SqshReader of a struct SqshFileReader
          task,    \* the block whose task runs
          got,     \* what the program has received
          rv       \* "none", then "ok" or "error" when it is done

readingVars == <<image, client, it, reader, task, got, rv>>

Zero == -1
Foreign == -2    \* a byte of another file
Unlimited == SizeMax - 1
Finished == -1   \* BLOCK_INDEX_FINISHED

BlockCount == Len(image.blocks)
HasFragment == image.fragment > 0

-----------------------------------------------------------------------------
(* What the file holds, said without the iterator. *)

\* Bytes block b stands for: all are BlockSize long but the last one of a file without a
\* fragment.  Block indexes count from 0.
Length(b) == IF b + 1 = BlockCount /\ ~HasFragment THEN image.last ELSE BlockSize

\* Block b is stored from its first byte on; what is not stored is zero.
BlockBytes(b) ==
    LET blk == image.blocks[b + 1]
        n == CASE blk.kind = "raw" -> blk.stored [] blk.kind \in Packed -> Length(b) [] OTHER -> 0
    IN  [k \in 1..Length(b) |-> IF k <= n THEN b * BlockSize + k - 1 ELSE Zero]

\* Every byte, with the fragment behind the blocks.
FileSize == CASE HasFragment -> BlockCount * BlockSize + image.fragment
              [] BlockCount > 0 /\ ~HasFragment -> (BlockCount - 1) * BlockSize + image.last
              [] OTHER -> 0
Content == [k \in 1..FileSize |->
               LET b == (k - 1) \div BlockSize
               IN  IF b < BlockCount THEN BlockBytes(b)[k - b * BlockSize] ELSE k - 1]

\* The bytes of a piece of the file.
Piece(offset, size) == [k \in 1..size |-> Content[offset + k]]

-----------------------------------------------------------------------------
(* The archive below the iterator. *)

Stored(b) == IF b < BlockCount THEN image.blocks[b + 1].stored ELSE 0
AddressOf(b) == LET sum[n \in 0..b] == IF n = 0 THEN 0 ELSE sum[n - 1] + Stored(n - 1) IN sum[b]

\* The bytes a map reader shows from an address on: those of raw blocks can be used.
MapData(address, n) ==
    LET ByteAt(a) == LET b == CHOOSE b \in 0..BlockCount - 1 : a \in AddressOf(b)..(AddressOf(b + 1) - 1)
                     IN  IF image.blocks[b + 1].kind = "raw"
                         THEN b * BlockSize + a - AddressOf(b) ELSE Zero
    IN  [k \in 1..n |-> ByteAt(address + k - 1)]

\* sqsh__map_reader_init: an empty window at an address.
FreshWindow(address) == [address |-> address, width |-> 0]

\* sqsh__file_iterator_init_with_state.
FreshIterator(block, address) ==
    LET w == FreshWindow(address)
    IN  [address |-> w.address, width |-> w.width, block |-> block, sparse |-> 0, data |-> <<>>]

\* sqsh__map_reader_advance: the window moves on and gets a new width.
MapAdvanced(i, offset, width) == [i EXCEPT !.address = @ + offset, !.width = width]

\* get_block_size, with is_last_block.
SizeOfBlock(b) ==
    LET isLast == b = (IF HasFragment THEN BlockCount ELSE BlockCount - 1)
    IN  IF isLast /\ ~HasFragment /\ image.last # BlockSize THEN image.last ELSE BlockSize

-----------------------------------------------------------------------------
(* sqsh_file_iterator_next.  The outcome of a call is the iterator it leaves, what it returns *)
(* and whether *err is set.                                                                   *)

Success(i) == {[it |-> i, more |-> TRUE, err |-> FALSE]}
Error(i) == {[it |-> i, more |-> FALSE, err |-> TRUE]}

\* Mutant of ZeroBlock: what the zero block cannot hold is dropped.
ZeroBlockOnce(i) ==
    LET n == IF i.sparse > ZeroSize THEN ZeroSize ELSE i.sparse
    IN  [i EXCEPT !.sparse = 0, !.data = [k \in 1..n |-> Zero]]

\* map_zero_block
ZeroBlock(i) ==
    LET n == IF i.sparse > ZeroSize THEN ZeroSize ELSE i.sparse
    IN  [i EXCEPT !.sparse = @ - n, !.data = [k \in 1..n |-> Zero]]

\* What comes out of a compressed block of n bytes.
StreamOf(kind, n) ==
    [size |-> CASE kind = "cut" -> n - 1 [] kind = "long" -> n + 1 [] OTHER -> n,
     whole |-> kind # "cut", sound |-> kind # "broken"]
Stream(b) == StreamOf(image.blocks[b + 1].kind, Length(b))

\* map_block_compressed: mapping or decompressing can fail, and the block that comes out must
\* have the size it has in the file.  The map reader must stand on that block.
PackedBlock(i) ==
    LET mapped == MapAdvanced(i, i.width, Stored(i.block))
        blocks == {e \in Extracted(image.codec, Stream(i.block), BlockSize) :
                      e.rv = "ok" /\ e.size = SizeOfBlock(i.block)}
    IN  (IF mapped.address = AddressOf(i.block) /\ blocks # {}
         THEN Success([mapped EXCEPT !.block = @ + 1, !.data = BlockBytes(i.block)]) ELSE {})
        \cup Error(mapped)

\* The loop of map_block_uncompressed ends at a block that it does not look at (RunOver), or, after
\* it has looked at it, because the block does not lie in the same slice (TooFar).  The sparse bytes
\* are those of the last block looked at.
Behind(b) == IF b + 1 # BlockCount THEN BlockSize - Stored(b) ELSE 0
RunSize(i, b) == AddressOf(b) - AddressOf(i.block)
RunOver(i, b, desired) ==
    \/ b = BlockCount
    \/ image.blocks[b + 1].kind # "raw"
    \/ b > i.block /\ (Behind(b - 1) > 0 \/ RunSize(i, b) >= desired)
TooFar(i, b) == /\ RunSize(i, b) + Stored(b) > MapSize - (i.address % MapSize)
                /\ RunSize(i, b) > 0
RunEnds(i, b, desired) == RunOver(i, b, desired) \/ TooFar(i, b)
RunEnd(i, desired) ==
    CHOOSE e \in i.block..BlockCount :
        RunEnds(i, e, desired) /\ \A b \in i.block..(e - 1) : ~RunEnds(i, b, desired)

\* map_block_uncompressed
RawBlocks(i, desired) ==
    LET end == RunEnd(i, desired)
        last == IF RunOver(i, end, desired) THEN end - 1 ELSE end
        mapped == MapAdvanced(i, i.width, RunSize(i, end))
    IN  IF \E b \in i.block..last : Stored(b) > SizeOfBlock(b) THEN Error(i)
        ELSE Success([mapped EXCEPT !.block = end, !.sparse = Behind(last),
                                    !.data = MapData(mapped.address, RunSize(i, end))])
             \cup Error(mapped)

\* map_block
MapBlock(i, desired) ==
    CASE Stored(i.block) = 0 ->
           LET zero == ZeroBlock([i EXCEPT !.sparse = SizeOfBlock(i.block)])
           IN  Success([zero EXCEPT !.block = @ + 1])
      [] image.blocks[i.block + 1].kind \in Packed -> PackedBlock(i)
      [] OTHER -> RawBlocks(i, desired)

\* The first n bytes of the block of fragments that the file's fragment lies in.
SharedBlock(n) ==
    [k \in 1..n |-> IF k - image.shared.offset \in 1..image.fragment
                    THEN BlockCount * BlockSize + k - image.shared.offset - 1 ELSE Foreign]

\* read_fragment_compressed and read_fragment_uncompressed: what the view gets to see of it.
SharedRead ==
    IF image.shared.kind = "raw" THEN {SharedBlock(image.shared.size)}
    ELSE LET blocks == Extracted(image.codec, StreamOf(image.shared.kind, image.shared.size), BlockSize)
         IN  {SharedBlock(e.size) : e \in {b \in blocks : b.rv = "ok"}}

\* apply_fragment: the fragment, if it lies in what was read.
ApplyFragment(data) ==
    LET end == image.shared.offset + image.fragment
    IN  IF end > Len(data) THEN {} ELSE {SubSeq(data, image.shared.offset + 1, end)}

\* map_fragment with sqsh__fragment_view_init: the table, the map reader of the block and its
\* decompression can fail.
MapFragment(i) ==
    Error(i) \cup
    UNION {Success([i EXCEPT !.block = Finished, !.data = d]) : d \in UNION {ApplyFragment(s) : s \in SharedRead}}

\* Mutant of IteratorNext: the zeros that end a block come after the next one.
IteratorNextSparseLate(i, desired) ==
    CASE 0 <= i.block /\ i.block < BlockCount ->
           MapBlock(i, IF desired = 0 THEN 1 ELSE desired)
      [] i.block \notin 0..BlockCount - 1 /\ i.sparse > 0 -> Success(ZeroBlock(i))
      [] i.sparse = 0 /\ i.block = BlockCount /\ HasFragment -> MapFragment(i)
      [] OTHER -> {[it |-> [i EXCEPT !.data = <<>>], more |-> FALSE, err |-> FALSE]}

\* sqsh_file_iterator_next
IteratorNext(i, desired) ==
    CASE i.sparse > 0 -> Success(ZeroBlock(i))
      [] i.sparse = 0 /\ 0 <= i.block /\ i.block < BlockCount ->
           MapBlock(i, IF desired = 0 THEN 1 ELSE desired)
      [] i.sparse = 0 /\ i.block = BlockCount /\ HasFragment -> MapFragment(i)
      [] OTHER -> {[it |-> [i EXCEPT !.data = <<>>], more |-> FALSE, err |-> FALSE]}

-----------------------------------------------------------------------------
(* The programs *)

\* fs_common_read gives the reader a piece that lies in the file and is not empty.
Clamped(offset, size) ==
    IF offset >= FileSize THEN 0 ELSE IF size > FileSize - offset THEN FileSize - offset ELSE size

ReadingInit ==
    /\ image \in Images
    /\ client \in [name : Clients, offset : 0..FileSize, size : 0..FileSize]
    /\ client.name # "pread" => client.offset = 0
    /\ client.name \in {"stream", "tasks"} => client.size = 0
    /\ client.name = "chunks" => client.size >= (IF FileSize > BlockSize THEN MinChunk ELSE 1)
    /\ it = FreshIterator(0, 0) /\ reader = FreshReader
    /\ task = 0
    /\ got = IF client.name = "tasks" THEN [k \in 1..FileSize |-> Zero] ELSE <<>>
    /\ rv = "none"

\* A turn of the loop of sqsh_file_to_stream and of sqsh_easy_file_content.
StreamNext ==
    /\ client.name = "stream" /\ rv = "none"
    /\ \E o \in IteratorNext(it, Unlimited) :
          /\ it' = o.it
          /\ got' = IF o.more THEN got \o o.it.data ELSE got
          /\ rv' = IF o.err THEN "error" ELSE IF o.more THEN "none" ELSE "ok"
    /\ UNCHANGED <<image, client, reader, task>>

\* iterator_worker and stream_worker of one block: an iterator of its own goes one block on, and
\* what it holds is written to where the block belongs in a file that has its size already.
RunTask ==
    /\ client.name = "tasks" /\ rv = "none" /\ task * BlockSize < FileSize
    /\ \E o \in IteratorNext(FreshIterator(task, AddressOf(task)), 1) :
          /\ it' = o.it
          /\ got' = IF o.more
                    THEN [k \in DOMAIN got |->
                             IF k - task * BlockSize \in DOMAIN o.it.data
                             THEN o.it.data[k - task * BlockSize] ELSE got[k]]
                    ELSE got
          /\ rv' = IF o.more THEN "none" ELSE "error"
    /\ task' = task + 1
    /\ UNCHANGED <<image, client, reader>>

\* Mutant of TasksDone: a task is scheduled for one block more than the file has.
TasksDoneLate ==
    /\ client.name = "tasks" /\ rv = "none" /\ task * BlockSize > FileSize
    /\ rv' = "ok"
    /\ UNCHANGED <<image, client, it, reader, task, got>>

\* All tasks have run.
TasksDone ==
    /\ client.name = "tasks" /\ rv = "none" /\ task * BlockSize >= FileSize
    /\ rv' = "ok"
    /\ UNCHANGED <<image, client, it, reader, task, got>>

-----------------------------------------------------------------------------
(* A file reader: the stages of sqsh__reader_advance over sqsh_file_iterator_skip2 and next. *)

\* fs_common_read: a new reader and, unless there is nothing to read, one advance.
ReadPiece ==
    /\ client.name = "pread" /\ rv = "none" /\ reader.stage = "idle"
    /\ LET size == Clamped(client.offset, client.size)
       IN  IF size = 0 THEN rv' = "ok" /\ UNCHANGED reader
           ELSE reader' = Advanced(reader, client.offset, size) /\ UNCHANGED rv
    /\ UNCHANGED <<image, client, it, task, got>>

\* The loop of fuzzer/simple.c: chunk after chunk until the file's size is reached.
ReadChunk ==
    /\ client.name = "chunks" /\ rv = "none" /\ reader.stage = "idle"
    /\ LET left == FileSize - Len(got)
       IN  IF left = 0 THEN rv' = "ok" /\ UNCHANGED reader
           ELSE /\ reader' = Advanced(reader, Len(reader.data),
                                      IF client.size > left THEN left ELSE client.size)
                /\ UNCHANGED rv
    /\ UNCHANGED <<image, client, it, task, got>>

\* What became of a call: when it is back, the program takes the window.
Settled(r) ==
    /\ reader' = r
    /\ got' = IF r.stage = "idle" THEN got \o r.data ELSE got
    /\ rv' = CASE r.stage = "failed" -> "error"
               [] r.stage = "idle" /\ client.name = "pread" -> "ok" [] OTHER -> "none"

\* sqsh_file_iterator_skip2 up to its loop: whole blocks are left out, without looking at them.
\* The one the iterator is in counts as one of those to come.
SkipBlocks ==
    /\ reader.stage = "skip" /\ reader.skip >= Len(it.data)
    /\ LET rest == reader.skip - Len(it.data)
           n == rest \div BlockSize + (IF it.data # <<>> THEN 1 ELSE 0)
           last == IF it.block = Finished THEN Finished
                   ELSE IF it.block + n > BlockCount THEN BlockCount ELSE it.block + n
       IN  IF n = 0 /\ it.block # 0
           THEN /\ Settled(Mapped(reader, rest % BlockSize, it.data))
                /\ UNCHANGED it
           ELSE \/ /\ it' = [MapAdvanced(it, IF last = Finished THEN 0
                                             ELSE AddressOf(last) - AddressOf(it.block), 0)
                             EXCEPT !.sparse = 0, !.block = last]
                   /\ reader' = [reader EXCEPT !.stage = "skipping", !.skip = rest % BlockSize]
                   /\ UNCHANGED <<got, rv>>
                \/ Settled(Broken(reader)) /\ UNCHANGED it
    /\ UNCHANGED <<image, client, task>>

\* The window starts in the block the iterator is in.
SkipNothing ==
    /\ reader.stage = "skip" /\ reader.skip < Len(it.data)
    /\ Settled(Mapped(reader, reader.skip, it.data))
    /\ UNCHANGED <<image, client, it, task>>

\* A turn of the loop of sqsh_file_iterator_skip2.
SkipNext ==
    /\ reader.stage = "skipping" /\ Len(it.data) <= reader.skip
    /\ \E o \in IteratorNext(it, reader.size) :
          /\ it' = o.it
          /\ Settled(IF o.more THEN [reader EXCEPT !.skip = @ - Len(it.data)] ELSE Broken(reader))
    /\ UNCHANGED <<image, client, task>>

\* The end of that loop.
SkipEnd ==
    /\ reader.stage = "skipping" /\ reader.skip < Len(it.data)
    /\ Settled(Mapped(reader, reader.skip, it.data))
    /\ UNCHANGED <<image, client, it, task>>

Fill ==
    /\ reader.stage = "fill"
    /\ Settled(Filled(reader, it.data))
    /\ UNCHANGED <<image, client, it, task>>

FillNext ==
    /\ reader.stage = "next"
    /\ \E o \in IteratorNext(it, reader.remaining) :
          it' = o.it /\ Settled(IF o.more THEN Continued(reader) ELSE Broken(reader))
    /\ UNCHANGED <<image, client, task>>

ReadingNext ==
    \/ StreamNext \/ RunTask \/ TasksDone \/ ReadPiece \/ ReadChunk
    \/ SkipBlocks \/ SkipNothing \/ SkipNext \/ SkipEnd \/ Fill \/ FillNext

\* A program that reads goes on until it has its answer.
ReadingSpec == ReadingInit /\ [][ReadingNext]_readingVars /\ WF_readingVars(ReadingNext)

-----------------------------------------------------------------------------
(* Properties *)

\* The bytes a program asks for.
Wanted == IF client.name # "pread" THEN Content
          ELSE Piece(client.offset, Clamped(client.offset, client.size))

\* What a program has received is what the file holds there: a prefix of the file in a loop,
\* the piece asked for by offset and size (file_to_stream, easy_file_content, fs_common_read).
ReceivesContent ==
    CASE client.name \in {"stream", "chunks"} -> Len(got) <= FileSize /\ got = Piece(0, Len(got))
      [] client.name = "pread" -> got \in {<<>>, Wanted}
      [] client.name = "tasks" -> \A k \in DOMAIN got : got[k] \in {Zero, Content[k]}

\* Success means that everything asked for has been received: no block is left out, no
\* sparse run cut short, by the loops, the block tasks and the reader alike.
NothingLeftOut == rv = "ok" => got = Wanted

\* Every read ends: neither the loops over a file nor the loops of the reader go on for ever.
ReadEnds == <>(rv # "none")
=============================================================================
