# A TLA+ model of sqsh-tools

sqsh-tools reads (and partly writes) squashfs archives: `libsqsh` is the reading
library, `tools/` holds `sqsh-unpack`, `sqshfs`, `sqsh-ls`, `sqsh-cat`, `sqsh-stat` and
`sqsh-xattr`, `libmksqsh` is the beginning of a writer.  This directory holds
TLA+ specifications of the library and of the programs, the TLC runs that check them, and proofs
checked by TLAPS.

## 1. The system

All threads of a program share one `SqshArchive`.  Everything else (iterators, readers,
files, traversals) belongs to the thread that created it and reaches the shared parts
through it.

| component | source | state it keeps | operations |
|---|---|---|---|
| mappers | `mapper/*_mapper.c`, `posix/mmap_mapper.c` | the open source (file, HTTP, memory), for HTTP a lock, a cached block and the headers seen first | open, map, unmap, close |
| map manager | `mapper/map_manager.c` | `maps`: slice index -> (reference count, slice); `lru`; a mutex | get, retain, release, cleanup |
| map iterator | `mapper/map_iterator.c` | current slice (one reference), `data`, `next_index` | init, copy, next, skip, cleanup |
| reader windows | `common/src/reader`, `mapper/map_reader.c`, `metablock/metablock_reader.c` | offset and size of a window over an iterator, a buffer when it spans blocks | advance |
| extract manager | `extract/extract_manager.c` | `cache`: address -> (reference count, buffer); `lru`; a mutex | uncompress, retain, release |
| extract view | `extract/extract_view.c` | address and buffer (one reference) | init, copy, cleanup |
| decompressors | `extract/*.c` | a stream and its output buffer | init, write, finish, cleanup |
| archive | `archive/archive.c` | bitmap of the tables set up, the tables, a recursive lock | open, six table getters, close |
| inode map | `archive/inode_map.c` | inode number -> reference, growing, or the export table | get, set |
| tables | `table/*.c` | sizes and a reader per table | lookup |
| metablock iterator | `metablock/metablock_iterator.c` | position (outer, inner), an extract view | next, skip |
| inodes | `file/file.c`, `file/inode_*.c` | a window over the inode, its type | open, the payload's getters |
| file iterator, reader, fragment view | `file/*.c` | block index, compressed offset, sparse rest, views | next, skip, advance |
| mt file iteration | `posix/file_ext.c` | a heap object with a counter and an error, shared by caller and tasks | schedule, one task per block, final callback |
| directory iterator | `directory/*.c` | position, remaining size, header counts | next, lookup |
| xattr iterator | `xattr/xattr_iterator.c` | position, remaining entries, value reader | next, lookup |
| path resolver, walker | `tree/path_resolver.c`, `walker.c` | working directory, entry iterator, symlink depth | up, down, next, lookup, resolve |
| tree traversal | `tree/traversal.c` | stack of directories, depth, state | next |
| easy API | `easy/*.c` | none between calls | whole-file, whole-directory helpers |
| sqsh-unpack | `tools/src/unpack.c` | pass, thread pool, semaphore for open files | two passes over the tree |
| sqshfs | `tools/src/fs*.c` | handles with directory iterators | lookup, getattr, readdir, read, attributes |
| sqsh-ls, -cat, -xattr, -stat | `tools/src/*.c` | exit status | once per path |
| libmksqsh | `libmksqsh/src` | block buffer, offsets | write, flush |

How they interact.  An iterator calls the map manager for slices; readers and
metablock/file iterators call map iterators, and extract views for what is compressed; views
call the extract manager, which runs a decompressor.  Both managers drop their mutex in the middle of a
miss (mapping and decompressing are slow), so other threads get in between lookup and insertion.
The archive's getters are called on demand from everywhere, one from within another.  Tables are read
through metablock readers, inodes through the inode table, directories and attributes through
readers that an inode starts; every inode opened is entered in the inode map.
`file_ext.c` hands block tasks to a thread pool and shares one heap object with them.

What is hard: cache entries evicted, replaced or freed while another thread uses them;
two threads that miss on the same key; errors between taking and giving back a reference or a
lock; a source that changes between two downloads; who frees an object shared by a caller and its
tasks, and who reports the error; nested set-up under one lock; a set-up of many steps any of which
fails; and, in the sequential parts, positions and sizes that must agree wherever items cross
blocks, lookups that jump, and answers to a caller that must not hide a failure.

What makes each component correct:

* *caches*: a reference count equals the references that exist; what somebody holds is
  alive; what nobody holds is gone; one entry per key; calls return.
* *archive*: a table is set up once, and handed out only when usable; an open that fails leaves
  nothing; everything mapped is from one version of the source.
* *mt iteration*: every block at most once, then exactly one final callback, which reports any
  failure; nobody uses the object after it was freed.
* *iterators and readers*: the bytes seen are the bytes of the file or table, whatever the mix
  of next, skip and window sizes; success is answered only with everything.
* *directories, inodes, attributes*: a listing has every entry once and in order; a lookup finds
  what a listing shows; an inode number told to the kernel keeps standing for the same file.
* *tree*: every entry once, matching begin and end of directories, termination on
  cyclic archives and symlinks; up is the inverse of down.
* *tools*: every file is extracted or the error reported; no more files open than allowed;
  whatever fails, what was acquired is given back.

## 2. The modules

| module | models | uses |
|---|---|---|
| `RcCache` | the reference counting map and LRU ring of cextras (external), as operators | |
| `MapManager` | `map_manager.c`, `map_iterator.c`, `map_slice.c` | `RcCache` |
| `Extractor` | `extractor.c` and the four decompressors, as operators | |
| `ExtractManager` | `extract_manager.c`, `extract_view.c` | `RcCache`, `Extractor` |
| `ArchiveOpen` | opening and closing in `archive.c`, `mapper.c` and the three mappers | |
| `Archive` | the getters of `archive.c`, the set-up half of `inode_map.c` | |
| `FileJob` | what the multithreaded calls promise (abstract) | |
| `FileIteratorMt` | `posix/file_ext.c` | instantiates `FileJob` |
| `Reader` | `reader.c`, as operators | |
| `FileContent` | `file_iterator.c`, `fragment_view.c`, `file_reader.c`, and the programs that read with them | `Reader`, `Extractor` |
| `Metablock` | `metablock_iterator.c`, `metablock_reader.c` | `Reader` |
| `Table` | `table.c` and the id, export and attribute lookups | `Metablock` |
| `Inode` | `file.c`, `inode_*.c`, get and set of `inode_map.c` | `Table` |
| `DirectoryIterator` | `directory_iterator.c`, `directory_index_iterator.c` | `Inode` |
| `XattrIterator` | `xattr_iterator.c`, `xattr_table.c` | `Inode` |
| `Layout` | no code: what a writer lays out in the tables the five modules above read | `DirectoryIterator`, `XattrIterator` |
| `Sqshfs` | `fs3.c`, `fs-common.c`: the composition of these modules | `Layout` |
| `FrontEnds` | `easy/*.c`, `ls.c`, `cat.c`, `xattr.c`, `stat.c`, `fs2.c` | |
| `TreeWalk` | what a traversal of a directory tree promises (abstract) | |
| `TreeTraversal` | `tree/traversal.c` | instantiates `TreeWalk` |
| `PathLookup` | what resolving paths in an archive promises (abstract) | |
| `PathResolver` | `tree/path_resolver.c`, `tree/walker.c`, `sqsh_open` and `sqsh_file_symlink_resolve` of `file/file.c` | instantiates `PathLookup` |
| `Unpack` | `tools/src/unpack.c` | |
| `MC_...` | instances for TLC | |
| `..._proofs` | proofs | |

Definitions named "Mutant of X" in a module are versions of X with a plausible
mistake in them; nothing uses them.  Replacing X by its mutant makes TLC find one of the
module's properties violated, which shows that the property depends on X being right.

### RcCache

A map is a function from keys to `[refs, value]`, absent keys having no references; a
ring is its slots plus the slot touched last.  `RcRetain`, `RcPut`, `RcRelease`,
`LruTouch`/`RcTouch` and `LruDrained` are the functions of cextras both managers call.
`RcPut` keeps a value that is already there (the managers rely on it, `map_manager.c:162`),
and an LRU slot holds a reference of its own.

### MapManager

`maps`, `lru`, `lock` are the manager's fields, `mapped` the slices between `map()` and
`unmap()`; per iterator there are `mapping`, `data`, `next` and `pc`, the point
its running call has reached.  A critical section without a gap is one step;
`sqsh__map_manager_get` is `GetLookup` - (`GetLoad` - `GetPut`) - `GetTouch`, because it drops
the mutex while loading and holds it from the lookup or put to the touch.  Mapping, putting and
touching can fail (`GetLoadFails`, `GetPutFails`, `GetTouchFails`).  An iterator whose call
failed is only cleaned up afterwards.  The mutex variable is only set between two steps of
one critical section.

### Extractor and ExtractManager

An extractor is a record with its output size, result and the library states it holds open.
A stream says what the libraries make of a block: sound or broken, whole or cut, longer than the
buffer or not; each decompressor's `write` and `finish` turns that into a result and a size.

`ExtractManager` is as above with views instead of iterators.  Copying a view retains its buffer
without the mutex (`extract_manager.c:178`), so it is two steps, `CopyRead` and `CopyWrite`; when the
count changed in between, either value can be the one that stays.  The constant
`CopiesRace` says whether another call may overlap a copy.  A touch that fails leaves a
reference behind nobody gives back; the history variable `lost` counts those.

### ArchiveOpen

`got` is how many of the set-ups of `sqsh__archive_init` have succeeded, in the order of the code;
each is a step that can fail, and `CleanUp` undoes them.  `mapper` is the opened source,
`descriptors` the process's descriptor table, `source` what the server publishes at the moment.
A thread that maps a remote block takes the lock, downloads (`Transfer`: the server may
have published something else since), compares size and time with the first download (`Check`), and
unlocks; `work` is where it is, `mapped` what it has.

### Archive

`ready` is the bitmap, `live` how often a table was set up and not cleaned up, `owner` and
`depth` the recursive lock, `step`, `getter` and `nested` the getters a thread is in (the inode map's
getter calls the export table's).  `image` is what the superblock says.

### FileIteratorMt and FileJob

`main` is the point the calling thread has reached, `task[b]` the point the task of block b
has.  `alive` is the life of the heap object, `remaining` and `rv` its counter and error, `err`
the caller's local error.  History variables record what was delivered, whether anything
failed and what was reported.  `Settle` is the caller's `atomic_fetch_sub` for the blocks it did
not schedule.  `FileJob` has only `delivered` and `report`; `PromiseKept` says that
`FileIteratorMt` implements it, with these two variables mapped to themselves.

### Reader and FileContent

A reader is a record that goes through the stages of an advance: skip the iterator to the
window, and either point into the block or fill the buffer from one block after the other.  The
subtraction of sizes in `reader_fill_buffer` is modulo `SizeMax`, as a `size_t` is.

A byte of a file is its place in the file, or `Zero`; what a client received can so be compared
with `Content`.  `FileContent` has one iterator (block index, compressed offset, sparse rest, data) and one
client: `stream` is the loop of `sqsh_file_to_stream`, `tasks` the block tasks of `file_ext.c`,
each with an iterator of its own that skips to its block, `pread` the reader of `sqsh_easy_file_content` and
of sqshfs, `chunks` readers of one piece after the other as in the fuzzer.  A block is raw, compressed,
sparse, or damaged in one of three ways; what is done with a damaged one is up to `Extractor`.  The loop
of `map_block_uncompressed` over raw blocks is said by where it ends (`RunEnd`).

### Metablock, Table, Inode, DirectoryIterator, XattrIterator

Operators over records.  A table is the sequence of its metablocks, each with its address; its bytes are
pairs of an item and a place in it, so that a window that is off by one shows no item, and
the loaded record is exactly what lies under the window.  `Advance` runs a reader over
the metablocks with their headers, stored or compressed, `TableGet` the two levels of a
table.  `InodeRead` follows `sqsh__file_init`: header, type, payload, then `Opened` calls `MapSet`, the
inode map with its conflict check.  The growing map allocates a block of references at a time (`InodeBlock`),
and `MapSet` is told whether there is memory for one: without it a number whose block the map does not have
(`HasBlock`) is not stored, and success is told all the same.  A directory is read with `DirectoryNext`, and `DirectoryLookup` goes
through the index first, with an offset of 16 bits as in the code; `XattrNext`, `XattrLookup` and the list of names are
those of the attributes, whose values lie in place or are shared.

### Sqshfs

A step is a request of the kernel with the whole handler.  `archive` is one of the archives
of the instance, `map` the inode map, `handle` the open directory handles with their iterators,
`known` the inodes the kernel was told of and may ask for, `last` the last answer.  The inode map is
locked in each access and the kernel uses a handle for one request at a time, so steps of
different handles interleave between requests.  `scarce` says whether memory may be short: then every request
may find none for the inode map (`Memory`), and an inode that the kernel was told of may be lost (`Lost`);
requests for it are refused (`Refused`) until a lookup comes to it again.  `MC_Sqshfs` writes an archive
the way a writer lays it out, so that what is expected (`Holds`, the tree the archive was written from) and
what is read (the tables) are two different things.

`Layout` says what such a writer does, for any archive: metablocks are full but the last (`Cut`), the bytes
at a place are those of the item that begins there (`Begins`), an inode's size, number and owners are those of
its reference (`InodeLaidOut`), fragments and entries of a directory follow each other and ascend
(`ListingLaidOut`), an index leads to the fragments it names (`IndexLaidOut`), and keys and values follow
each other with the length the lookup table counts (`AttributesLaidOut`).  It says nothing of what the
iterators do.  An archive is `sound` when it is laid out like that: `SoundArchivesAssumption`, which TLC
evaluates for every archive of every run of `Sqshfs`.

### FrontEnds

Each function of the easy API, each program and each handler of `fs2.c` is a record: what it acquires in
which order, what it gives back, what it goes through, what it hands out.  One step acquires one thing,
or fails to (`StepFails`), or finds that there is nothing to acquire, which is no failure (`StepAbsent`:
a path that does not exist for `sqsh_easy_file_exists`, an archive without compression options for
`sqsh-stat`), or goes through one item; `Return` gives back what the function's exit does.  `held` is what
is acquired and not given back.  In `sqsh_easy_tree_traversal` the listing of a directory below the start
can end early without a word (`ListingLost`), and in `sqsh_easy_xattr_keys` a name that cannot be copied
ends the process (`KeyCopyFails`).

### TreeTraversal and TreeWalk

The archive is a function `entries` from directories to listings, any function: directories may
contain each other and themselves.  `stack`, `current` (an index of the stack for the pointer
`current_iterator`), `depth`, `state` and `max_depth` are the traversal's fields; `err`
and `more` are what the last call left in `*err` and returned.  A step is one call of
`sqsh_tree_traversal_next`, named after the function it dispatches to: `InitNext`,
`BeginRecurses`/`BeginOpenFails`/`BeginNext` (`directory_begin_next`), `FileNext`/`WalkOver`
(`file_next`); `Cleanup` empties the stack once the caller is done.  A directory that cannot be
opened, a listing that fails and a file that cannot be loaded are alternatives of these steps.

`TreeWalk` knows no stack: its state is the visit the caller sees, a kind and a trail of
(directory, position) pairs, and it says which visit follows which.  `TreeTraversal` implements
it with the trail that `sqsh_tree_traversal_path_segment` reads off the stack (`WalksInOrder`).

### PathResolver and PathLookup

An archive (`img`) gives every directory its listing and its parent, every symlink its target;
inodes stand for inode references and inode numbers.  `cwd`, `iter`, `current` and `links` are the
resolver's `cwd`, `iterator`, `current_inode_ref` and `current_symlink_depth`; `known` is the growing
inode map of the archive, which outlives a resolver and here always has memory.  `path_resolve` and
`sqsh__path_resolver_follow_symlink` call each other: `frames` holds the running activations with
their segments left, `follow_symlinks` and `is_dir`, and a step is one turn of the loop
(`NotADirectory`, `Dot`, `DotDot`, `NameFails`, `NameFound`) or the end of an activation (`Return`),
after which the caller's loop over symlinks goes on.  A walker is used between resolves by `Walk`
(up, down, next, lookup, revert, to the root); `Open` and `SymlinkResolve` resolve with a
resolver of their own, and `OpenFile` opens what was found and finds its parent
(`apply_parent`).  Every load and every opening of a directory may fail (`rv = "FAULT"`).  Reading a
file that was not loaded, or was never initialised, ends in `rv = "UNDEFINED"`; no property claims
anything of what follows.  After a failed load the caller of a walker can only free it.

`PathLookup` has no recursion: a lookup is one list of segments, and a symlink puts its target in
front of the segments left.  `PathResolver` implements it (`LooksUpPaths`) with the segments
of its activations, innermost first.  Archives are well-formed (names unique, every directory the
entry of one directory); corrupted ones appear as failing loads.  With an export table the inode map knows
every inode from the start, with which going up succeeds wherever it does here.

### Unpack

The modules above are what sqsh-unpack is built on, so `Unpack` uses their promises: the traversal
is a sequence of visits as `TreeWalk` allows them, with directories cut short by a failing
listing (`CutShort`); a job of the pool is a `FileJob`, seen from its final callback
`extract_file_after`, which is three steps (`Finish`, `Post`, `Count`).  `main` is the point the main
thread has reached, `pass` the pass, `pos` the number of visits made; `sem` and `errors` are the
semaphore and `extraction_errors`.  Of the file system it keeps what the second pass is for: where
directories are, whether their metadata is right (`dir`; creating an entry changes its directory's time),
which files are complete (`out`), what was in the way before (`clutter`), and the working
directory, because paths are relative.  `lost` records the two errors nobody counts, a listing that
fails and a file where a directory belongs.

## 3. The runs

| run | instance | states | shows |
|---|---|---|---|
| `map_manager` | 2 iterators, 3 slices, 1 LRU slot, 4 mappings | 141 865 | no slice unmapped in use (`SlicesMapped`), exact counts (`RefsExact`), no leak (`NothingLeaked`), bounded memory (`MappedBound`), every call returns (`CallsReturn`) |
| `extract_manager` | 3 views, 2 addresses, 1 LRU slot, 5 decompressors, no overlapping copies | 165 177 | the same for decompressed blocks (`ViewBufferAlive`), and one buffer per address (`OneBufferPerAddress`) |
| `file_iterator_mt` | 2 data blocks and a fragment, 2 workers | 1 508 | who frees, who reports, no error lost, `FileJob` implemented |
| `file_iterator_mt_scheduler` | 2 data blocks, 1 worker | violation | the scheduling loop reads a freed object: finding 1 |
| `archive` | 2 threads, all sets of optional tables, both export flags | 217 832 | tables set up and cleaned up once (`SetUpOnce`), handed out only when usable (`HandedOutAlive`), no self-deadlock (`CallsReturn`) |
| `archive_open` | 2 threads, 3 descriptors, 3 mappers, sources of up to 2 blocks | 53 770 | everything mapped is from one version of a source that changes (`OneVersion`); a failed open and a close leave nothing (`LeavesNothing`) |
| `file_content` | all mixes of up to 3 raw, sparse and compressed blocks and a fragment, damaged ones, 4 clients | 196 370 | what is received is the content (`ReceivesContent`), success only with all of it (`NothingLeftOut`), every reading loop ends (`ReadEnds`) |
| `sqshfs` | 8 archives, 2 directory handles up to symmetry, memory short or not | 745 049 | listings complete and in order (`ListsDirectory`), lookups that agree with them (`LooksUpEntry`), inodes that stay valid, and are refused at most where memory was short (`InodesResolve`), attributes (`AnswersXattrs`) |
| `front_ends` | every function and program, 2 paths, 2 items each | 214 389 | whatever fails, nothing is kept (`KeepsOnlyResult`), and who is told of success has everything (`TellsFailure`) |
| `tree_traversal` | all archives of 2 directories with at most 2 entries, depth limits 0, 1, 2 and beyond, recursion check from depth 3 | 20 214 | `TreeWalk` implemented (`WalksInOrder`), the path readable after every visit (`PathReadable`), a bounded stack (`StackBounded`) and an end (`WalkEnds`) on cyclic archives |
| `path_resolver` | 16 archives of 3 nested directories and 2 symlinks, all paths of up to 2 segments and some longer ones, at most 2 + 1 symlinks | 47 251 | `PathLookup` implemented (`LooksUpPaths`), a usable walker after every call (`WalkerUsable`), the recorded parent of what was opened right (`OpenedInParent`), an end for every symlink cycle (`ResolveEnds`) |
| `unpack` | a tree with 3 files on 2 levels, an empty directory and a symlink, and single files; 2 descriptors; nothing or one file in the way; absolute target or the current directory | 353 324 | exit status 0 means that nothing is missing (`NothingMissing`), bounded descriptors (`OpenFilesBounded`), an end (`RunEnds`) |

More configurations show where the code does less than one may expect of it (section 4); TLC
finds each of them violated when it is run by hand, with the instance module where there is one:
`tlc -config TreeTraversal_errors.cfg TreeTraversal`, `tlc -config Sqshfs_offset.cfg MC_Sqshfs`.

Why the bounds are enough.  Two iterators give every pairwise interleaving, with the second
doing arbitrarily much (lookups, evictions, cleanup) at each point of the first one's call; one
LRU slot makes every touch of another key an eviction; three slices and four mappings allow
two loads of the same slice beside held ones; `MaxSkip = 1` lets skips step over a slice and
over the end.  For the two
managers, the archive and its opening, the mt iteration, the traversal, the content, the path resolver,
the front ends and unpacking the proofs remove these bounds.
Three views with a four-buffer pool allow three simultaneous misses on one address; `MaxLost = 1`
lets a touch fail once.  In `ArchiveOpen` one descriptor is the process's own, and a third is free when
the mapper took one; versions differ in size and time, the two things that are compared.
In `FileIteratorMt` three blocks give schedules where none, some and all tasks ran when scheduling
fails; the program ends, so deadlock is not checked there.  Nor is it for `TreeTraversal`, whose
walks end: two directories make every kind of cycle (a directory in itself, two in each other), and
a depth limit beyond the recursion check lets the check be what ends the descent.

In `FileContent` blocks have 4 bytes, the zero block 3 and a slice 5: a sparse block takes two calls, a
raw block lies across slices, windows start and end anywhere.  `MinChunk` is larger than every file of the
run but those of one block: reading one chunk after the other across blocks of a
compressed file is what `FileContent_chunks.cfg` is about.  `SizeMax` is larger than any size
there and small enough that an underflow is visible.  It ends, so deadlock is not checked.
In `Sqshfs` a metablock has 8 bytes and items have 1 to 9, so items lie across metablocks
in most ways; each of the archives is about one thing: an export table, an index, attributes in place and
shared, or a damage the code checks (a count too large, a name twice, a dot, inode 0).  Two handles
interleave two listings with lookups; nothing tells them apart, so they are symmetric.  The map's
blocks have 2 references, so that a reference is stored in a block that another has allocated, and in one that
it would have to allocate.  `OffsetMax` is beyond every place an index
leads to except in the longest directory.  Buffers of 0, 1 and 9 bytes ask for the size, are too small and
are enough.  In `FrontEnds` two items are one that succeeds and one that fails after it, in both orders.
In `MC_PathResolver` the targets of the two symlinks include themselves, each other, a directory, a
file, the root and nothing, so that chains end, cycle and go up; with three directories one goes up
twice, and two followed symlinks are one chain and the limit.  Deadlock is not checked there: what is
`UNDEFINED` has no next step.  `MC_Unpack` has one file more than descriptors, so that `main` waits
for a job while two others run; it ends, so deadlock is not checked, and `RunEnds` says more.

Fairness.  Every specification assumes only that a thread inside a call is scheduled
until the call returns (weak fairness of its steps), and for `FileIteratorMt` that the pool
runs the tasks it was given, and for `TreeTraversal` and `FileContent` that the caller's loop goes on.
For `PathResolver` it is a resolve that goes on until it returns,
and for `Unpack` that `main` runs (a failing wait for the semaphore is not counted on) and the pool
runs its jobs.  Nobody has to start a call, and locks are not fair: therefore
`CallsReturn` speaks of behaviours in which no new calls start from some point on.
`ArchiveOpen`, `Sqshfs` and `FrontEnds` state no fairness: nothing has to be asked of them.

Left out: a failing `pthread_mutex_lock` (it does not fail on initialised mutexes), memory that is short
while the inode map grows under a path resolver (`Sqshfs` has it), the
arithmetic of offsets inside a slice of the map manager, and what characters names are made of.

## 4. Findings and observations

The listed finding, with a run of its own:

1. `file_ext.c:208-210` - after scheduling the last task, the loop reads `mt->file`, but the
   task may have freed `mt` (`file_ext.c:139-143`), while `libsqsh/README.md:19` calls the library
   thread-safe.  Run `file_iterator_mt_scheduler`.

Violated configurations that are kept for runs by hand, each with one property of its module:

2. `ExtractManager_thread_safe.cfg`, `ViewBufferAlive` - `sqsh__extract_manager_retain_buffer`
   (`extract_manager.c:178`) changes a shared reference count without the mutex: two threads, one of them
   copying a view, end with a live view whose buffer is freed.
3. `TreeTraversal_errors.cfg`, `ErrorsReachCaller` - when listing a directory fails, `file_next`
   (`traversal.c:145`) pops it like one that ended and returns true with `*err` set; the next call
   overwrites `*err`.  `sqsh_tree.h:533` promises false when an error occurred, and `unpack.c:460` and
   `examples/traverse_dir_ll.c:53` look at the error only after their loop, so the rest of the
   directory is left out silently.
4. `PathResolver_failure.cfg`, `FailureEndsResolve` - the result of `sqsh_path_resolver_down`
   (`path_resolver.c:453`) is not looked at before the next segment is looked up.  When the directory
   cannot be loaded, the lookup works on the working directory that was given up
   (`path_resolver.c:187-195`), and the error is overwritten.  In the last segment the same failure is
   returned, which `test/libsqsh/tree/path_resolver.c:210` checks.
5. `Unpack_relative.cfg`, `CreatesNoneLate` - both passes enter the target directory with `mkdir` and
   `chdir` (`unpack.c:441`).  If it is a relative path, the second pass makes it again within itself
   and puts the metadata on a second set of directories there.  The comment at `unpack.c:150` expects
   the directories of the first pass.
6. `FileContent_chunks.cfg`, `ReceivesContent` - `sqsh_file_iterator_skip2`
   (`file_iterator.c:375-412`) counts the current block among those to come when a skip goes past it, so a
   reader that takes chunk after chunk gets bytes of a later block, unlike
   `include/sqsh_file.h:85` describes `sqsh_file_reader_advance2`.
7. `Sqshfs_getxattr.cfg`, `XattrFound` - the lookup of an attribute stops with `NO_SUCH_XATTR` at the
   first key that compares greater than the name asked for (`xattr_iterator.c:291-308`).  That is right
   for keys in one order only, and the comparison of the full name against the key makes it the
   descending one; in an archive whose keys ascend, attributes that `listxattr` shows are not found.
8. `Sqshfs_offset.cfg`, `LooksUpAnywhere` - a lookup in a directory with an index keeps the place it
   jumps to in 16 bits (`directory_iterator.c:88-143`), so names further than 64 KiB into a
   listing cannot be looked up, though they are listed.
9. `ArchiveOpen_descriptor.cfg`, `LeavesDescriptors` - when opening the file fails, the mmap mapper's
   `user_data` is 0, the clean state of `archive.c:90`, and the clean-up closes descriptor 0.
10. `FrontEnds_status.cfg`, `StatusTellsFailure` - `sqsh-ls` exits with 0 whatever happened, and
   `sqsh-cat` with what the last path did (`man/sqsh-ls.1.in` and `man/sqsh-cat.1.in` under EXIT STATUS
   promise otherwise).  `EasyTellsFailure` in the same file - when the listing of a directory below the
   start fails, the loop of `sqsh_easy_tree_traversal` (`easy/traversal.c:57-63`) passes over the
   `DIRECTORY_END` that carries the error, the next call overwrites it, and the list is short with `err` 0.
   `sqsh_easy.h` promises a list on success and NULL on error of the functions that return one, but says
   nothing of this one.
11. `FileContent_partial.cfg`, `ReceivesContent` - raw blocks that are stored in part, their rest being
   sparse.  A run of raw blocks in one slice takes the sparse rest of the last block it looked at
   (`file_iterator.c:224-231`); when that block does not lie in the slice (`file_iterator.c:239-241`) the
   run ends before it, and its sparse bytes come before its stored ones.  Before a fragment, the last block
   gets no sparse rest, and its bytes are missing in the middle of the file, though the comment at
   `file_iterator.c:223-224` says that a block before a fragment gets one.

Smaller things met while modelling, which the modules translate as they are: curl's init after a
failed `calloc` ends in a clean-up that dereferences NULL (the stage `crashed` of `ArchiveOpen`);
`sqsh_mapper_curl_map` leaks the downloaded data when time or size do not match; the readdir of `fs2.c`
answers success after an error, and its getxattr a negated length; `easy/xattr.c` and
`easy/traversal.c` leak the last key when the list cannot grow; `easy/xattr.c:99-102` takes the length of a
name whose copy failed, which is NULL; with `RLIMIT_NOFILE` at 32 the semaphore of `sqsh-unpack` begins at 0
and `main` waits for ever, below that it begins at a huge count (`unpack.c:547`); `sqsh_easy_file_exists` does not go to the root first;
`fs_readdir` of `fs3.c` ignores the offset asked for; the growing inode map stores a conflicting
reference before it reports the conflict, and ignores a failing `cx_hash_map_put`
(`inode_map.c:192`), so that sqshfs answers `EIO` for an inode that it told the kernel of; `fs_listxattr` answers `EIO` where `ERANGE` is meant;
skipping in a metablock table relies on every metablock but the last being full; lz4 and zstd take
what there is of a cut stream (file blocks check the size afterwards, metablocks do not).

## 5. The proofs

`MapManager_proofs` proves, for any finite set of iterators, any number of slices and LRU
slots, that `Spec` keeps `TypeOK`, `RefsExact`, `SlicesMapped`,
`NothingLeaked` and `MappedBound`.  `RefsExact` is not inductive alone: a release is only
harmless if the released key is present with the value the iterator points to, and a put only
if no other key holds the same mapping.  The inductive invariant `IInv` (end of `MapManager`) adds
that values and references go together and no mapping is stored or loaded twice (`CacheOK`),
the exact contents of `mapped` (`MappedExact`), what a phase says about an iterator's fields
(`IteratorOK`) and the state of a closed manager (`ClosedOK`).  The argument per action is in a
lemma `Step...`; counting arguments rest on the lemmas of `RcCache_proofs` about how
each cache operation changes one count.  `MappedBound` follows by mapping each mapped slice to
the slot or iterator that keeps it.

`FileIteratorMt_proofs` proves, for any number of blocks and workers, that `Spec` keeps
`CounterExact`, `TasksUseLiveMt`, `FinalCallbackLast` and `NoErrorLost`, and that every step is a
step of `FileJob` or a stutter (`KeepsPromise`, the safety part of `PromiseKept`).  Its `IInv`
adds the shape of the schedule (blocks below `next` are scheduled), that at most one cleanup is
pending and only at counter zero, and where an unreported error is stored.

`TreeAndContent_proofs` proves of `TreeTraversal`, for any finite archive, recursion check depth and set of depth
limits, that `Spec` keeps `TypeOK`, `PathReadable` and `StackBounded` and implements `TreeWalk`
(`WalksInOrder`, which has no liveness part).  `PathReadable` is about the elements below the depth
only; its `IInv` adds how depth, iterator and stack length go together in each state (`Shape`), that
the stack is a path of the archive that starts at the base (`OnPath`), and that from `CheckDepth` on
no directory is on it twice (`NoRecursion`), except on top before it is checked.  From the last the
bound follows by counting: the directories above `CheckDepth` are different.

Of `FileContent` it proves, for any sizes of blocks, of the zero block and of slices, any files and any
damage, `ReceivesContent` (`ReceivesWhatIsThere`) and `NothingLeftOut` (`ReceivesAll`).  Both need to know
where in the file an iterator is, which no field of it says.  `ContentInv` adds it (`Place`: the start of
the next block, less the sparse bytes still to come): the bytes shown are those that end there, the sparse
bytes to come are zero, and the window over the archive ends where the next block is stored
(`IteratorOK`).  For a stream it says that what was received ends at that place (`StreamInv`), for the
tasks that the blocks below `task` are complete and the rest untouched (`TasksInv`), for a reader
that buffer and remainder make up what was asked for and that its next byte is the one behind the
buffer (`Fills`, `ReaderInv`), the place to skip to included.  One lemma per way of going on - zero blocks, compressed
blocks, runs of raw blocks, the fragment - says that it moves the place by what it shows; that a run of raw
blocks ends somewhere, and that addresses are sums, are shown with the least number for which they fail.

Both have two hypotheses, about the file and the program, which no step changes.  `StoredWhole`: a raw
block is stored to its end, as writers store it, or in part where the iterator supports that (a block
follows it and no raw block comes before it); without it finding 11 is a counterexample.  `OneCall`:
a program that reads chunk after chunk takes the file in one; without it finding 6 is one.  All files of the
run are `StoredWhole`, and its `MinChunk` makes all of its reads `OneCall` but those of files of one
block, of which only TLC shows the properties.

`ArchiveAndMount_proofs` proves of `Archive`, for any set of threads, that tables are set up once (`SetUpOnce`), are handed out only
when usable (`HandedOutAlive`), and that one thread at a time is inside a getter (`OneThreadInside`).
Its `IInv` adds that the lock belongs to the thread that is inside, as often as it is nested
(`LockOK`), which getter nests in which (`CallOK`), what a getter about to succeed counts on
(`ResultOK`), and that the inode map is set up only with the export table under it (`ReadyOK`).

Of `ArchiveOpen` it proves, for any set of threads and descriptors, `OneVersion`, `LeavesNothing` and that
one thread at a time uses the remote handle (`HandleUsedByOne`).  Its `IInv` adds what each
stage has set up (`Progress`), that the archive's descriptor is the one its mapper knows
(`Descriptors`), that nobody else is there before it is open (`Alone`), and that a download
being checked is the last one of its handle (`Locked`): without the lock from the transfer to
the check, a thread would compare the headers of another's download.

`ExtractManager_proofs` proves, for any finite set of views, buffers, addresses and LRU slots, and under
`CopiesRace = FALSE` (each theorem's hypothesis: a copy does not overlap another call), `TypeOK`,
`RefsExact`, `ViewBufferAlive`, `NothingLeaked` and `OneBufferPerAddress`.  Its `IInv` adds that
no buffer is cached or being put twice (`CacheOK`), what exactly is allocated (`AllocatedExact`), that a view
with a reference has the cached buffer (`BufferOK`), that the mutex is held by the view that touches
(`ViewOK`), and that a view being copied stays as it is and the count read from it is still the count
(`CopyOK`).  That last part is what a racing copy breaks, and `ExtractManager_thread_safe.cfg`
shows how.  A reference lost to a failing touch is counted in `lost`, which makes the counts
exact also then.  That every decompression closes the library state it opened is proved from
the definitions of the extractors, for every codec and stream (`OutcomesClosed`).

`PathResolver_proofs` proves, for any finite archive and any entries of symlinks, `TypeOK`,
`WalkerUsable`, `OpenedInParent` and that every step is a step of `PathLookup` or a stutter
(`LooksUpPaths`).  Its `IInv` adds that the inode map knows the parent of every directory on
the way (`KnownOK`), that the working directory and the iterator over it are one directory
(`Standing`), what is left when a directory could not be loaded (`Stranded`), and how the activations
of a resolve nest (`NestingOK`): only the outermost may be told not to follow a symlink at its end, and an inner
one is there because a link was followed.  `PathLookup` has one list of segments to go, which the mapping
reads off all activations (`Remaining`).  The facts about it that need induction over the activations
are proved with the set of those numbers for which the fact fails: it has no least element.

`Tools_proofs` proves of `Unpack`, for any tree, target and number of permits, that every permit of the
semaphore is free or held by exactly one file (`EveryPermitHeldOnce`), hence `OpenFilesBounded`.  It rests
on a job being given out once: `IInv` adds that main never gets behind a job it gave out
(`JobsBehind`), which needs that a traversal whose listing fails jumps ahead only (`JumpsAhead`, from the
nesting of the walk that `UnpackAssumption` states: every listing ends behind its visits, once), and
that only the first pass opens files (`PlaceInWalk`).  `NothingMissing` is proved for an absolute target and for
the current directory (`Anchored`; a relative one is finding 5), and so is that the second pass then
finds every directory there (`SecondPassCreatesNone`).  The invariant behind both (`Extracted`) says where main is
and where entering the target leads to, that every directory begun exists, that every file seen is
complete, in a job, or counted as an error, and that the directories the second pass left have metadata.

Of `FrontEnds` it proves, for every function of the tables, `KeepsOnlyResult` (nothing is kept but the result,
and who calls the easy API or `fs_open` has it exactly when he is told of success) and `TellsFailure` (success is
told only when nothing failed that the function sees, and only `sqsh_easy_tree_traversal` does not see all).
The first holds because every script gives back at its exit what it acquired before it, wherever it is left
(`Balanced`, from the tables themselves); `FrontInv` relates what is held to the place in the script.

Assumptions are the named ASSUMEs on the constants (sound archives laid out, keys and values distinct from the
null markers, finite iterators, block and LRU counts natural, the opener no thread, well-nested walks
in which nothing lies in the way of the target, archives that list their directories).

Of `Sqshfs`, `ArchiveAndMount_proofs` proves, for any set of archives, directory handles and names, every
property of its passing run.  Some hold whatever the bytes of the tables are, as long as they hold items
(`ArchivesAssumption`).  Listings are safe: names ascend, none leaves the directory, no inode is the root's
(`ListingsAreSafe`).  It is a chain from a window's bytes upwards:
what `Begin` leaves alone (`BeginKeeps`), what an entry that is loaded is (`NextKept`), what
`check_entry_consistency` lets through (`FinalizedChecks`), and that `Before` is a strict order on names
(`BeforeTransitive`).  The invariant `HandlesSafe` relates the iterator of a handle to its listing: as long as
it goes on, the name it compares with is the last one listed.  And `ExportedInodesResolve` says
that with an export table an inode stands for one reference for good.

The others are about archives that are sound, and sound means laid out (`SoundArchivesAssumption`).  The
proof follows the modules upwards; every step is about a table of any number of metablocks.

1. *Metablocks*: the iterator, wherever it is, maps the metablock that it is told of (`MappedAt`), and skipping
   ends at the one the place lies in (`SkipFinds`).  The turns of each loop are a function of their number
   (`SkipTurns`, `RunTurns`), and what holds of all turns is shown of the least one of which it would not.
2. *Windows*: a reader is at rest at a place (`Rests`) when its data are the bytes of the table
   there and its buffer, its offset and its iterator agree on where that is.  The filling of a
   buffer over several metablocks (`Collects`) ends in that state, and so does every advance that stays in
   the table (`MetaAdvanced`): by 0 to a longer window (`BufferReaches`), within a metablock and beyond it.
3. *Items*: at a place where an item begins the window is that item (`Begins`), so that the elements of a
   table (`IdsHold`, `ExportHolds`) and inodes are read as what they are (`TablesHold`, `LaidOutHolds`).
4. *Listings*: `Follows` says of an iterator how many entries it has told and at which place it rests;
   `EntryTold` is one entry, with the header of the next fragment where one begins.  `HandlesFollow` is the
   invariant: every open handle follows the listing of its directory.  `DirectoriesAreListed` follows,
   and for lookups, whose loop goes through the index first, `EntriesAreLookedUp`.
5. *Attributes*: the iterator is before an attribute, at its key or at its value (`XPos`, `XIsAt`), values in
   place or elsewhere (`ValueHolds`); `XattrsAreAnswered` follows.
6. *Inodes*: `InodesResolveAlways` needs the map besides: `KnownResolve` says that it holds nothing but inodes of
   the archive, each by its number (`Fits`), and that what is known resolves or, where memory may be short, was
   not stored.  No less than unique
   numbers would do: with two inodes of one number the growing map is overwritten before the conflict is
   reported, and the first is lost.

A metablock reader whose window spans metablocks (`iterator_offset` is where the iterator's begins in it)
is moved by 0 to a longer window, or by `iterator_offset` or more: these are the advances its callers
make (over all of the last window, or none) and the lemmas are about.  `handle_buffered` of `reader.c`
does not reduce `iterator_offset` by what it drops from the buffer, so an advance in between would
leave the reader with an offset too large; these callers make none.

What `Layout` leaves open is left open by the theorems, too: attributes may be in any order, and
a lookup that stops before the one it looks for is finding 7; a fragment may begin past `OffsetMax`, and a lookup
that an index leads there fails, which is finding 8.

Only model-checked: all liveness (`CallsReturn`, `WalkEnds`, `ResolveEnds`, `ReadEnds`, `RunEnds`, the
report of `PromiseKept`), since reasoning about fairness and ENABLED is outside what the prover supports.
Every safety invariant and safety action property of the passing runs is a theorem, under the hypotheses named
above where there are some.

## 6. Plan

1. The caches: `RcCache`, `MapManager`, `ExtractManager` and the proofs of both - done.
2. The archive: `ArchiveOpen`, `Archive` and proofs - done.
3. `FileJob`, `FileIteratorMt` and proofs - done.
4. The content: `Reader`, `FileContent`, `Metablock`, `Table`, `Inode`, `DirectoryIterator`,
   `XattrIterator`, and the proofs of `FileContent` - done.
5. The tree: `TreeTraversal`, `TreeWalk` and proofs, `PathLookup`, `PathResolver` and proofs,
   with both refinements - done.
6. The tools: `Unpack`, `Layout`, `Sqshfs`, `FrontEnds` and proofs - done.
7. `libmksqsh`, once something writes an archive with it.

## 7. Not modelled

* `libmksqsh`: setters of the superblock and a metablock buffer that no program uses yet.
  `export_table_start` sets the export flag the wrong way round, `force_fragments` likewise, and the
  metablock's flush assigns the offset it should add to; there is no reader of these in the
  repository that a property could relate them to, beside their tests.
* Binary field access (`common/src/data`): byte order conversions without state.  The structures
  appear as sets of records.
* Error strings and the version: constant tables.
* The fields of an inode no handler decides with (times, permissions, device numbers), and how the
  programs format what they print.
* `sqsh__reader_copy`, `sqsh__file_iterator_copy`, `sqsh__fragment_view_copy`: called by tests only.
* The examples, which repeat what the tools do; of the fuzzer only its chunked reading.
* The libraries: cextras (external in `RcCache`), the thread pool, curl and the decompressors, of
  which the modules keep what the code in `src/` sees.

`PROJECT.json` lists every component with its status and every hazard with the properties that
cover it.
