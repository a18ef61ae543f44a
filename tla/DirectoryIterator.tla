-------------------------- MODULE DirectoryIterator --------------------------
(***************************************************************************)
(* directory/directory_iterator.c and directory_index_iterator.c.          *)
(*                                                                         *)
(* A directory is a run of fragments, each a header and its entries.  A    *)
(* name is a sequence of characters.                                       *)
(***************************************************************************)
EXTENDS Inode

CONSTANTS FragmentSize,  \* sizeof(struct SqshDataDirectoryFragment)
          EntrySize,     \* sizeof(struct SqshDataDirectoryEntry), without the name
          IndexSize,     \* sizeof(struct SqshDataInodeDirectoryIndex), without the name
          InodeMax,      \* the largest inode number that can be stored
          OffsetMax      \* UINT16_MAX, the largest offset that a lookup can start from

ASSUME FragmentSizeAssumption == FragmentSize \in Nat \ {0}
ASSUME EntrySizeAssumption    == EntrySize \in Nat \ {0}
ASSUME IndexSizeAssumption    == IndexSize \in Nat \ {0}
ASSUME InodeMaxAssumption     == InodeMax \in Nat \ {0}
ASSUME OffsetMaxAssumption    == OffsetMax \in Nat

\* Characters are numbers, in their order.
Dot == 1
Slash == 2

\* The size of a name is stored less one.
Name == Seq(Nat) \ {<<>>}

\* struct SqshDataInodeDirectoryIndex, struct SqshDataDirectoryFragment and struct
\* SqshDataDirectoryEntry; at is where the inode lies in the metablock of its fragment.
IndexItem == [kind : {"index"}, index : Nat, start : Nat, name : Name]
FragmentItem == [kind : {"fragment"}, count : Nat, start : Nat, inode_base : Nat]
EntryItem == [kind : {"entry"}, at : Nat, offset : Int, type : InodeTypes, name : Name]

\* The order of strncmp and memcmp on two names, the shorter of equal ones first.
Before(a, b) ==
    \/ IsStrictPrefix(a, b)
    \/ \E k \in 1..Len(a) : /\ k <= Len(b) /\ a[k] < b[k]
                            /\ SubSeq(a, 1, k - 1) = SubSeq(b, 1, k - 1)

-----------------------------------------------------------------------------
(* Iterators: rv is "next" as long as there is an entry. *)

\* load_metablock: the iterator is about to read what begins at an offset of a metablock.
LoadMetablock(d, outer, inner) ==
    [d EXCEPT !.meta = FreshMetaReader(outer), !.next_offset = inner, !.remaining_entries = 0]

\* sqsh__directory_iterator_init, over a file that is open.  A directory's size counts 3 bytes
\* for "." and "..".
FreshDirectory(file) ==
    LET d == [file |-> file.ref, meta |-> FreshMetaReader(0),
              remaining_size |-> IF file.inode.size < 3 THEN 0 ELSE file.inode.size - 3,
              remaining_entries |-> 0, next_offset |-> 0, start |-> 0, inode_base |-> 0,
              entry |-> NoItem, inode |-> 0, last |-> <<>>,
              rv |-> IF file.inode.size < 3 THEN "error" ELSE "next"]
    IN  LoadMetablock(d, file.inode.start, file.inode.offset)

\* process_fragment behind the window, without its header's bytes in the size.
FragmentFields(d, fragment) ==
    [d EXCEPT !.remaining_entries = fragment.count, !.start = fragment.start,
              !.inode_base = fragment.inode_base, !.next_offset = FragmentSize,
              !.remaining_size = @ - FragmentSize]

FragmentShown(archive, d) ==
    IF Ended(d) THEN d
    ELSE LET f == FragmentFields(d, Shown(archive, d.meta))
         IN  IF f.remaining_size < 0 \/ f.remaining_entries > f.remaining_size \div EntrySize
             THEN Fails(d) ELSE f

\* process_fragment
ProcessFragment(archive, d) ==
    FragmentShown(archive, Begin(archive, d, archive.directories, d.next_offset, FragmentSize, "fragment"))

EntryLength(entry) == EntrySize + Len(entry.name)

\* The entry with its name, and the place of the next.
EntryShown(archive, d) ==
    IF Ended(d) THEN d
    ELSE LET entry == Shown(archive, d.meta)
         IN  IF EntryLength(entry) > d.remaining_size THEN Fails(d)
             ELSE [d EXCEPT !.entry = entry, !.next_offset = EntryLength(entry),
                            !.remaining_size = @ - EntryLength(entry)]

EntryNamed(archive, d) ==
    IF Ended(d) THEN d
    ELSE Extend(archive, d, archive.directories, EntryLength(Shown(archive, d.meta)), "entry")

\* The rest of directory_iterator_next: the entry is loaded without its name, then with it.
LoadEntry(archive, d) ==
    EntryShown(archive, EntryNamed(archive,
        Begin(archive, d, archive.directories, d.next_offset, EntrySize, "entry")))

\* A fragment's count is one less than its entries: it is not counted down for the first.
Counted(archive, d) ==
    IF d.remaining_entries = 0 THEN ProcessFragment(archive, d)
    ELSE [d EXCEPT !.remaining_entries = @ - 1]

\* directory_iterator_next
NextEntry(archive, d) ==
    CASE Ended(d) -> d
      [] ~Ended(d) /\ d.remaining_size = 0 ->
           [d EXCEPT !.rv = IF d.remaining_entries = 0 THEN "end" ELSE "error"]
      [] OTHER -> LoadEntry(archive, Counted(archive, d))

\* check_entry_consistency: the names a listing may not hold, and their order.
IsBadName(name) == Slash \in Range(name) \/ name \in {<<Dot>>, <<Dot, Dot>>}

\* Mutant of Finalized: names are compared up to the length of the shorter one only.
FinalizedPrefixes(d) ==
    LET name == d.entry.name
        n == IF Len(d.last) < Len(name) THEN Len(d.last) ELSE Len(name)
        inode == d.inode_base + d.entry.offset
    IN  IF Ended(d) THEN d
        ELSE IF \/ d.entry.type \notin InodeTypes
                \/ IsBadName(name)
                \/ Before(SubSeq(name, 1, n), SubSeq(d.last, 1, n))
                \/ inode \notin 1..InodeMax
        THEN Fails(d) ELSE [d EXCEPT !.last = name, !.inode = inode]

\* directory_iterator_next_finalize with update_inode.
Finalized(d) ==
    LET name == d.entry.name
        inode == d.inode_base + d.entry.offset
    IN  IF Ended(d) THEN d
        ELSE IF \/ d.entry.type \notin InodeTypes
                \/ IsBadName(name)
                \/ d.last # <<>> /\ ~Before(d.last, name)
                \/ inode \notin 1..InodeMax
        THEN Fails(d) ELSE [d EXCEPT !.last = name, !.inode = inode]

\* sqsh_directory_iterator_next
DirectoryNext(archive, d) == Finalized(NextEntry(archive, d))

-----------------------------------------------------------------------------
(* Lookup *)

\* sqsh__directory_index_iterator_next: the entry without its name, then with it.
IndexLength(entry) == IndexSize + Len(entry.name)
IndexNamed(archive, i) ==
    IF Ended(i) THEN i
    ELSE Extend(archive, i, archive.inodes, IndexLength(Shown(archive, i.meta)), "index")
IndexNext(archive, i) ==
    IndexNamed(archive, Begin(archive, i, archive.inodes, i.next_offset, IndexSize, "index"))

\* The loop of directory_iterator_index_lookup, over the index behind the inode in the inode
\* table: the last entry that does not begin after the name is taken.
IndexTaken(i, entry, name) ==
    CASE Ended(i) -> i
      [] ~Ended(i) /\ Before(name, entry.name) -> [i EXCEPT !.remaining = 0]
      [] OTHER -> [i EXCEPT !.entry = entry, !.next_offset = IndexLength(entry), !.remaining = @ - 1]

IndexStep(archive, i, name) == IndexTaken(i, Shown(archive, i.meta), name)

IndexTurn(archive, i, name) ==
    IF Ended(i) \/ i.remaining = 0 THEN i ELSE IndexStep(archive, IndexNext(archive, i), name)

IndexScan(archive, i, name) == Turns(LAMBDA x : IndexTurn(archive, x, name), i, i.remaining)

\* The index of a directory, before its first entry; without one, its first fragment is taken.
FreshIndex(file) ==
    [rv |-> "next", meta |-> file.meta, next_offset |-> InodeHeader + TypeSize(file.inode),
     remaining |-> file.inode.indexes,
     entry |-> [kind |-> "index", start |-> file.inode.start, index |-> 0]]

\* Mutant of Indexed: the offset of the fragment is taken to count from its metablock.
IndexedInBlock(d, i) ==
    IF Ended(i) THEN Fails(d)
    ELSE LoadMetablock([d EXCEPT !.remaining_size = @ - i.entry.index], i.entry.start,
                       i.entry.index % MetaSize)

\* directory_iterator_index_lookup: the iterator moves to the fragment that the index names.  The
\* sum is kept in 16 bits before it is taken modulo MetaSize: past OffsetMax, the lookup fails.
Indexed(d, i) ==
    IF \/ Ended(i)
       \/ d.next_offset + i.entry.index > OffsetMax
       \/ d.remaining_size < i.entry.index
    THEN Fails(d)
    ELSE LoadMetablock([d EXCEPT !.remaining_size = @ - i.entry.index], i.entry.start,
                       (d.next_offset + i.entry.index) % MetaSize)

\* The loop of sqsh_directory_iterator_lookup: only the entry that is found is checked.
FindTurn(archive, d, name) ==
    IF Ended(d) \/ d.entry.name = name THEN d ELSE NextEntry(archive, d)

\* Every turn but the last takes an entry's bytes off the size that remains.
FindEntry(archive, d, name) ==
    Finalized(Turns(LAMBDA x : FindTurn(archive, x, name), d, d.remaining_size + 1))

\* directory_iterator_index_lookup for an extended directory.
Positioned(archive, file, d, name) ==
    IF file.inode.extended THEN Indexed(d, IndexScan(archive, FreshIndex(file), name)) ELSE d

\* sqsh_directory_iterator_lookup; "end" means that there is no such file.
DirectoryLookup(archive, file, d, name) ==
    FindEntry(archive, NextEntry(archive, Positioned(archive, file, d, name)), name)

\* sqsh_directory_iterator_inode_ref
EntryRef(d) == <<d.start, d.entry.at>>
=============================================================================
