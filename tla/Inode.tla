-------------------------------- MODULE Inode --------------------------------
(***************************************************************************)
(* file/file.c, file/inode_*.c and archive/inode_map.c: how an inode is    *)
(* read from the inode table, and the map from inode numbers to references *)
(* that every file opened is entered in.                                   *)
(*                                                                         *)
(* A table holds items, one after the other: byte k of item n is <<n, k>>, *)
(* and a window is read as an item when it shows the first bytes of one.   *)
(* A reference is the pair of a metablock's address and an offset in it.   *)
(***************************************************************************)
EXTENDS Table

CONSTANTS InodeHeader,  \* sizeof(struct SqshDataInodeHeader)
          BlockBytes,   \* bytes of a file's block, for the length of its block list
          InodeBlock,   \* references the growing inode map allocates at once, 256
          NoRef         \* SQSH_INODE_REF_NULL

ASSUME InodeHeaderAssumption == InodeHeader \in Nat \ {0}
ASSUME BlockBytesAssumption  == BlockBytes \in Nat \ {0}
ASSUME InodeBlockAssumption  == InodeBlock \in Nat \ {0}
ASSUME NoRefAssumption       == NoRef \notin Nat \X Nat

\* The item a window shows, if all of it is the beginning of one.
NoItem == [kind |-> "none"]
Shown(archive, m) ==
    LET data == MetaData(m)
    IN  IF /\ data # <<>> /\ data[1][1] \in DOMAIN archive.items
           /\ \A k \in DOMAIN data : data[k] = <<data[1][1], k>>
        THEN archive.items[data[1][1]] ELSE NoItem

\* header_size of the inode implementations: extended inodes have more fields.
TypeSize(inode) == IF inode.extended THEN 2 ELSE 1

\* inode_file_payload_size: the block list, with the last block in it when there is no fragment.
FilePayload(inode) ==
    (IF inode.fragment THEN inode.size ELSE inode.size + BlockBytes - 1) \div BlockBytes

\* inode_symlink_payload_size: the target, with the xattr index behind it when it is extended.
SymlinkPayload(inode) == inode.size + (IF inode.extended THEN 1 ELSE 0)

\* payload_size of the inode implementations: directories, devices and pipes have none.
PayloadSize(inode) ==
    CASE inode.type = "file" -> FilePayload(inode)
      [] inode.type = "symlink" -> SymlinkPayload(inode)
      [] OTHER -> 0

\* sqsh_file_size: devices and pipes have no size.
SizeOf(inode) == IF inode.type \in {"device", "ipc"} THEN 0 ELSE inode.size

\* hard_link_count of the inode implementations: a file's is in its extended inode only.
HardLinks(inode) == IF inode.type = "file" /\ ~inode.extended THEN 1 ELSE inode.links

InodeTypes == {"directory", "file", "symlink", "device", "ipc"}

\* struct SqshDataInode and its union, the fields that the inode's type does not have being 0;
\* index entries follow the inode of a directory.
InodeItem ==
    [kind : {"inode"}, type : InodeTypes, extended : BOOLEAN, number : Nat, uid : Nat, gid : Nat,
     size : Nat, fragment : BOOLEAN, xattr : Nat, links : Nat, start : Nat, offset : Nat, indexes : Nat]

\* The elements of the table of ids and of the export table.
IdItem == [kind : {"id"}, id : Nat]
ExportItem == [kind : {"ref"}, ref : (Nat \X Nat) \cup {NoRef}]

-----------------------------------------------------------------------------
(* Whoever reads a table one window after the other is a record with its metablock reader    *)
(* and rv, what became of the call: it goes on as long as rv is the same, and stops at        *)
(* "error", or at "garbled" when a window does not show what it should.                       *)

Ended(it) == it.rv \in {"end", "error", "garbled"}
Fails(it) == [it EXCEPT !.rv = "error"]

Checked(it) == IF MetaOk(it.meta) THEN it ELSE Fails(it)

\* sqsh__metablock_reader_advance with the check of what it returns.
Advance(it, table, offset, size) ==
    IF Ended(it) THEN it ELSE Checked([it EXCEPT !.meta = MetaAdvanced(table, it.meta, offset, size)])

Expect(it, item, kind) == IF Ended(it) \/ item.kind = kind THEN it ELSE [it EXCEPT !.rv = "garbled"]

\* The next item, the first size bytes of it.
Begin(archive, it, table, offset, size, kind) ==
    LET a == Advance(it, table, offset, size) IN Expect(a, Shown(archive, a.meta), kind)

\* The item that is begun, up to size bytes of it.
Extend(archive, it, table, size, kind) == Begin(archive, it, table, 0, size, kind)

-----------------------------------------------------------------------------
(* Inodes *)

\* inode_load behind the header: the fields of the type, then the payload.
InodeFields(archive, f) ==
    IF Ended(f) THEN f
    ELSE LET inode == Shown(archive, f.meta)
             fields == Extend(archive, f, archive.inodes, InodeHeader + TypeSize(inode), "inode")
         IN  IF inode.type \notin InodeTypes THEN Fails(f)
             ELSE Extend(archive, fields, archive.inodes,
                         InodeHeader + TypeSize(inode) + PayloadSize(inode), "inode")

InodeShown(archive, f) == IF Ended(f) THEN f ELSE [f EXCEPT !.inode = Shown(archive, f.meta)]

\* sqsh__file_init with inode_load, without the inode map.
InodeRead(archive, ref) ==
    LET file == [rv |-> "ok", meta |-> FreshMetaReader(ref[1]), inode |-> NoItem, ref |-> ref]
    IN  InodeShown(archive, InodeFields(archive,
            Begin(archive, file, archive.inodes, ref[2], InodeHeader, "inode")))

\* inode_get_id: a user or a group, UINT32_MAX when the table does not say.
NoId == -1
GetId(archive, index) ==
    LET m == TableGet(IdTable(archive), index)
    IN  IF MetaOk(m) THEN Shown(archive, m).id ELSE NoId

-----------------------------------------------------------------------------
(* The inode map: a function from the inode numbers of the superblock. *)

EmptyMap(archive) == [n \in 1..archive.inode_count |-> NoRef]

\* sqsh_export_table_resolve_inode2, with NoRef for an error.
Exported(archive, number) ==
    LET m == TableGet(ExportTable(archive), number - 1)
    IN  IF MetaOk(m) THEN Shown(archive, m).ref ELSE NoRef

\* export_table_get and dyn_map_get; NoRef stands for the error.
MapGet(archive, map, number) ==
    CASE number \notin 1..archive.inode_count -> NoRef
      [] number \in 1..archive.inode_count /\ archive.exported -> Exported(archive, number)
      [] OTHER -> map[number]

\* The growing map has the block of a number, with the reference of another number or its own.
HasBlock(map, number) ==
    \E n \in DOMAIN map : (n - 1) \div InodeBlock = (number - 1) \div InodeBlock /\ map[n] # NoRef

\* Mutant of MapSet: the growing map is looked at but not written.
MapSetUnwritten(archive, map, number, ref, memory) ==
    CASE number \notin 1..archive.inode_count -> [map |-> map, ok |-> FALSE]
      [] number \in 1..archive.inode_count /\ archive.exported ->
           [map |-> map, ok |-> Exported(archive, number) = ref]
      [] OTHER -> [map |-> map, ok |-> map[number] \in {NoRef, ref}]

\* export_table_set and dyn_map_set: the growing map is overwritten before an inconsistency
\* is reported.  When there is no memory for a block that it does not have, it is left as it
\* is, and nothing is reported.
MapSet(archive, map, number, ref, memory) ==
    CASE number \notin 1..archive.inode_count -> [map |-> map, ok |-> FALSE]
      [] number \in 1..archive.inode_count /\ archive.exported ->
           [map |-> map, ok |-> Exported(archive, number) = ref]
      [] OTHER -> [map |-> IF memory \/ HasBlock(map, number) THEN [map EXCEPT ![number] = ref] ELSE map,
                   ok |-> map[number] \in {NoRef, ref}]

\* The file with the number it has in the map.
Registered(file, set) == [file |-> IF set.ok THEN file ELSE Fails(file), map |-> set.map]

InMap(archive, map, file, memory) ==
    IF file.rv = "ok" THEN Registered(file, MapSet(archive, map, file.inode.number, file.ref, memory))
    ELSE [file |-> file, map |-> map]

\* sqsh_open_by_ref: the file, and the map with the file's number in it.
Opened(archive, map, ref, memory) == InMap(archive, map, InodeRead(archive, ref), memory)
=============================================================================
