------------------------------- MODULE Layout -------------------------------
(***************************************************************************)
(* What a writer of archives lays out: the tables that DirectoryIterator,  *)
(* XattrIterator and the modules below them read, with everything at the   *)
(* place where they look for it.                                           *)
(*                                                                         *)
(* The bytes of a table are those of its metablocks, one after the other;  *)
(* a place is a number of bytes before it.  archive.tree says what the     *)
(* archive holds, for each reference of an inode, and at which places.     *)
(***************************************************************************)
EXTENDS DirectoryIterator, XattrIterator

-----------------------------------------------------------------------------
(* Tables *)

\* Metablocks lie one behind the other, all but the last one full.
Cut(table) ==
    /\ table \in Seq([address : Nat, stored : 1..MetaSize, bytes : Seq(Nat \X Nat)])
    /\ \A b \in 1..Len(table) :
          /\ Len(table[b].bytes) \in 1..MetaSize
          /\ b < Len(table) =>
                /\ Len(table[b].bytes) = MetaSize
                /\ table[b + 1].address = table[b].address + MetaHeader + table[b].stored

\* The bytes before a metablock, those of the whole table, and the byte number q.
Start(b) == (b - 1) * MetaSize
TableLength(table) == IF table = <<>> THEN 0 ELSE Start(Len(table)) + Len(table[Len(table)].bytes)
BlockOf(place) == (place \div MetaSize) + 1
ByteAt(table, q) == table[BlockOf(q - 1)].bytes[((q - 1) % MetaSize) + 1]

\* The item that begins at a place, and that its first size bytes follow there.
ItemNumber(table, place) == ByteAt(table, place + 1)[1]
Item(archive, table, place) == archive.items[ItemNumber(table, place)]
Begins(archive, table, place, size, kind) ==
    /\ place \in Nat /\ size \in 1..(SizeMax - 1) /\ place + size <= TableLength(table)
    /\ ItemNumber(table, place) \in DOMAIN archive.items
    /\ Item(archive, table, place).kind = kind
    /\ \A k \in 1..size : ByteAt(table, place + k) = <<ItemNumber(table, place), k>>

\* A metablock's address and an offset in it lead to a place.
Leads(table, address, offset, place) ==
    /\ BlockOf(place) \in 1..Len(table) /\ table[BlockOf(place)].address = address
    /\ offset = place % MetaSize

\* A table of elements with the addresses of its metablocks.
ElementsLaidOut(archive, stored, size, count, kind) ==
    /\ Cut(stored.blocks) /\ count \in Nat
    /\ stored.lookup = [b \in 1..Len(stored.blocks) |-> stored.blocks[b].address]
    /\ \A index \in 0..(count - 1) : Begins(archive, stored.blocks, index * size, size, kind)

-----------------------------------------------------------------------------
(* Inodes *)

InodeLength(inode) == InodeHeader + TypeSize(inode) + PayloadSize(inode)
InodeOf(archive, ref) == Item(archive, archive.inodes, archive.tree[ref].place)
IdOf(archive, index) == Item(archive, archive.ids.blocks, index * IdSize).id

InodeLaidOut(archive, ref) ==
    LET held == archive.tree[ref]
        inode == InodeOf(archive, ref)
    IN  /\ Begins(archive, archive.inodes, held.place, InodeHeader, "inode")
        /\ Begins(archive, archive.inodes, held.place, InodeLength(inode), "inode")
        /\ Leads(archive.inodes, ref[1], ref[2], held.place)
        /\ held.type = inode.type /\ held.size = SizeOf(inode) /\ held.links = HardLinks(inode)
        /\ inode.uid < archive.id_count /\ inode.gid < archive.id_count
        /\ held.owner = <<IdOf(archive, inode.uid), IdOf(archive, inode.gid)>>
        /\ held.number = inode.number /\ held.number \in 1..archive.inode_count
        /\ archive.exported =>
              Item(archive, archive.export.blocks, (held.number - 1) * ExportSize).ref = ref

-----------------------------------------------------------------------------
(* Directories: for each entry the tree has its place, that of its fragment's header and the *)
(* number of entries behind it in the fragment; for each entry of the index its place and the *)
(* first entry of the fragment that it leads to.                                              *)

IsSequence(s) == Len(s) \in Nat /\ DOMAIN s = 1..Len(s)

EntryEnd(e) == e.place + EntrySize + Len(e.name)
FirstInFragment(listing, k) == IF k = 1 THEN TRUE ELSE listing[k - 1].left = 0

EntryLaidOut(archive, listing, k) ==
    LET e == listing[k]
        entry == Item(archive, archive.directories, e.place)
        header == Item(archive, archive.directories, e.header)
    IN  /\ e.left \in Nat /\ e.name \in Name /\ ~IsBadName(e.name)
        /\ Begins(archive, archive.directories, e.header, FragmentSize, "fragment")
        /\ Begins(archive, archive.directories, e.place, EntrySize + Len(e.name), "entry")
        /\ entry.name = e.name /\ e.ref = <<header.start, entry.at>>
        /\ e.ref \in DOMAIN archive.tree
        /\ archive.tree[e.ref].number = header.inode_base + entry.offset
        /\ archive.tree[e.ref].number <= InodeMax
        /\ IF FirstInFragment(listing, k)
           THEN e.place = e.header + FragmentSize /\ header.count = e.left
           ELSE /\ e.place = EntryEnd(listing[k - 1]) /\ e.header = listing[k - 1].header
                /\ e.left = listing[k - 1].left - 1
        /\ k > 1 /\ FirstInFragment(listing, k) => e.header = EntryEnd(listing[k - 1])
        /\ k = Len(listing) => e.left = 0

ListingLaidOut(archive, ref) ==
    LET inode == InodeOf(archive, ref)
        listing == archive.tree[ref].listing
    IN  /\ IsSequence(listing)
        /\ \A k \in 1..Len(listing) : EntryLaidOut(archive, listing, k)
        /\ \A j, k \in 1..Len(listing) : j < k => Before(listing[j].name, listing[k].name)
        /\ IF Len(listing) = 0 THEN inode.size = 3
           ELSE /\ inode.size = 3 + EntryEnd(listing[Len(listing)]) - listing[1].header
                /\ Leads(archive.directories, inode.start, inode.offset, listing[1].header)

IndexLaidOut(archive, ref) ==
    LET inode == InodeOf(archive, ref)
        listing == archive.tree[ref].listing
        index == archive.tree[ref].index
    IN  /\ IsSequence(index) /\ Len(index) = inode.indexes /\ inode.offset <= OffsetMax
        /\ \A j \in 1..Len(index) :
              LET i == Item(archive, archive.inodes, index[j].place)
                  e == listing[index[j].entry]
              IN  /\ Begins(archive, archive.inodes, index[j].place, IndexSize, "index")
                  /\ Begins(archive, archive.inodes, index[j].place, IndexLength(i), "index")
                  /\ index[j].entry \in 1..Len(listing) /\ FirstInFragment(listing, index[j].entry)
                  /\ i.name = e.name /\ i.index = e.header - listing[1].header
                  /\ BlockOf(e.header) \in 1..Len(archive.directories)
                  /\ archive.directories[BlockOf(e.header)].address = i.start
                  /\ index[j].place =
                        IF j = 1 THEN archive.tree[ref].place + InodeLength(inode)
                        ELSE index[j - 1].place
                             + IndexLength(Item(archive, archive.inodes, index[j - 1].place))
        /\ \A k \in 1..Len(listing) :
              listing[k].from = inode.offset + listing[k].header - listing[1].header

DirectoryLaidOut(archive, ref) ==
    /\ ListingLaidOut(archive, ref)
    /\ InodeOf(archive, ref).extended => IndexLaidOut(archive, ref)

-----------------------------------------------------------------------------
(* Attributes: for each the tree has its place, and the bytes that the lookup table counts for *)
(* it and those behind it; for a value that is stored elsewhere, the place of the value.       *)

KeyLength(key) == KeySize + Len(key.name) + ValueSize + key.size

AttributeLaidOut(archive, attrs, k) ==
    LET a == attrs[k]
        key == Item(archive, archive.xattrs, a.place)
        value == Item(archive, archive.xattrs, a.shared)
        behind == IF k < Len(attrs) THEN attrs[k + 1].rest ELSE 0
    IN  /\ Begins(archive, archive.xattrs, a.place, KeySize, "key")
        /\ Begins(archive, archive.xattrs, a.place, KeyLength(key), "key")
        /\ FullName(key) = a.name /\ a.rest \in Nat
        /\ a.rest = Len(a.name) + Len(a.value) + 1 + behind
        /\ k < Len(attrs) => attrs[k + 1].place = a.place + KeyLength(key)
        /\ IF key.indirect
           THEN /\ key.size = RefSize
                /\ Begins(archive, archive.xattrs, a.shared, ValueSize, "value")
                /\ Begins(archive, archive.xattrs, a.shared, ValueSize + Len(value.value), "value")
                /\ Leads(archive.xattrs, key.ref[1], key.ref[2], a.shared)
                /\ value.value = a.value
           ELSE key.value = a.value

AttributesLaidOut(archive, ref) ==
    LET inode == InodeOf(archive, ref)
        attrs == archive.tree[ref].attrs
        ids == Item(archive, archive.xattr_ids.blocks, (inode.xattr - 1) * XattrIdSize)
    IN  /\ IsSequence(attrs)
        /\ IF ~inode.extended \/ inode.xattr = 0 \/ archive.xattr_count = 0 THEN attrs = <<>>
           ELSE /\ inode.xattr <= archive.xattr_count
                /\ ids.count = Len(attrs)
                /\ \A k \in 1..Len(attrs) : AttributeLaidOut(archive, attrs, k)
                /\ IF Len(attrs) = 0 THEN ids.size = 0
                   ELSE ids.size = attrs[1].rest
                        /\ Leads(archive.xattrs, ids.start, ids.offset, attrs[1].place)

-----------------------------------------------------------------------------
(* Archives *)

LaidOut(archive) ==
    /\ Cut(archive.inodes) /\ Cut(archive.directories) /\ Cut(archive.xattrs)
    /\ ElementsLaidOut(archive, archive.ids, IdSize, archive.id_count, "id")
    /\ archive.exported =>
          ElementsLaidOut(archive, archive.export, ExportSize, archive.inode_count, "ref")
    /\ ElementsLaidOut(archive, archive.xattr_ids, XattrIdSize, archive.xattr_count, "xattr_id")
    /\ archive.root \in DOMAIN archive.tree /\ DOMAIN archive.tree \subseteq Nat \X Nat
    /\ \A r, q \in DOMAIN archive.tree : archive.tree[r].number = archive.tree[q].number => r = q
    /\ \A ref \in DOMAIN archive.tree :
          /\ InodeLaidOut(archive, ref)
          /\ AttributesLaidOut(archive, ref)
          /\ archive.tree[ref].type = "directory" => DirectoryLaidOut(archive, ref)
=============================================================================
