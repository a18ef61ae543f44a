------------------------------- MODULE Sqshfs -------------------------------
(***************************************************************************)
(* tools/src/fs3.c and tools/src/fs-common.c: sqshfs answers the requests  *)
(* of the kernel about a mounted archive.                                  *)
(*                                                                         *)
(* A step is one request with the whole handler.  What handlers share is   *)
(* the archive's inode map, whose every access is under its lock, and the  *)
(* iterator of a directory handle, which the kernel uses for one request   *)
(* at a time.  The kernel asks about inodes it has been told of.           *)
(***************************************************************************)
EXTENDS Layout

CONSTANTS Archives,    \* the archives
          Handles,     \* directory handles
          Names,       \* file names the kernel asks for
          XattrAsked,  \* attribute names the kernel asks for
          BufferSizes  \* sizes of the buffers attributes go to

\* What the tables of an archive hold, whatever else is wrong with it.
ASSUME ArchivesAssumption == \A one \in Archives :
    /\ Range(one.items) \subseteq
           InodeItem \cup IdItem \cup ExportItem \cup IndexItem \cup FragmentItem \cup EntryItem
           \cup KeyItem \cup ValueItem \cup XattrIdItem
    /\ one.inode_count \in Nat

\* Sound is what an archive is called that has everything where the iterators look for it; nothing
\* is assumed of the others.
ASSUME SoundArchivesAssumption == \A one \in Archives : one.sound => LaidOut(one)

\* A name is a sequence of characters, also where it is asked for.
ASSUME XattrAskedAssumption == XattrAsked \subseteq Seq(Nat)

VARIABLES archive, \* the archive that is mounted
          scarce,  \* whether memory may be short
          map,     \* its inode map
          known,   \* the kernel's inodes, with the reference each stands for
          handle,  \* struct FsDirHandle
          last     \* the request that was answered last, until the kernel has the answer

mountVars == <<archive, scarce, map, known, handle, last>>

FuseRoot == 1
NoAnswer == [op |-> "none"]
NoDir == [open |-> FALSE]
Answer(op, ino, arg, rv, value) == [op |-> op, ino |-> ino, arg |-> arg, rv |-> rv, value |-> value]

\* fs_common_inode_sqsh_to_ino and fs_common_inode_sqsh_from_ino
ToIno(number) == number + 1
FromIno(ino) == ino - 1

\* fs_common_context_inode_ref
RefOf(ino) == IF ino = FuseRoot THEN archive.root ELSE MapGet(archive, map, FromIno(ino))

\* fs_common_map_err
MapErr(rv) ==
    CASE rv = "no such file" -> "ENOENT" [] rv = "not a directory" -> "ENOTDIR"
      [] rv = "no such xattr" -> "ENODATA" [] OTHER -> "EIO"

\* Whether an allocation of the inode map finds memory.
Memory == IF scarce THEN BOOLEAN ELSE {TRUE}

\* fs_file_open
OpenedRef(ref, memory) ==
    IF ref = NoRef THEN [file |-> [rv |-> "error"], map |-> map] ELSE Opened(archive, map, ref, memory)
FileOpen(ino, memory) == OpenedRef(RefOf(ino), memory)

TypeOfIno(ino) == archive.tree[known[ino]].type
NoListing == [entries |-> <<>>, ended |-> FALSE]

MountInit ==
    /\ archive \in Archives /\ scarce \in BOOLEAN
    /\ map = EmptyMap(archive)
    /\ known = [ino \in {FuseRoot} |-> archive.root]
    /\ handle = [h \in Handles |-> NoDir]
    /\ last = NoAnswer

\* What the handlers do, f being the file that they open first with the map after that.  A lookup
\* finds memory or not for the file that it comes to.

LookupFails(ino, name, m, rv) ==
    /\ map' = m
    /\ last' = Answer("lookup", ino, name, rv, NoRef)
    /\ UNCHANGED <<known, handle>>

\* What the kernel knows once it is told that an inode stands for a reference.
Told(ino, ref) == [i \in DOMAIN known \cup {ino} |-> IF i = ino THEN ref ELSE known[i]]

\* The file that is found is in the map before the kernel knows of it.
LookupEntered(ino, name, child, set) ==
    IF set.ok
    THEN /\ map' = set.map
         /\ known' = Told(ToIno(child.file.inode.number), child.file.ref)
         /\ last' = Answer("lookup", ino, name, "ok", child.file.ref)
         /\ UNCHANGED handle
    ELSE LookupFails(ino, name, set.map, "EIO")

LookupOpened(ino, name, child, memory) ==
    IF child.file.rv = "ok"
    THEN LookupEntered(ino, name, child,
                       MapSet(archive, child.map, child.file.inode.number, child.file.ref, memory))
    ELSE LookupFails(ino, name, child.map, "EIO")

LookupFound(ino, name, m, d, memory) ==
    CASE d.rv = "end" -> LookupFails(ino, name, m, MapErr("no such file"))
      [] d.rv \in {"error", "garbled"} -> LookupFails(ino, name, m, "EIO")
      [] OTHER -> LookupOpened(ino, name, Opened(archive, m, EntryRef(d), memory), memory)

\* fs_lookup
Lookup(ino, f, name, memory) ==
    IF f.file.rv = "ok"
    THEN LookupFound(ino, name, f.map, DirectoryLookup(archive, f.file, FreshDirectory(f.file), name), memory)
    ELSE LookupFails(ino, name, f.map, "EIO")

\* fs_common_getattr, what the inode says, with the owner and the group of the table of ids.
CommonGetAttr(file) ==
    [ref |-> file.ref, ino |-> ToIno(file.inode.number), type |-> file.inode.type,
     size |-> SizeOf(file.inode), links |-> HardLinks(file.inode),
     uid |-> GetId(archive, file.inode.uid), gid |-> GetId(archive, file.inode.gid)]

\* fs_getattr
GetAttr(ino, f) ==
    /\ map' = f.map
    /\ last' = IF f.file.rv = "ok" THEN Answer("getattr", ino, <<>>, "ok", CommonGetAttr(f.file))
               ELSE Answer("getattr", ino, <<>>, "EIO", NoRef)
    /\ UNCHANGED <<known, handle>>

\* fs_access: whether the mode has one of the bits asked for is left open.
Access(ino, f) ==
    /\ map' = f.map
    /\ \E rv \in IF f.file.rv = "ok" THEN {"ok", "EACCES"} ELSE {"EIO"} :
           last' = Answer("access", ino, <<>>, rv, NoRef)
    /\ UNCHANGED <<known, handle>>

\* fs_open
OpenFile(ino, f) ==
    /\ map' = f.map
    /\ last' = IF f.file.rv = "ok" THEN Answer("open", ino, <<>>, "ok", f.file.ref)
               ELSE Answer("open", ino, <<>>, "EIO", NoRef)
    /\ UNCHANGED <<known, handle>>

\* fs_readlink
ReadLink(ino, f) ==
    /\ map' = f.map
    /\ last' = CASE f.file.rv # "ok" -> Answer("readlink", ino, <<>>, "EIO", NoRef)
                 [] f.file.rv = "ok" /\ f.file.inode.type # "symlink" ->
                      Answer("readlink", ino, <<>>, "EINVAL", NoRef)
                 [] OTHER -> Answer("readlink", ino, <<>>, "ok", f.file.ref)
    /\ UNCHANGED <<known, handle>>

OpenDirFails(ino) ==
    /\ last' = Answer("opendir", ino, <<>>, "EIO", NoRef)
    /\ UNCHANGED handle

OpenDirIterator(ino, h, d) ==
    IF d.rv = "error" THEN OpenDirFails(ino)
    ELSE /\ handle' = [handle EXCEPT ![h] = [open |-> TRUE, dir |-> d.file, iterator |-> d,
                                             listing |-> NoListing]]
         /\ last' = Answer("opendir", ino, <<>>, "ok", h)

\* fs_opendir
OpenDir(ino, f, h) ==
    /\ handle[h] = NoDir
    /\ map' = f.map
    /\ IF f.file.rv = "ok" THEN OpenDirIterator(ino, h, FreshDirectory(f.file)) ELSE OpenDirFails(ino)
    /\ UNCHANGED known

\* The handle's listing with the entry that the iterator has come to.
ListingWith(listing, d) ==
    [entries |-> IF d.rv = "next"
                 THEN Append(listing.entries, [name |-> d.entry.name, ino |-> ToIno(d.inode)])
                 ELSE listing.entries,
     ended |-> d.rv = "end"]

ReadDirAnswer(h, d) ==
    /\ handle' = [handle EXCEPT ![h].iterator = d, ![h].listing = ListingWith(@, d)]
    /\ last' = Answer("readdir", 0, h, IF d.rv \in {"next", "end"} THEN "ok" ELSE "EIO", <<>>)

\* fs_readdir: one entry for each request, nothing at the end.  The kernel stops at an error,
\* and asks in order.
ReadDir(h) ==
    /\ handle[h].open /\ handle[h].iterator.rv = "next" /\ ~handle[h].listing.ended
    /\ ReadDirAnswer(h, DirectoryNext(archive, handle[h].iterator))
    /\ UNCHANGED <<map, known>>

\* fs_releasedir
ReleaseDir(h) ==
    /\ handle[h].open
    /\ handle' = [handle EXCEPT ![h] = NoDir]
    /\ last' = Answer("releasedir", 0, h, "ok", <<>>)
    /\ UNCHANGED <<map, known>>

\* What a buffer of a size gets of a value: the size of the value when it is empty.
InBuffer(op, ino, arg, size, value, length, overflow) ==
    IF size = 0 THEN Answer(op, ino, arg, "size", length)
    ELSE IF size < length THEN Answer(op, ino, arg, overflow, <<>>) ELSE Answer(op, ino, arg, "ok", value)

XattrAnswer(ino, name, size, x) ==
    CASE x.rv = "end" -> Answer("getxattr", ino, name, MapErr("no such xattr"), <<>>)
      [] x.rv \in {"error", "garbled"} -> Answer("getxattr", ino, name, "EIO", <<>>)
      [] OTHER -> InBuffer("getxattr", ino, name, size, x.value, Len(x.value), "ERANGE")

\* fs_getxattr
GetXattr(ino, f, name, size) ==
    /\ map' = f.map
    /\ last' = IF f.file.rv = "ok"
               THEN XattrAnswer(ino, name, size, XattrLookup(archive, FreshXattrs(archive, f.file), name))
               ELSE Answer("getxattr", ino, name, "EIO", <<>>)
    /\ UNCHANGED <<known, handle>>

\* Bytes of the names in a buffer, each with its end.
NamesSize(names) == FoldLeft(LAMBDA n, name : n + Len(name) + 1, 0, names)

\* fs_common_listxattr_size and fs_common_listxattr: a buffer that is too small is an
\* input/output error.
ListAnswer(ino, size, l) ==
    IF l.rv = "end" THEN InBuffer("listxattr", ino, size, size, l.names, NamesSize(l.names), "EIO")
    ELSE Answer("listxattr", ino, size, "EIO", <<>>)

\* fs_listxattr
ListXattr(ino, f, size) ==
    /\ map' = f.map
    /\ last' = IF f.file.rv = "ok"
               THEN ListAnswer(ino, size, XattrNames(archive, FreshXattrs(archive, f.file)))
               ELSE Answer("listxattr", ino, size, "EIO", <<>>)
    /\ UNCHANGED <<known, handle>>

\* Reading the archive fails in a handler that reads it: it answers so, and a directory handle
\* is of no use then.
ReadFails ==
    /\ last' = Answer("any", 0, <<>>, "EIO", <<>>)
    /\ \/ UNCHANGED handle
       \/ \E h \in Handles : /\ handle[h].open
                             /\ handle' = [handle EXCEPT ![h].iterator.rv = "error"]
    /\ UNCHANGED <<map, known>>

\* The kernel takes the answer; what it asks next does not depend on it but for what is known.
Taken ==
    /\ last # NoAnswer
    /\ last' = NoAnswer
    /\ UNCHANGED <<map, known, handle>>

\* What is asked about an inode begins with opening its file.
Asked(ino, f) ==
    \/ GetAttr(ino, f)
    \/ Access(ino, f)
    \/ OpenFile(ino, f)
    \/ ReadLink(ino, f)
    \/ \E size \in BufferSizes : ListXattr(ino, f, size)
    \/ \E size \in BufferSizes, name \in XattrAsked : GetXattr(ino, f, name, size)
    \/ TypeOfIno(ino) = "directory" /\ \E name \in Names, memory \in Memory : Lookup(ino, f, name, memory)
    \/ TypeOfIno(ino) = "directory" /\ \E h \in Handles : OpenDir(ino, f, h)

Request ==
    /\ last = NoAnswer
    /\ \/ \E ino \in DOMAIN known, memory \in Memory : Asked(ino, FileOpen(ino, memory))
       \/ \E h \in Handles : ReadDir(h) \/ ReleaseDir(h)
       \/ ReadFails

MountNext == UNCHANGED <<archive, scarce>> /\ (Request \/ Taken)

MountSpec == MountInit /\ [][MountNext]_mountVars

-----------------------------------------------------------------------------
(* Properties.  archive.tree says what the archive holds without the tables' bytes: for each *)
(* reference the type, the listing and the attributes; archive.sound, whether it is one that *)
(* a writer of archives could have made.                                                      *)

Holds(ref) == archive.tree[ref]

\* Whenever the file was opened, there was no memory for its inode in the growing map.
Lost(ino) == scarce /\ RefOf(ino) = NoRef
Refused == last.rv = "EIO" /\ Lost(last.ino)

Listed(ref) == [k \in DOMAIN Holds(ref).listing |->
                   LET e == Holds(ref).listing[k] IN [name |-> e.name, ino |-> ToIno(Holds(e.ref).number)]]

\* What a listing may be from any archive: no name leaves the directory, no inode is the root's,
\* and the names ascend, so that none comes twice.
SafeListing(entries) ==
    /\ \A k \in DOMAIN entries : ~IsBadName(entries[k].name) /\ entries[k].ino > FuseRoot
    /\ \A j, k \in DOMAIN entries : j < k => Before(entries[j].name, entries[k].name)

\* Reading a directory answers its entries in order, each once, with its inode, and the end only
\* after the last of them, wherever fragments and entries cross metablocks.  From an archive that
\* is damaged no name is answered that leaves the directory, and none twice.
ListsDirectory ==
    \A h \in Handles : handle[h].open =>
        LET listing == handle[h].listing
            all == Listed(handle[h].dir)
        IN  /\ SafeListing(listing.entries)
            /\ archive.sound => /\ IsPrefix(listing.entries, all)
                                /\ listing.ended => listing.entries = all

\* A lookup finds the file of that name, and finds none only if there is none, with or without
\* an index.  It fails only where the index leads to a fragment that begins past OffsetMax, and
\* in a directory that the inode map lost.
LooksUpEntry ==
    archive.sound /\ last.op = "lookup" =>
        LET dir == Holds(known[last.ino])
            found == {e \in Range(dir.listing) : e.name = last.arg}
        IN  \/ last.rv = "ok" /\ \E e \in found : e.ref = last.value
            \/ last.rv = "ENOENT" /\ found = {}
            \/ /\ last.rv = "EIO"
               /\ \E e \in Range(dir.listing) : e.from > OffsetMax /\ ~Before(last.arg, e.name)
            \/ Refused

\* No lookup fails in a directory that is sound, however long its listing is
\* (sqsh_directory_iterator_lookup).
LooksUpAnywhere ==
    archive.sound /\ last.op = "lookup" /\ ~Lost(last.ino) => last.rv \in {"ok", "ENOENT"}

\* An inode is opened, asked about, and read as a link if it is one, as what the kernel knows it for.
InodeFound ==
    /\ last.op = "getattr" =>
          LET held == Holds(known[last.ino])
          IN  /\ last.rv = "ok" /\ last.value.ref = known[last.ino] /\ last.value.type = held.type
              /\ last.value.size = held.size /\ last.value.links = held.links
              /\ last.value.uid = held.owner[1] /\ last.value.gid = held.owner[2]
              /\ last.ino # FuseRoot => last.value.ino = last.ino
    /\ last.op = "access" => last.rv # "EIO"
    /\ last.op \in {"open", "readlink"} =>
          IF last.op = "readlink" /\ Holds(known[last.ino]).type # "symlink" THEN last.rv = "EINVAL"
          ELSE last.rv = "ok" /\ last.value = known[last.ino]

InodeAnswered ==
    last.op \in {"getattr", "access", "open", "readlink"} =>
        IF Lost(last.ino) THEN Refused ELSE InodeFound

\* What the kernel has been told of can be asked for as long as the file system is mounted: an
\* inode stands for the file that the lookup found, whether or not the archive has an export
\* table, and that file has that inode number, that owner and group.  It can be opened, and
\* read as a link if it is one.  Where memory is short the growing map may have lost the inode,
\* and every request for it is refused then; it never stands for another file.
InodesResolve ==
    archive.sound => InodeAnswered /\ \A ino \in DOMAIN known : RefOf(ino) = known[ino] \/ Lost(ino)

\* What is answered about attributes is what the file has: the list, the size announced for it,
\* and the value of an attribute, wherever it is stored; when the attributes are in descending
\* order, that there is none only if there is none.
AnswersXattrs ==
    archive.sound /\ last.op \in {"getxattr", "listxattr"} =>
        LET attrs == Holds(known[last.ino]).attrs
            names == [k \in DOMAIN attrs |-> attrs[k].name]
            descending == \A j, k \in DOMAIN names : j < k => Before(names[k], names[j])
            value == {a.value : a \in {b \in Range(attrs) : b.name = last.arg}}
        IN  \/ last.op = "listxattr" /\ last.rv = "ok" /\ last.value = names
            \/ last.op = "listxattr" /\ last.rv = "size" /\ last.value = NamesSize(names)
            \/ last.op = "listxattr" /\ last.rv = "EIO" /\ last.arg < NamesSize(names)
            \/ last.op = "getxattr" /\ last.rv = "ok" /\ last.value \in value
            \/ last.op = "getxattr" /\ last.rv = "size" /\ \E v \in value : last.value = Len(v)
            \/ last.op = "getxattr" /\ last.rv = "ERANGE" /\ value # {}
            \/ last.op = "getxattr" /\ last.rv = "ENODATA" /\ (descending => value = {})
            \/ Refused

\* An attribute that the file has is found when it is looked up by its name
\* (sqsh_xattr_iterator_lookup, sqsh_easy_xattr_get, fs_getxattr).
XattrFound ==
    archive.sound /\ last.op = "getxattr" /\ last.rv = "ENODATA" =>
        \A a \in Range(Holds(known[last.ino]).attrs) : a.name # last.arg
=============================================================================
