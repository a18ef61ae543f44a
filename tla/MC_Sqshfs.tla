------------------------------ MODULE MC_Sqshfs ------------------------------
(***************************************************************************)
(* Small archives for Sqshfs.  An archive is written from its files and    *)
(* attribute lists the way a writer lays the tables out: every item at the *)
(* place that the sizes of those before it give, the tables cut into       *)
(* metablocks of which every second is stored compressed.  The listing of  *)
(* a directory comes after those of the directories in it.                 *)
(***************************************************************************)
EXTENDS Sqshfs

CONSTANTS Images  \* the names of the archives of a run

Sum(s) == FoldLeft(LAMBDA a, b : a + b, 0, s)
Each(Op(_), s) == [k \in DOMAIN s |-> Op(s[k])]

\* Where the byte at place p of a table lies.
StoredSize(b) == IF b % 2 = 0 THEN MetaSize ELSE MetaSize - 2
AddressOf(b) == b * (MetaHeader + MetaSize) - 2 * (b \div 2)
RefTo(p) == <<AddressOf(p \div MetaSize), p % MetaSize>>

ItemSize(item) ==
    CASE item.kind = "inode" -> InodeHeader + TypeSize(item) + PayloadSize(item)
      [] item.kind = "index" -> IndexSize + Len(item.name)
      [] item.kind = "fragment" -> FragmentSize
      [] item.kind = "entry" -> EntrySize + Len(item.name)
      [] item.kind = "key" -> KeySize + Len(item.name) + ValueSize + item.size
      [] item.kind = "value" -> ValueSize + Len(item.value)
      [] item.kind = "id" -> IdSize
      [] item.kind = "ref" -> ExportSize
      [] item.kind = "xattr_id" -> XattrIdSize

\* The table of the items whose numbers begin after skip.
TableOf(items, skip) ==
    LET bytes == FlattenSeq([n \in DOMAIN items |->
                                [k \in 1..ItemSize(items[n]) |-> <<n + skip, k>>]])
        End(b) == IF b * MetaSize < Len(bytes) THEN b * MetaSize ELSE Len(bytes)
    IN  [b \in 1..((Len(bytes) + MetaSize - 1) \div MetaSize) |->
            [address |-> AddressOf(b - 1), stored |-> StoredSize(b - 1), bytes |-> SubSeq(bytes, (b - 1) * MetaSize + 1, End(b))]]

\* A table with the addresses of its metablocks.
Addressed(blocks) == [blocks |-> blocks, lookup |-> [b \in DOMAIN blocks |-> blocks[b].address]]

\* A file and a directory: fragments are sequences of entries, a name and the file's place.
File(type, extended, number, size, fragment, xattr) ==
    [type |-> type, extended |-> extended, number |-> number, size |-> size,
     fragment |-> fragment, xattr |-> xattr, fragments |-> <<>>, uid |-> number, gid |-> 0,
     links |-> number + 1]
Dir(extended, number, xattr, fragments) ==
    [File("directory", extended, number, 0, FALSE, xattr) EXCEPT !.fragments = fragments]
E(name, file) == [name |-> name, file |-> file]

\* An attribute, its value in place or shared.
Attr(type, name, value, indirect) ==
    [kind |-> "key", type |-> type, name |-> name, value |-> value, indirect |-> indirect,
     size |-> IF indirect THEN RefSize ELSE Len(value), ref |-> NoRef]

FragmentLength(fragment) == FragmentSize + Sum(Each(LAMBDA e : EntrySize + Len(e.name), fragment))
ListingLength(f) == Sum(Each(FragmentLength, f.fragments))
IndexBytes(f) == IF f.extended /\ f.fragments # <<>>
                  THEN Sum(Each(LAMBDA g : IndexSize + Len(g[1].name), Tail(f.fragments))) ELSE 0
FileLength(f) == InodeHeader + TypeSize(f) + PayloadSize(f) + IndexBytes(f)

Archive(files, attrs, exported, sound) ==
    LET InodePlace(n) == Sum(Each(FileLength, SubSeq(files, 1, n - 1)))
        InodeAt(n) == RefTo(InodePlace(n))
        ListingAt(n) == Sum(Each(ListingLength, SubSeq(files, n + 1, Len(files))))
        FragmentAt(n, g) == Sum(Each(FragmentLength, SubSeq(files[n].fragments, 1, g - 1)))
        \* Where a lookup with an index begins to read fragment g.
        FromOf(n, g) == RefTo(ListingAt(n))[2] + FragmentAt(n, g)
        InodeItems(n) ==
            LET f == files[n]
                start == RefTo(ListingAt(n))
                indexes == IF f.extended /\ f.fragments # <<>> THEN Len(f.fragments) - 1 ELSE 0
            IN  <<[kind |-> "inode", type |-> f.type, extended |-> f.extended, number |-> f.number,
                   size |-> IF f.type = "directory" THEN ListingLength(f) + 3 ELSE f.size,
                   fragment |-> f.fragment, xattr |-> f.xattr, uid |-> f.uid, gid |-> f.gid, links |-> f.links,
                   start |-> start[1],
                   offset |-> start[2], indexes |-> indexes]>>
                \o [g \in 1..indexes |->
                       [kind |-> "index", name |-> f.fragments[g + 1][1].name,
                        start |-> RefTo(ListingAt(n) + FragmentAt(n, g + 1))[1],
                        index |-> FragmentAt(n, g + 1)]]
        FragmentItems(fragment) ==
            LET base == files[fragment[1].file].number
            IN  <<[kind |-> "fragment", count |-> Len(fragment) - 1, inode_base |-> base,
                   start |-> InodeAt(fragment[1].file)[1]]>>
                \o Each(LAMBDA e : [kind |-> "entry", name |-> e.name, at |-> InodeAt(e.file)[2],
                                    offset |-> files[e.file].number - base,
                                    type |-> files[e.file].type], fragment)
        ListingItems(f) == FlattenSeq(Each(FragmentItems, f.fragments))
        keys == FlattenSeq(attrs)
        shared == SelectSeq(keys, LAMBDA a : a.indirect)
        values == Each(LAMBDA a : [kind |-> "value", value |-> a.value], shared)
        ValuePlace(a) == Sum(Each(ItemSize, SubSeq(values, 1, SelectInSeq(shared, LAMBDA b : b = a) - 1)))
        keyItems == Each(LAMBDA a : IF a.indirect THEN [a EXCEPT !.ref = RefTo(ValuePlace(a))] ELSE a, keys)
        KeysPlace(k) == Sum(Each(ItemSize, values)) + Sum(Each(ItemSize, FlattenSeq(SubSeq(attrs, 1, k - 1))))
        KeysAt(k) == RefTo(KeysPlace(k))
        inodes == FlattenSeq([n \in DOMAIN files |-> InodeItems(n)])
        listings == FlattenSeq(Reverse(Each(ListingItems, files)))
        xattrs == values \o keyItems
        refs == [m \in DOMAIN files |->
                    [kind |-> "ref", ref |-> IF \E f \in Range(files) : f.number = m
                                             THEN InodeAt(CHOOSE n \in DOMAIN files : files[n].number = m)
                                             ELSE NoRef]]
        ids == [k \in 1..5 |-> [kind |-> "id", id |-> 100 + k]]
        xattrIds == [k \in DOMAIN attrs |->
             [kind |-> "xattr_id", start |-> KeysAt(k)[1], offset |-> KeysAt(k)[2], count |-> Len(attrs[k]),
              size |-> Sum(Each(LAMBDA a : Len(FullName(a)) + Len(a.value) + 1, attrs[k]))]]
        all == inodes \o listings \o xattrs
        \* What the tree says, with the places.
        Entries(n, g) ==
            LET fragment == files[n].fragments[g]
                header == ListingAt(n) + FragmentAt(n, g)
            IN  [k \in DOMAIN fragment |->
                    [name |-> fragment[k].name, ref |-> InodeAt(fragment[k].file),
                     from |-> IF files[n].extended THEN FromOf(n, g) ELSE 0,
                     place |-> header + FragmentLength(SubSeq(fragment, 1, k - 1)),
                     header |-> header, left |-> Len(fragment) - k]]
        Index(n) ==
            LET items == Tail(InodeItems(n))
            IN  [k \in DOMAIN items |->
                    [place |-> InodePlace(n) + Sum(Each(ItemSize, SubSeq(InodeItems(n), 1, k))),
                     entry |-> 1 + Sum(Each(Len, SubSeq(files[n].fragments, 1, k)))]]
        Attributes(k) ==
            LET Counts(j) == Len(FullName(attrs[k][j])) + Len(attrs[k][j].value) + 1
            IN  [j \in DOMAIN attrs[k] |->
                    [name |-> FullName(attrs[k][j]), value |-> attrs[k][j].value,
                     place |-> KeysPlace(k) + Sum(Each(ItemSize, SubSeq(attrs[k], 1, j - 1))),
                     shared |-> IF attrs[k][j].indirect THEN ValuePlace(attrs[k][j]) ELSE 0,
                     rest |-> Sum([i \in 1..(Len(attrs[k]) + 1 - j) |-> Counts(i + j - 1)])]]
    IN  [items |-> all \o refs \o ids \o xattrIds,
         inodes |-> TableOf(inodes, 0),
         directories |-> TableOf(listings, Len(inodes)),
         xattrs |-> TableOf(xattrs, Len(inodes \o listings)),
         export |-> Addressed(TableOf(refs, Len(all))),
         ids |-> Addressed(TableOf(ids, Len(all \o refs))),
         xattr_ids |-> Addressed(TableOf(xattrIds, Len(all \o refs \o ids))),
         id_count |-> Len(ids), xattr_count |-> Len(attrs),
         root |-> InodeAt(1),
         inode_count |-> Len(files),
         exported |-> exported,
         sound |-> sound,
         tree |-> [r \in {InodeAt(n) : n \in DOMAIN files} |->
             LET n == CHOOSE k \in DOMAIN files : InodeAt(k) = r
                 f == files[n]
             IN  [type |-> f.type, number |-> f.number,
                  links |-> IF f.type = "file" /\ ~f.extended THEN 1 ELSE f.links,
                  size |-> CASE f.type = "directory" -> ListingLength(f) + 3
                             [] f.type = "device" -> 0 [] OTHER -> f.size,
                  owner |-> <<101 + f.uid, 101 + f.gid>>,
                  place |-> InodePlace(n),
                  listing |-> FlattenSeq([g \in DOMAIN f.fragments |-> Entries(n, g)]),
                  index |-> IF f.extended THEN Index(n) ELSE <<>>,
                  attrs |-> IF f.xattr = 0 \/ ~f.extended THEN <<>> ELSE Attributes(f.xattr)]]]

a == <<3>>    b == <<4>>    bb == <<4, 4>>    c == <<5>>

\* A root with a directory and files; fragments end where the inode table goes on to another
\* metablock.  The symlink is an extended one, the files have block lists.
plain ==
    <<Dir(FALSE, 4, 0, <<<<E(a, 2), E(b, 3)>>, <<E(bb, 4)>>>>),
      Dir(FALSE, 1, 0, <<<<E(b, 3)>>>>),
      File("symlink", TRUE, 2, 1, FALSE, 0),
      File("file", FALSE, 3, 5, FALSE, 0)>>

\* A root of four fragments with an index, and a directory in it.
indexed ==
    <<Dir(TRUE, 4, 0, <<<<E(a, 2)>>, <<E(b, 3)>>, <<E(bb, 4)>>, <<E(c, 2)>>>>),
      File("file", TRUE, 1, 4, TRUE, 0), File("device", FALSE, 2, 0, FALSE, 0),
      Dir(FALSE, 3, 0, <<<<E(c, 3)>>>>)>>

\* Attributes in descending order, a value shared by two files, and attributes in another order.
descending == <<<<Attr("user", a, <<7, 7>>, FALSE), Attr("trusted", bb, <<8>>, TRUE)>>,
                <<Attr("trusted", bb, <<8>>, TRUE)>>, <<>>>>
ascending == <<<<Attr("security", a, <<7>>, FALSE), Attr("user", a, <<8>>, FALSE)>>>>

\* Files with attributes.
tagged(n) ==
    <<Dir(TRUE, 3, 1, <<<<E(a, 2)>>, <<E(b, 3)>>>>),
      File("file", TRUE, 1, 4, TRUE, n), File("file", TRUE, 2, 4, TRUE, n + 1)>>

Layout ==
    [plain     |-> [files |-> plain, attrs |-> <<>>, exported |-> FALSE],
     exported  |-> [files |-> plain, attrs |-> <<>>, exported |-> TRUE],
     indexed   |-> [files |-> indexed, attrs |-> <<>>, exported |-> FALSE],
     tagged    |-> [files |-> tagged(2), attrs |-> descending, exported |-> FALSE],
     ascending |-> [files |-> tagged(0), attrs |-> ascending, exported |-> TRUE]]

\* Damage to the plain archive: item n, counted from the first fragment of the root, has another
\* value in a field.  A count that is too large, names out of order, twice, and "..", an inode
\* number of 0.
Damage ==
    [count |-> [n |-> 0, field |-> "count", value |-> 4],
     twice |-> [n |-> 1, field |-> "name", value |-> b],
     dots  |-> [n |-> 4, field |-> "name", value |-> <<Dot, Dot>>],
     zero  |-> [n |-> 1, field |-> "offset", value |-> -1]]

IsRootListing(item) == item.kind = "fragment" /\ item.count = 1

Damaged(built, d) ==
    [built EXCEPT !.sound = FALSE,
                    !.items[SelectInSeq(built.items, IsRootListing) + d.n][d.field] = d.value]

Built(layout) == Archive(layout.files, layout.attrs, layout.exported, TRUE)
Image(i) ==
    LET sound == Built(Layout[IF i \in DOMAIN Layout THEN i ELSE "plain"])
    IN  IF i \in DOMAIN Damage THEN Damaged(sound, Damage[i]) ELSE sound

MCArchives == {Image(i) : i \in Images}
MCNames == {a, b, bb, c}
MCXattrAsked == {<<2>> \o bb, <<3>> \o a}
MCNoRef == <<-1, 0>>

\* Nothing tells one handle from another.
Symmetry == Permutations(Handles)
=============================================================================
