---------------------------- MODULE XattrIterator ----------------------------
(***************************************************************************)
(* xattr/xattr_iterator.c and table/xattr_table.c: the extended attributes *)
(* of a file, key and value one after the other; a value that several      *)
(* files share is stored once and referred to.                             *)
(*                                                                         *)
(* An attribute's full name is its prefix, which its type stands for, and  *)
(* its name, both sequences of characters; a value is a sequence too.      *)
(***************************************************************************)
EXTENDS Inode

CONSTANTS KeySize,    \* sizeof(struct SqshDataXattrKey), without the name
          ValueSize,  \* sizeof(struct SqshDataXattrValue), without the value
          RefSize     \* bytes of a reference to a shared value

ASSUME KeySizeAssumption   == KeySize \in Nat \ {0}
ASSUME ValueSizeAssumption == ValueSize \in Nat \ {0}
ASSUME RefSizeAssumption   == RefSize \in Nat \ {0}

\* struct SqshDataXattrKey with struct SqshDataXattrValue behind it, its value in place or the
\* reference of one; a value on its own; the attributes of a file.
KeyItem ==
    [kind : {"key"}, type : {"security", "trusted", "user"}, name : Seq(Nat), indirect : BOOLEAN,
     size : Nat, value : Seq(Nat), ref : (Nat \X Nat) \cup {NoRef}]
ValueItem == [kind : {"value"}, value : Seq(Nat)]
XattrIdItem == [kind : {"xattr_id"}, start : Nat, offset : Nat, count : Nat, size : Nat]

\* sqsh_xattr_iterator_prefix: "security.", "trusted." and "user.", by their first letters.
Prefix(type) ==
    CASE type = "security" -> <<1>> [] type = "trusted" -> <<2>> [] type = "user" -> <<3>>
      [] OTHER -> <<>>

FullName(key) == Prefix(key.type) \o key.name

\* strncmp: whether the first n characters of a come after those of b.
After(a, b, n) ==
    \E k \in 1..n : /\ k <= Len(a) /\ SubSeq(a, 1, k - 1) = SubSeq(b, 1, k - 1)
                    /\ k > Len(b) \/ a[k] > b[k]

\* sqsh_xattr_iterator_fullname_cmp: "equal", "after" when the name asked for is greater than
\* the key's, and "before", which a name of another length counts as.
CompareName(key, name) ==
    LET prefix == Prefix(key.type)
        n == Len(prefix)
        rest == SubSeq(name, n + 1, Len(name))
    IN  CASE ~IsPrefix(prefix, name) -> IF After(name, prefix, n) THEN "after" ELSE "before"
          [] IsPrefix(prefix, name) /\ Len(rest) # Len(key.name) -> "before"
          [] OTHER -> IF rest = key.name THEN "equal"
                      ELSE IF After(rest, key.name, Len(rest)) THEN "after" ELSE "before"

NoAttributes ==
    [meta |-> FreshMetaReader(0), remaining_entries |-> 0, remaining_size |-> 0,
     next_offset |-> 0, key |-> NoItem, value |-> <<>>, rv |-> "next"]

\* sqsh__xattr_table_get
AttributesAt(x, ids) ==
    [x EXCEPT !.meta = FreshMetaReader(ids.start), !.next_offset = ids.offset,
              !.remaining_entries = ids.count, !.remaining_size = ids.size]
AttributesShown(archive, x) == IF Ended(x) THEN x ELSE AttributesAt(x, Shown(archive, x.meta))

\* sqsh__xattr_iterator_init: nothing when the file has no attributes or the archive no table;
\* else what the table has under the file's index, which is counted from 1 here.
FreshXattrs(archive, file) ==
    IF ~file.inode.extended \/ file.inode.xattr = 0 \/ archive.xattr_count = 0 THEN NoAttributes
    ELSE AttributesShown(archive, Checked([NoAttributes EXCEPT
             !.meta = TableGet(XattrTable(archive), file.inode.xattr - 1)]))

ValueShown(archive, v) == IF Ended(v) THEN v ELSE [v EXCEPT !.value = Shown(archive, v.meta).value]
ValueNamed(archive, v) ==
    IF Ended(v) THEN v
    ELSE Extend(archive, v, archive.xattrs, ValueSize + Len(Shown(archive, v.meta).value), "value")

\* xattr_value_indirect_load: a metablock reader of its own shows the value.
IndirectValue(archive, key) ==
    LET v == [rv |-> IF key.size = RefSize THEN "next" ELSE "error", value |-> <<>>,
              meta |-> FreshMetaReader(key.ref[1])]
    IN  ValueShown(archive, ValueNamed(archive,
            Begin(archive, v, archive.xattrs, key.ref[2], ValueSize, "value")))

\* Mutant of ValueOf: a reference to a value is given for the value.
ValueOfInline(archive, key) ==
    [rv |-> "next", value |-> IF key.indirect THEN key.ref ELSE key.value]

\* The value of an attribute, in place or shared.
ValueOf(archive, key) ==
    IF key.indirect THEN IndirectValue(archive, key) ELSE [rv |-> "next", value |-> key.value]

\* The end of sqsh_xattr_iterator_next: the size of the lookup table counts the full name with
\* its end and the value.
Valued(x, key, v) ==
    LET processed == Len(FullName(key)) + Len(v.value) + 1
    IN  IF v.rv # "next" \/ processed > x.remaining_size THEN [x EXCEPT !.rv = "error"]
        ELSE [x EXCEPT !.key = key, !.value = v.value, !.remaining_entries = @ - 1,
                       !.next_offset = KeySize + Len(key.name) + ValueSize + key.size,
                       !.remaining_size = @ - processed]

KeyShown(archive, x) ==
    IF Ended(x) THEN x
    ELSE Valued(x, Shown(archive, x.meta), ValueOf(archive, Shown(archive, x.meta)))

\* Key and name, then key and value.
KeyNamed(archive, x) ==
    IF Ended(x) THEN x
    ELSE LET key == Shown(archive, x.meta)
             named == KeySize + Len(key.name) + ValueSize
         IN  IF Prefix(key.type) = <<>> THEN Fails(x)
             ELSE Extend(archive, Extend(archive, x, archive.xattrs, named, "key"),
                         archive.xattrs, named + key.size, "key")

\* sqsh_xattr_iterator_next: key, key and name, key and value, and the value elsewhere.
XattrNext(archive, x) ==
    CASE Ended(x) -> x
      [] ~Ended(x) /\ x.remaining_entries = 0 ->
           [x EXCEPT !.rv = IF x.remaining_size = 0 THEN "end" ELSE "error"]
      [] OTHER -> KeyShown(archive, KeyNamed(archive,
                      Begin(archive, x, archive.xattrs, x.next_offset, KeySize, "key")))

\* The loop of sqsh_xattr_iterator_lookup, from the first attribute on: it stops where the name
\* is greater than a key's.
XattrTurn(archive, x, name) ==
    CASE Ended(x) -> x
      [] ~Ended(x) /\ CompareName(x.key, name) = "equal" -> x
      [] ~Ended(x) /\ CompareName(x.key, name) = "after" -> [x EXCEPT !.rv = "end"]
      [] OTHER -> XattrNext(archive, x)

\* Every turn but the last goes one attribute on.
FindXattr(archive, x, name) ==
    Turns(LAMBDA y : XattrTurn(archive, y, name), x, x.remaining_entries + 2)

\* sqsh_xattr_iterator_lookup
XattrLookup(archive, x, name) == FindXattr(archive, XattrNext(archive, x), name)

\* The loops of fs_common_listxattr_size, fs_common_listxattr and sqsh_easy_xattr_keys: the full
\* names in order, with what the last call returned.
NamesTurn(archive, l) ==
    IF Ended(l.x) THEN l
    ELSE [x |-> XattrNext(archive, l.x), names |-> Append(l.names, FullName(l.x.key))]

XattrNames(archive, x) ==
    LET l == Turns(LAMBDA k : NamesTurn(archive, k), [x |-> XattrNext(archive, x), names |-> <<>>],
                   x.remaining_entries + 1)
    IN  [rv |-> l.x.rv, names |-> l.names]
=============================================================================
