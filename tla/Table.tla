------------------------------- MODULE Table -------------------------------
(***************************************************************************)
(* table/table.c and the tables made of it: elements of one size, cut into *)
(* metablocks, and a list of the addresses of these metablocks.            *)
(***************************************************************************)
EXTENDS Metablock

CONSTANTS IdSize,      \* bytes of a user or group id in its table
          ExportSize,  \* bytes of an inode reference
          XattrIdSize  \* sizeof(struct SqshDataXattrLookupTable)

ASSUME IdSizeAssumption      == IdSize \in Nat \ {0}
ASSUME ExportSizeAssumption  == ExportSize \in Nat \ {0}
ASSUME XattrIdSizeAssumption == XattrIdSize \in Nat \ {0}

\* sqsh__table_init: of the addresses stored, as many as the elements take metablocks.
TableInit(stored, size, count) ==
    LET metablocks == (size * count + MetaSize - 1) \div MetaSize
    IN  [blocks |-> stored.blocks, lookup |-> SubSeq(stored.lookup, 1, metablocks),
         size |-> size, count |-> count]

\* sqsh_table_get: the reader that shows the element, or that failed.
TableGet(table, index) ==
    LET offset == index * table.size
        n == offset \div MetaSize
    IN  IF index \notin 0..(table.count - 1) \/ n >= Len(table.lookup)
        THEN [reader |-> Broken(FreshReader)]
        ELSE MetaAdvanced(table.blocks, FreshMetaReader(table.lookup[n + 1]),
                          offset % MetaSize, table.size)

\* sqsh__id_table_init, sqsh__export_table_init, and sqsh__xattr_table_init, whose header has
\* the number of elements.
IdTable(archive) == TableInit(archive.ids, IdSize, archive.id_count)
ExportTable(archive) == TableInit(archive.export, ExportSize, archive.inode_count)
XattrTable(archive) == TableInit(archive.xattr_ids, XattrIdSize, archive.xattr_count)
=============================================================================
