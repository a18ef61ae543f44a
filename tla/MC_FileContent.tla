--------------------------- MODULE MC_FileContent ---------------------------
(***************************************************************************)
(* Files of up to three blocks of four bytes: every mix of raw, compressed *)
(* and sparse blocks, with and without a fragment, ending in a whole or a  *)
(* short block.  The first block may be raw with a sparse rest, when       *)
(* another block follows it.  Damaged blocks come first or second; a       *)
(* fragment lies anywhere in its block, or not in it.                      *)
(***************************************************************************)
EXTENDS FileContent, SequencesExt

Data(kind, stored) == [kind |-> kind, stored |-> stored]

Full == {Data("raw", 4), Data("packed", 2), Data("sparse", 0)}
Final(n) == {Data("raw", n), Data("packed", 2), Data("sparse", 0)}
Partial == Data("raw", 2)

\* A block of four bytes of fragments; without a fragment there is none.
Shared(kind, offset) == [kind |-> kind, size |-> 4, offset |-> offset]
NoShared == [kind |-> "raw", size |-> 0, offset |-> 0]

\* What a file's last block follows.
Inner == SeqOf(Full, 2) \cup {<<Partial>>} \cup {<<Partial, b>> : b \in Full}

Whole == UNION {{[blocks |-> Append(s, b), fragment |-> 0, last |-> n, codec |-> "zlib",
                    shared |-> NoShared] : s \in Inner, b \in Final(n)} :
                    n \in {3, 4}}
WithFragment ==
    {[blocks |-> s, fragment |-> n, last |-> 4, codec |-> "zstd",
      shared |-> Shared(IF n = 1 THEN "raw" ELSE "packed", 1)] : s \in Inner \ {<<Partial>>}, n \in {1, 3}}

\* A fragment in a damaged block, or at its end, or past it.
DamagedFragments ==
    {[blocks |-> <<Data("raw", 4)>>, fragment |-> 2, last |-> 4, codec |-> c, shared |-> f] :
        c \in Codecs, f \in {Shared(kind, n) : kind \in {"raw", "packed", "cut", "long", "broken"}, n \in 1..3}}

\* A block that cannot be decompressed as it should, for every decompressor, or is too large.
DamagedBlocks(n) ==
    UNION {{<<Data(kind, 2), Data("raw", n)>>, <<Data("raw", 4), Data(kind, 2)>>} :
              kind \in {"cut", "long", "broken"}} \cup {<<Data("raw", 4), Data("raw", 5), Data("raw", n)>>}
Damaged == UNION {{[blocks |-> s, fragment |-> 0, last |-> n, codec |-> c, shared |-> NoShared] :
                      s \in DamagedBlocks(n), c \in Codecs} : n \in {3, 4}}

MCImages == Whole \cup WithFragment \cup Damaged \cup DamagedFragments
            \cup {[blocks |-> <<>>, fragment |-> 0, last |-> 4, codec |-> "none", shared |-> NoShared]}
\* Files with a block stored in part: after another raw block, and before a fragment.
MCPartial == {[blocks |-> <<Data("raw", 4), Partial, Data("raw", 4)>>, fragment |-> 0, last |-> 4,
               codec |-> "none", shared |-> NoShared],
              [blocks |-> <<Partial>>, fragment |-> 1, last |-> 4, codec |-> "none",
               shared |-> Shared("raw", 1)]}
MCSequential == {[blocks |-> <<Data("packed", 2), Data("packed", 2)>>, fragment |-> 0, last |-> 4,
                  codec |-> "lzma", shared |-> NoShared]}
=============================================================================
