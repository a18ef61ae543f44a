-------------------------- MODULE MC_PathResolver --------------------------
(***************************************************************************)
(* Archives of three nested directories with a symlink in each of the      *)
(* upper two.  The targets let a symlink point to itself, to the other, to *)
(* directories, a file, the root, and to nothing.                          *)
(***************************************************************************)
EXTENDS PathResolver

Rel(segs) == [abs |-> FALSE, segs |-> segs]
Abs(segs) == [abs |-> TRUE, segs |-> segs]

TargetsOfL == {Rel(<<"b">>), Rel(<<"a">>), Abs(<<"a", "b">>), Abs(<<>>)}
TargetsOfM == {Rel(<<"a">>), Rel(<<"..", "b">>), Rel(<<"..", "a", "b">>), Abs(<<"a", "..", "c">>)}

MCPaths ==
    {[abs |-> abs, segs |-> segs] : abs \in BOOLEAN,
        segs \in {<<>>} \cup [1..1 -> Segment \ {"."}] \cup [1..2 -> Segment \ {"."}]}
    \cup {Rel(<<"b", ".">>), Rel(<<"c", ".">>), Rel(<<"b", "a", "b">>)}

Tree == [r |-> <<[name |-> "a", ref |-> "d"], [name |-> "b", ref |-> "l"], [name |-> "c", ref |-> "f"]>>,
         d |-> <<[name |-> "a", ref |-> "e"], [name |-> "b", ref |-> "m"]>>,
         e |-> <<[name |-> "b", ref |-> "f"]>>]

MCImages ==
    {[root |-> "r", list |-> Tree, parent |-> [r |-> "r", d |-> "r", e |-> "d"],
      target |-> [l |-> t, m |-> u]] : t \in TargetsOfL, u \in TargetsOfM}
=============================================================================
