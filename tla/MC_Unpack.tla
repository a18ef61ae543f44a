----------------------------- MODULE MC_Unpack -----------------------------
(***************************************************************************)
(* A tree with files on two levels, more of them than may be open at a     *)
(* time, an empty directory and a symlink; and one file alone.             *)
(***************************************************************************)
EXTENDS Unpack

V(kind, path) == [kind |-> kind, path |-> path]

Tree == << V("BEGIN", <<>>),
             V("FILE", <<"a">>),
             V("BEGIN", <<"d">>),
               V("FILE", <<"d", "a">>), V("OTHER", <<"d", "b">>), V("FILE", <<"d", "c">>),
             V("END", <<"d">>),
             V("BEGIN", <<"e">>), V("END", <<"e">>),
           V("END", <<>>) >>

MCWalks == {Tree, <<V("FILE", <<>>)>>, <<V("OTHER", <<>>)>>}

Absolute == [abs |-> TRUE, path |-> <<"home", "t">>]
Here == [abs |-> FALSE, path |-> <<>>]
Relative == [abs |-> FALSE, path |-> <<"t">>]

MCHome == <<"home">>
MCTargets == {Absolute, Here}
MCRelative == {Relative}
MCClutters ==
    {{}, {<<"home", "t">>}, {<<"home", "t", "a">>}, {<<"home", "t", "e">>},
     {<<"home", "a">>}, {<<"home", "d">>}, {<<"home", "e">>}}
NoClutter == {{}}
=============================================================================
