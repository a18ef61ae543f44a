------------------------------ MODULE TreeWalk ------------------------------
(***************************************************************************)
(* What a recursive walk over an archive promises: starting at base, every *)
(* entry below it is visited in order, a directory once when it begins and *)
(* once when it ends, down to max_depth levels.  A place in the tree is a  *)
(* trail: the directories on the way to it, each with the number of the    *)
(* entry that was taken.  The walk has no memory but the last visit; what  *)
(* comes next follows from it.                                             *)
(***************************************************************************)
EXTENDS Naturals, Sequences

CONSTANTS Dir,          \* inode references of directories
          Leaf          \* inode references of everything else

VARIABLES entries,      \* the archive: what each directory lists, in order
          base,         \* where the walk starts
          max_depth,    \* how deep it goes
          fault,        \* whether reading the archive has failed
          visit,        \* the last visit
          result        \* "walking", "done" or "failed"

tree == <<entries, base, max_depth>>
vars == <<entries, base, max_depth, fault, visit, result>>

NoVisit == [kind |-> "NONE", trail |-> <<>>]

\* The inode at the end of a trail.
Here(trail) ==
    IF trail = <<>> THEN base
    ELSE LET last == trail[Len(trail)] IN entries[last.dir][last.at]

Up(trail) == SubSeq(trail, 1, Len(trail) - 1)

\* The visit of a place reached from above.
Arrive(trail) ==
    [kind  |-> IF Here(trail) \in Dir /\ Len(trail) < max_depth
               THEN "DIRECTORY_BEGIN" ELSE "FILE",
     trail |-> trail]

Leave(trail) == [kind |-> "DIRECTORY_END", trail |-> trail]

\* The visit after n entries of directory d, which lies at trail.
AfterEntry(trail, d, n) ==
    IF n < Len(entries[d])
    THEN Arrive(Append(trail, [dir |-> d, at |-> n + 1]))
    ELSE Leave(trail)

\* The directory that is being listed after visit v, and where it lies.
Listing(v) ==
    IF v.kind = "DIRECTORY_BEGIN"
    THEN [dir |-> Here(v.trail), at |-> 0]
    ELSE v.trail[Len(v.trail)]

ListingTrail(v) == IF v.kind = "DIRECTORY_BEGIN" THEN v.trail ELSE Up(v.trail)

IsOver(v) == v.kind # "DIRECTORY_BEGIN" /\ v.trail = <<>>

Recurs(v) ==
    /\ v.kind = "DIRECTORY_BEGIN"
    /\ \E i \in DOMAIN v.trail : v.trail[i].dir = Here(v.trail)

Init ==
    /\ fault = FALSE
    /\ visit = NoVisit
    /\ result = "walking"

Start ==
    /\ visit = NoVisit
    /\ visit' = Arrive(<<>>)
    /\ UNCHANGED <<tree, fault, result>>

Go ==
    /\ visit # NoVisit /\ ~IsOver(visit)
    /\ visit' = AfterEntry(ListingTrail(visit), Listing(visit).dir, Listing(visit).at)
    /\ UNCHANGED <<tree, fault, result>>

\* A directory that cannot be read to its end is left early.
CutShort ==
    /\ visit # NoVisit /\ ~IsOver(visit)
    /\ visit' = Leave(ListingTrail(visit))
    /\ fault' = TRUE
    /\ UNCHANGED <<tree, result>>

Finish ==
    /\ visit # NoVisit /\ IsOver(visit)
    /\ visit' = NoVisit
    /\ result' = "done"
    /\ UNCHANGED <<tree, fault>>

\* The walk gives up only for a reason: something could not be read, or a
\* directory contains itself.
GiveUp ==
    /\ visit # NoVisit
    /\ fault' \in {fault, TRUE}
    /\ fault' \/ Recurs(visit)
    /\ visit' = NoVisit
    /\ result' = "failed"
    /\ UNCHANGED tree

Next == result = "walking" /\ (Start \/ Go \/ CutShort \/ Finish \/ GiveUp)

Spec == Init /\ [][Next]_vars
=============================================================================
