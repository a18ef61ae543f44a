----------------------------- MODULE PathLookup -----------------------------
(***************************************************************************)
(* What resolving paths in an archive promises.  A caller stands in a      *)
(* directory, at one of its entries or at its beginning.  A path is looked *)
(* up as one list of segments: a symlink on the way puts its target in     *)
(* front of the segments that are left.                                    *)
(***************************************************************************)
EXTENDS Naturals, Sequences

CONSTANTS Dir, Link,     \* inode references of directories and of symlinks
          NoDir,         \* no inode
          NoFile,        \* no file is open
          Paths,         \* the paths callers ask for
          MaxLinks       \* how many symlinks a lookup may follow

VARIABLES img,           \* the archive
          dir, sel,      \* the directory, and its entry (0: the beginning)
          todo,          \* the segments left
          follow,        \* whether a symlink at the end of the path is followed
          links,         \* how many were followed
          blocked,       \* the last segment was not a directory
          status,        \* "closed", "idle" or "running"
          answer,        \* how the last call went
          file           \* the file opened, with its parent

place == <<dir, sel>>
path == <<todo, follow, links, blocked>>
vars == <<img, dir, sel, todo, follow, links, blocked, status, answer, file>>

Ref(d, i) == img.list[d][i].ref
Here == IF sel = 0 THEN dir ELSE Ref(dir, sel)
Parent(d) == IF d = img.root THEN NoDir ELSE img.parent[d]
Named(d, n) == {i \in 1..Len(img.list[d]) : img.list[d][i].name = n}

At(d, i) == dir' = d /\ sel' = i
Answer(a) == status' = "idle" /\ answer' = a /\ todo' = <<>> /\ blocked' = FALSE /\ follow' = FALSE /\ links' = 0
Continue(segs) == todo' = segs /\ UNCHANGED <<follow, status, answer, file>>

Close(f) ==
    /\ status' = "closed" /\ At(img.root, 0) /\ answer' = "OK" /\ file' = f
    /\ todo' = <<>> /\ follow' = FALSE /\ links' = 0 /\ blocked' = FALSE

Init ==
    /\ dir = img.root /\ sel = 0 /\ status = "closed" /\ answer = "OK" /\ file = NoFile
    /\ todo = <<>> /\ follow = FALSE /\ links = 0 /\ blocked = FALSE

(***************************************************************************)
(* Between lookups the caller moves: to the next entry or the one of a     *)
(* name, into a directory, up, to the beginning, to the root.              *)
(***************************************************************************)
New == status = "closed" /\ At(img.root, 0) /\ Answer("OK") /\ file' = NoFile

Move ==
    /\ status = "idle" /\ Answer("OK") /\ UNCHANGED file
    /\ \/ UNCHANGED place
       \/ At(dir, 0)
       \/ \E i \in 1..Len(img.list[dir]) : At(dir, i)
       \/ Here \in Dir /\ At(Here, 0)
       \/ sel = 0 /\ Parent(dir) # NoDir /\ At(Parent(dir), 0)
       \/ At(img.root, 0)

Refuse ==
    /\ status = "idle" /\ UNCHANGED file
    /\ \/ UNCHANGED place /\ sel = 0 /\ Answer("CANNOT_GO_DOWN")
       \/ UNCHANGED place /\ Here \notin Dir /\ Answer("NOT_A_DIRECTORY")
       \/ UNCHANGED place /\ sel = 0 /\ Parent(dir) = NoDir /\ Answer("CANNOT_GO_UP")
       \/ At(dir, 0) /\ Answer("NO_SUCH_FILE")

(***************************************************************************)
(* A lookup begins at the place of the caller, at the root, or beside the  *)
(* symlink that is resolved.                                               *)
(***************************************************************************)
Begin(p) ==
    /\ \/ p \in Paths /\ status = "idle" /\ UNCHANGED file
          /\ IF p.abs THEN At(img.root, 0) ELSE UNCHANGED place
       \/ p \in Paths /\ status = "closed" /\ file' = NoFile /\ At(img.root, 0)
       \/ /\ status = "closed" /\ file # NoFile /\ UNCHANGED file
          /\ file.ref \in Link /\ p = img.target[file.ref]
          /\ At(IF p.abs THEN img.root ELSE file.parent, 0)
    /\ status' = "running" /\ answer' = "OK"
    /\ todo' = p.segs /\ follow' \in BOOLEAN /\ links' = 0 /\ blocked' = FALSE

Running == status = "running" /\ todo # <<>> /\ ~blocked

Dot == Running /\ Head(todo) = "." /\ Continue(Tail(todo)) /\ UNCHANGED <<place, links, blocked>>

DotDot ==
    /\ Running /\ Head(todo) = ".."
    /\ IF sel # 0 THEN At(dir, 0) ELSE Parent(dir) # NoDir /\ At(Parent(dir), 0)
    /\ Continue(Tail(todo))
    /\ UNCHANGED <<links, blocked>>

Enter(i) ==
    /\ Ref(dir, i) \in Dir
    /\ At(Ref(dir, i), 0)
    /\ Continue(Tail(todo))
    /\ UNCHANGED <<links, blocked>>

FollowLink(i) ==
    LET target == img.target[Ref(dir, i)] IN
    /\ Ref(dir, i) \in Link
    /\ Tail(todo) # <<>> \/ follow
    /\ links <= MaxLinks
    /\ links' = links + 1
    /\ At(IF target.abs THEN img.root ELSE dir, 0)
    /\ Continue(target.segs \o Tail(todo))
    /\ UNCHANGED blocked

Pick(i) ==
    /\ Ref(dir, i) \notin Dir
    /\ Ref(dir, i) \in Link => Tail(todo) = <<>> /\ ~follow
    /\ At(dir, i)
    /\ Continue(Tail(todo))
    /\ blocked' = TRUE
    /\ UNCHANGED links

Find == Running /\ \E i \in Named(dir, Head(todo)) : Enter(i) \/ FollowLink(i) \/ Pick(i)

Finish ==
    /\ status = "running" /\ todo = <<>> /\ links <= MaxLinks
    /\ Answer("OK")
    /\ UNCHANGED <<place, file>>

\* A lookup is refused for a reason only, and where it got to is kept.
Reject ==
    /\ status = "running" /\ UNCHANGED file
    /\ \/ blocked /\ todo # <<>> /\ UNCHANGED place /\ Answer("NOT_A_DIRECTORY")
       \/ /\ Running /\ Head(todo) = ".." /\ sel = 0 /\ Parent(dir) = NoDir
          /\ UNCHANGED place /\ Answer("CANNOT_GO_UP")
       \/ Running /\ Named(dir, Head(todo)) = {} /\ At(dir, 0) /\ Answer("NO_SUCH_FILE")
       \/ /\ links > MaxLinks /\ Answer("TOO_MANY_SYMLINKS")
          /\ dir' = dir /\ sel' \in 0..Len(img.list[dir])

\* The caller is done, with the file too perhaps, or the archive could not be read.
GiveUp == \E f \in {file, NoFile} : Close(f)

\* A path was opened: the file knows the directory it was found in.
Opened ==
    /\ status = "idle" /\ answer = "OK"
    /\ Close([ref |-> Here, parent |-> IF sel # 0 THEN dir ELSE Parent(dir)])

Next ==
    /\ UNCHANGED img
    /\ \/ New \/ Move \/ Refuse \/ \E p \in Paths \cup {img.target[l] : l \in Link} : Begin(p)
       \/ Dot \/ DotDot \/ Find \/ Finish \/ Reject
       \/ GiveUp \/ Opened

Spec == Init /\ [][Next]_vars
=============================================================================
