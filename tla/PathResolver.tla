---------------------------- MODULE PathResolver ----------------------------
(***************************************************************************)
(* The path resolver of libsqsh/src/tree/path_resolver.c with its callers: *)
(* the tree walker (tree/walker.c), and sqsh_open and                      *)
(* sqsh_file_symlink_resolve of file/file.c, which open what a path leads  *)
(* to.  path_resolve calls itself through follow_symlink for the target of *)
(* a symlink; its activations are the sequence frames, and one turn of its *)
(* loop is a step.  Inodes stand for inode references and inode numbers.   *)
(* A load that fails is an I/O error or a corrupted inode.                 *)
(***************************************************************************)
EXTENDS Naturals, Sequences, FiniteSets

CONSTANTS Dir, Link, Leaf,   \* inodes: directories, symlinks, everything else
          Name,              \* names of entries
          NoDir, NoFile,     \* no inode; no file
          Images,            \* archives
          Paths,             \* the paths callers ask for
          MaxLinks           \* max_symlink_depth

Inode == Dir \cup Link \cup Leaf
Segment == Name \cup {".", ".."}     \* an empty segment does what "." does
Path == [abs : BOOLEAN, segs : Seq(Segment)]

ASSUME PathAssumption ==
    /\ MaxLinks \in Nat \ {0}
    /\ NoDir \notin Inode /\ Name \cap {".", ".."} = {}
    /\ Dir \cap Link = {} /\ Dir \cap Leaf = {} /\ Link \cap Leaf = {}
    /\ \A p \in Paths : p \in Path

\* An archive as mksquashfs writes it: names are unique in a directory, and a
\* directory is the entry of one directory, its parent.
ASSUME ImageAssumption == \A img \in Images :
    /\ img.root \in Dir
    /\ img.list \in [Dir -> Seq([name : Name, ref : Inode])]
    /\ img.parent \in [Dir -> Dir]
    /\ img.target \in [Link -> Path]
    /\ \A d \in Dir : LET list == img.list[d] IN
         /\ \A i, j \in 1..Len(list) : list[i].name = list[j].name => i = j
         /\ \A i \in 1..Len(list) : list[i].ref \in Dir =>
              list[i].ref # img.root /\ list[i].ref # d /\ img.parent[list[i].ref] = d

VARIABLES img,      \* the archive
          cwd,      \* the file cwd: its inode, and whether it is loaded
          iter,     \* the directory iterator: its directory, entries read
          current,  \* current_inode_ref
          links,    \* current_symlink_depth
          known,    \* the directories the inode map has a reference for
          frames,   \* activations of path_resolve, the outermost first
          rv,       \* what the last step returned; "UNDEFINED" once the
                    \* program has read a file that is not loaded
          job,      \* who owns the resolver: "none", "walk", "open", "done"
          file      \* what was opened, and its parent_inode_ref

place == <<cwd, iter, current, known>>
vars == <<img, cwd, iter, current, links, known, frames, rv, job, file>>

Closed == [ref |-> NoDir, loaded |-> FALSE]
NoIter == [dir |-> NoDir, at |-> 0]

Init ==
    /\ img \in Images
    /\ cwd = Closed /\ iter = NoIter /\ current = NoDir
    /\ links = 0 /\ known = {} /\ frames = <<>>
    /\ rv = "OK" /\ job = "none" /\ file = NoFile

is_beginning == current = cwd.ref
Entry == img.list[iter.dir][iter.at]
Type == IF is_beginning THEN current ELSE Entry.ref

(***************************************************************************)
(* How the resolver moves.                                                 *)
(***************************************************************************)
Undefined == rv' = "UNDEFINED" /\ UNCHANGED place

\* Mutant of Rewound: the resolver still stands at the entry it left.
RewoundKeepsEntry(at) ==
    /\ iter' = [dir |-> cwd.ref, at |-> at]
    /\ UNCHANGED <<cwd, current, known>>

\* update_inode_from_cwd, which opens the directory again.
Rewound(at) ==
    /\ iter' = [dir |-> cwd.ref, at |-> at]
    /\ current' = cwd.ref
    /\ UNCHANGED <<cwd, known>>

RewindFails == iter' = NoIter /\ rv' = "FAULT" /\ UNCHANGED <<cwd, current, known>>

Rewind ==
    \/ ~cwd.loaded /\ Undefined
    \/ cwd.loaded /\ Rewound(0) /\ rv' = "OK"
    \/ cwd.loaded /\ RewindFails

\* sqsh__path_resolver_to_ref
At(ref) ==
    /\ cwd' = [ref |-> ref, loaded |-> TRUE]
    /\ iter' = [dir |-> ref, at |-> 0]
    /\ current' = ref
    /\ known' = known \cup {ref}
    /\ rv' = "OK"

\* It fails after cwd was given up, or when the directory cannot be opened; the
\* iterator is opened again before anything reads it.
ToRefFails(ref, at) ==
    /\ rv' = "FAULT" /\ current' = at /\ iter' = NoIter
    /\ \/ \E r \in {cwd.ref, ref} : cwd' = [ref |-> r, loaded |-> FALSE] /\ UNCHANGED known
       \/ cwd' = [ref |-> ref, loaded |-> TRUE] /\ known' = known \cup {ref}

ToRef(ref) == At(ref) \/ ToRefFails(ref, current)

\* sqsh_path_resolver_down, on the current entry, a directory
DownTo(ref) == At(ref) \/ ToRefFails(ref, ref)

\* Mutant of UpFromEntry: from an entry it leaves the directory.
UpFromEntryTooFar ==
    /\ ~is_beginning /\ cwd.loaded
    /\ \/ cwd.ref = img.root /\ rv' = "CANNOT_GO_UP" /\ UNCHANGED place
       \/ cwd.ref # img.root /\ ToRef(img.parent[cwd.ref])

\* sqsh__path_resolver_to_inode: the inode map must have a reference for the number.
ToInode(number) ==
    \/ number \in known /\ ToRef(number)
    \/ number \notin known /\ rv' = "NO_SUCH_ELEMENT" /\ UNCHANGED place

\* sqsh_path_resolver_up
UpFromEntry == ~is_beginning /\ Rewind

UpFromDir ==
    /\ is_beginning
    /\ \/ cwd.ref = img.root /\ rv' = "CANNOT_GO_UP" /\ UNCHANGED place
       \/ cwd.ref # img.root /\ ~cwd.loaded /\ Undefined
       \/ cwd.ref # img.root /\ cwd.loaded /\ ToInode(img.parent[cwd.ref])

Up == UpFromEntry \/ UpFromDir

\* sqsh_path_resolver_lookup
Named(d, n) == {i \in 1..Len(img.list[d]) : img.list[d][i].name = n}

Selected(i) ==
    /\ iter' = [dir |-> cwd.ref, at |-> i]
    /\ current' = img.list[cwd.ref][i].ref
    /\ UNCHANGED <<cwd, known>>

LookupFails(n) ==
    \/ ~cwd.loaded /\ Undefined
    \/ cwd.loaded /\ RewindFails
    \/ cwd.loaded /\ Rewound(0) /\ rv' = "FAULT"
    \/ /\ cwd.loaded /\ Named(cwd.ref, n) = {}
       /\ Rewound(Len(img.list[cwd.ref]))
       /\ rv' = "NO_SUCH_FILE"

(***************************************************************************)
(* path_resolve                                                            *)
(***************************************************************************)
Top == frames[Len(frames)]
Below(fs) == SubSeq(fs, 1, Len(fs) - 1)
\* The activations once the top one has taken its first segment.
Consumed == [frames EXCEPT ![Len(frames)].todo = Tail(@)]
Continue(fs) == frames' = IF rv' = "OK" THEN fs ELSE <<>>

Activation(p, follow) == [todo |-> p.segs, follow |-> follow, is_dir |-> TRUE]

\* path_resolve is entered; Stay says where the resolver is for a relative path.
Enter(fs, p, follow, Stay) ==
    /\ IF p.abs THEN ToRef(img.root) ELSE Stay /\ rv' = "OK"
    /\ Continue(Append(fs, Activation(p, follow)))

Resolving == frames # <<>>
Segments == Resolving /\ Top.todo # <<>>

NotADirectory ==
    /\ Segments /\ ~Top.is_dir
    /\ rv' = "NOT_A_DIRECTORY" /\ frames' = <<>>
    /\ UNCHANGED <<place, links>>

\* Mutant of Dot: the loop goes on without moving to the next segment.
DotForgets ==
    /\ Segments /\ Top.is_dir /\ Head(Top.todo) = "."
    /\ UNCHANGED <<place, links, rv, frames>>

Dot ==
    /\ Segments /\ Top.is_dir /\ Head(Top.todo) = "."
    /\ frames' = Consumed
    /\ UNCHANGED <<place, links, rv>>

DotDot ==
    /\ Segments /\ Top.is_dir /\ Head(Top.todo) = ".."
    /\ Up
    /\ Continue(Consumed)
    /\ UNCHANGED links

NameFails ==
    /\ Segments /\ Top.is_dir /\ Head(Top.todo) \in Name
    /\ LookupFails(Head(Top.todo))
    /\ frames' = <<>>
    /\ UNCHANGED links

\* Mutant of Arrive: a directory is not entered.
ArriveNoDown(fs, ref, Stay) ==
    /\ UNCHANGED links
    /\ frames' = [fs EXCEPT ![Len(fs)].is_dir = (ref \in Dir)]
    /\ Stay /\ rv' = "OK"

\* The end of a turn.  Stay leaves the resolver at the inode looked up.  The
\* result of sqsh_path_resolver_down is not looked at.
Arrive(fs, ref, Stay) ==
    /\ UNCHANGED links
    /\ frames' = [fs EXCEPT ![Len(fs)].is_dir = (ref \in Dir)]
    /\ IF ref \in Dir /\ ref # cwd.ref THEN DownTo(ref) ELSE Stay /\ rv' = "OK"

\* sqsh__path_resolver_follow_symlink.  When the directory cannot be opened
\* again, a file that was never initialised is cleaned up.
FollowSymlink(fs, link) ==
    /\ links' = links + 1
    /\ \/ iter' = NoIter /\ current' = link /\ UNCHANGED <<cwd, known>>
          /\ rv' \in {"FAULT", "UNDEFINED"} /\ frames' = <<>>
       \/ Rewound(0) /\ rv' = "FAULT" /\ frames' = <<>>
       \/ Enter(fs, img.target[link], TRUE, Rewound(0))

\* sqsh__path_resolver_follow_all_symlinks, and the rest of the turn.
FollowAll(fs, ref, Stay) ==
    \/ /\ links > MaxLinks
       /\ Stay /\ rv' = "TOO_MANY_SYMLINKS" /\ frames' = <<>>
       /\ UNCHANGED links
    \/ links <= MaxLinks /\ ref \in Link /\ FollowSymlink(fs, ref)
    \/ links <= MaxLinks /\ ref \notin Link /\ Arrive(fs, ref, Stay)

NameFound ==
    /\ Segments /\ Top.is_dir /\ Head(Top.todo) \in Name
    /\ cwd.loaded
    /\ \E i \in Named(cwd.ref, Head(Top.todo)) :
         LET ref == img.list[cwd.ref][i].ref IN
         IF Tail(Top.todo) # <<>> \/ Top.follow
         THEN FollowAll(Consumed, ref, Selected(i))
         ELSE Arrive(Consumed, ref, Selected(i))

\* The end of an activation.
Return ==
    /\ Resolving /\ Top.todo = <<>>
    /\ \/ /\ Len(frames) = 1 \/ rv # "OK"
          /\ frames' = <<>>
          /\ UNCHANGED <<place, links, rv>>
       \/ /\ Len(frames) > 1 /\ rv = "OK"
          /\ FollowAll(Below(frames), Type, UNCHANGED place)

Resolve ==
    /\ rv # "UNDEFINED"
    /\ NotADirectory \/ Dot \/ DotDot \/ NameFails \/ NameFound \/ Return
    /\ UNCHANGED <<img, job, file>>

(***************************************************************************)
(* The tree walker.                                                        *)
(***************************************************************************)
New ==
    /\ job = "none"
    /\ ToRef(img.root)
    /\ job' = "walk" /\ file' = NoFile /\ links' = 0
    /\ UNCHANGED <<img, frames>>

Idle == job = "walk" /\ frames = <<>> /\ rv \notin {"FAULT", "UNDEFINED"}

WalkUp == Up
WalkDown ==
    \/ is_beginning /\ rv' = "CANNOT_GO_DOWN" /\ UNCHANGED place
    \/ ~is_beginning /\ Type \notin Dir /\ rv' = "NOT_A_DIRECTORY" /\ UNCHANGED place
    \/ ~is_beginning /\ Type \in Dir /\ DownTo(Type)

WalkNext ==
    \/ rv' = "FAULT" /\ UNCHANGED place
    \/ iter.at = Len(img.list[iter.dir]) /\ rv' = "OK" /\ UNCHANGED place
    \/ iter.at < Len(img.list[iter.dir]) /\ Selected(iter.at + 1) /\ rv' = "OK"

WalkLookup == \E n \in Name :
    \/ LookupFails(n)
    \/ \E i \in Named(cwd.ref, n) : Selected(i) /\ rv' = "OK"

Walk ==
    /\ Idle
    /\ WalkUp \/ WalkDown \/ WalkNext \/ WalkLookup \/ Rewind \/ ToRef(img.root)
    /\ UNCHANGED <<img, links, frames, job, file>>

WalkResolve == \E p \in Paths, follow \in BOOLEAN :
    /\ Idle
    /\ links' = 0
    /\ Enter(<<>>, p, follow, UNCHANGED place)
    /\ UNCHANGED <<img, job, file>>

Free ==
    /\ job # "none" /\ frames = <<>> /\ rv # "UNDEFINED" /\ (job = "open" => rv # "OK")
    /\ job' = "none"
    /\ cwd' = Closed /\ iter' = NoIter /\ current' = NoDir /\ links' = 0 /\ rv' = "OK"
    /\ UNCHANGED <<img, known, frames, file>>

(***************************************************************************)
(* sqsh_open and sqsh_file_symlink_resolve: a resolver of their own goes   *)
(* to the directory the path starts at, resolves it, opens what it leads   *)
(* to, and apply_parent goes up to find the parent.                        *)
(***************************************************************************)
OpenAt(ref, p, follow) ==
    /\ job' = "open" /\ links' = 0
    /\ \/ ToRefFails(ref, current) /\ UNCHANGED frames
       \/ IF p.abs THEN Enter(<<>>, p, follow, TRUE)
          ELSE At(ref) /\ frames' = <<Activation(p, follow)>>
    /\ UNCHANGED img

Open == \E p \in Paths, follow \in BOOLEAN :
    /\ job = "none" /\ OpenAt(img.root, p, follow) /\ file' = NoFile

SymlinkResolve == \E follow \in BOOLEAN :
    /\ job = "none" /\ file # NoFile /\ file.ref \in Link
    /\ OpenAt(file.parent, img.target[file.ref], follow)
    /\ UNCHANGED file

OpenFile ==
    /\ job = "open" /\ frames = <<>> /\ rv = "OK"
    /\ job' = "done"
    /\ \/ rv' = "FAULT" /\ UNCHANGED place /\ file' = NoFile
       \/ Up /\ file' = CASE rv' = "OK"           -> [ref |-> current, parent |-> current']
                          [] rv' = "CANNOT_GO_UP" -> [ref |-> current, parent |-> NoDir]
                          [] OTHER                -> NoFile
    /\ UNCHANGED <<img, links, frames>>

Next == Resolve \/ New \/ Walk \/ WalkResolve \/ Free \/ Open \/ SymlinkResolve \/ OpenFile

\* A call runs until it returns.
Spec == Init /\ [][Next]_vars /\ WF_vars(Resolve)
-----------------------------------------------------------------------------
Results == {"OK", "NO_SUCH_FILE", "NOT_A_DIRECTORY", "CANNOT_GO_UP", "CANNOT_GO_DOWN",
            "TOO_MANY_SYMLINKS", "NO_SUCH_ELEMENT", "FAULT", "UNDEFINED"}

TypeOK ==
    /\ img \in Images
    /\ cwd \in [ref : Dir \cup {NoDir}, loaded : BOOLEAN]
    /\ iter \in [dir : Dir \cup {NoDir}, at : Nat]
    /\ current \in Inode \cup {NoDir}
    /\ links \in 0..(MaxLinks + 1)
    /\ known \subseteq Dir
    /\ frames \in Seq([todo : Seq(Segment), follow : BOOLEAN, is_dir : BOOLEAN])
    /\ rv \in Results
    /\ job \in {"none", "walk", "open", "done"}
    /\ file \in [ref : Inode, parent : Dir \cup {NoDir}] \cup {NoFile}

\* Whatever a call of the walker returned, short of an archive that cannot be
\* read, the walker can be used: its directory is loaded and known to the inode
\* map with all its parents, and the entry sqsh_path_resolver_name names is the
\* inode sqsh_path_resolver_open_file opens.
WalkerUsable == Idle =>
    /\ cwd.loaded /\ iter.dir = cwd.ref
    /\ ~is_beginning => iter.at \in 1..Len(img.list[cwd.ref]) /\ Entry.ref = current
    /\ cwd.ref \in known
    /\ \A d \in known \ {img.root} : img.parent[d] \in known

\* What sqsh_open and sqsh_file_symlink_resolve opened lies in the directory
\* they recorded as its parent (apply_parent), however many symlinks led there.
OpenedInParent == file # NoFile =>
    IF file.ref = img.root THEN file.parent = NoDir
    ELSE /\ file.parent \in Dir
         /\ \E i \in 1..Len(img.list[file.parent]) : img.list[file.parent][i].ref = file.ref

\* Resolving a path ends, whatever the symlinks point to.
ResolveEnds == Resolving ~> ~Resolving \/ rv = "UNDEFINED"

\* A step that failed ends the resolve with its error: the test
\* path_resolver__resolver_inconsistent_file_type (test/libsqsh/tree/path_resolver.c)
\* expects the error of going down into the last segment to be returned.
FailureEndsResolve == Resolving => rv = "OK"

\* The recursion looks paths up as the work list of PathLookup does: what is left are the
\* segments of all activations, the innermost first.
Remaining(fs) ==
    LET rest[n \in 0..Len(fs)] == IF n = 0 THEN <<>> ELSE fs[n].todo \o rest[n - 1]
    IN  rest[Len(fs)]

Live == /\ job \in {"walk", "open"} /\ cwd.loaded /\ rv # "UNDEFINED"
        /\ rv = "FAULT" => Resolving

LookupDir     == IF Live THEN cwd.ref ELSE img.root
LookupSel     == IF Live /\ ~is_beginning THEN iter.at ELSE 0
LookupTodo    == IF Live THEN Remaining(frames) ELSE <<>>
LookupFollow  == Live /\ Resolving /\ frames[1].follow
LookupLinks   == IF Live /\ Resolving THEN links ELSE 0
LookupBlocked == Live /\ Resolving /\ ~Top.is_dir
LookupStatus  == IF ~Live THEN "closed" ELSE IF Resolving THEN "running" ELSE "idle"
LookupAnswer  == IF Live /\ ~Resolving THEN rv ELSE "OK"

PL == INSTANCE PathLookup WITH
        dir     <- LookupDir,
        sel     <- LookupSel,
        todo    <- LookupTodo,
        follow  <- LookupFollow,
        links   <- LookupLinks,
        blocked <- LookupBlocked,
        status  <- LookupStatus,
        answer  <- LookupAnswer

LooksUpPaths == PL!Spec
=============================================================================
