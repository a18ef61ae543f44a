------------------------ MODULE PathResolver_proofs ------------------------
(***************************************************************************)
(* The path resolver, for every archive, any paths and any bound on the    *)
(* symlinks: a walker can be used after whatever a call returned, what was *)
(* opened lies in the directory recorded as its parent, and the recursion  *)
(* looks paths up as the work list of PathLookup does.                     *)
(***************************************************************************)
EXTENDS PathResolver, WellFoundedInduction, TLAPS

Frame == [todo : Seq(Segment), follow : BOOLEAN, is_dir : BOOLEAN]
Lost == {"FAULT", "UNDEFINED"}

\* ref is an entry of the directory dir.
Listed(dir, ref) == \E i \in 1..Len(img.list[dir]) : img.list[dir][i].ref = ref

\* The root, or a directory listed in its parent, which the inode map knows.
Reachable(ref) ==
    /\ ref \in Dir
    /\ ref = img.root \/ (img.parent[ref] \in known /\ Listed(img.parent[ref], ref))

PlaceType ==
    /\ img \in Images
    /\ cwd \in [ref : Dir \cup {NoDir}, loaded : BOOLEAN]
    /\ iter \in [dir : Dir \cup {NoDir}, at : Nat]
    /\ current \in Inode \cup {NoDir}
    /\ rv \in Results

\* Every directory the inode map knows was found in one that it knows.
KnownOK == \A d \in known : Reachable(d)

\* The resolver is in a directory it can read, at the beginning or at an entry.
Standing ==
    /\ cwd.loaded /\ cwd.ref \in known
    /\ iter.dir = cwd.ref
    /\ current # cwd.ref => iter.at \in 1..Len(img.list[cwd.ref]) /\ Entry.ref = current

\* Going down into the last segment failed, and nobody looked: if the directory is loaded
\* nevertheless, it is the one the resolver was to go to.
Stranded ==
    /\ Top.is_dir
    /\ current \in Dir \ {img.root}
    /\ cwd.loaded => cwd.ref = current /\ cwd.ref \in known

PlaceOK ==
    /\ PlaceType /\ KnownOK
    /\ job \in {"walk", "open"} /\ rv \notin Lost => Standing

FramesOK ==
    /\ frames \in Seq(Frame)
    /\ job \in {"none", "done"} => ~Resolving
    /\ Resolving /\ rv = "FAULT" => Stranded

FileOK == file # NoFile =>
    /\ file \in [ref : Inode, parent : Dir \cup {NoDir}]
    /\ IF file.ref = img.root THEN file.parent = NoDir
       ELSE file.parent \in known /\ Listed(file.parent, file.ref)

JobOK == job \in {"none", "walk", "open", "done"} /\ links \in 0..(MaxLinks + 1)

IInv == PlaceOK /\ FramesOK /\ FileOK /\ JobOK

\* What a move makes of the place.
Moved ==
    /\ PlaceType' /\ KnownOK' /\ known \subseteq known'
    /\ rv' \notin Lost => Standing'

-----------------------------------------------------------------------------
(* Archives *)

LEMMA ElementOfSeq ==
    ASSUME NEW S, NEW s \in Seq(S), NEW i \in 1..Len(s)
    PROVE  s[i] \in S
  OBVIOUS

LEMMA RootIsDir == img \in Images => img.root \in Dir /\ img.root \in Inode
  BY ImageAssumption DEF Inode

LEMMA ListType ==
    ASSUME img \in Images, NEW d \in Dir
    PROVE  img.list[d] \in Seq([name : Name, ref : Inode])
  <1> DEFINE Entries == [name : Name, ref : Inode]
  <1>1. img.list \in [Dir -> Seq(Entries)]
    BY ImageAssumption
  <1> HIDE DEF Entries
  <1>2. img.list[d] \in Seq(Entries)
    BY <1>1
  <1> QED BY <1>2 DEF Entries

\* An entry is never the root, and the parent of a directory is where it is listed.
LEMMA EntryOK ==
    ASSUME img \in Images, NEW d \in Dir, NEW i \in 1..Len(img.list[d])
    PROVE  /\ img.list[d] \in Seq([name : Name, ref : Inode])
           /\ img.list[d][i].ref \in Inode /\ img.list[d][i].ref # img.root
           /\ img.list[d][i].ref \in Dir => img.parent[img.list[d][i].ref] = d
  <1>1. img.list[d] \in Seq([name : Name, ref : Inode]) /\ img.root \in Dir
    BY ListType, RootIsDir
  <1>2. img.list[d][i] \in [name : Name, ref : Inode]
    BY <1>1, ElementOfSeq, Zenon
  <1>3. img.list[d][i].ref \in Dir =>
            img.list[d][i].ref # img.root /\ img.parent[img.list[d][i].ref] = d
    BY ImageAssumption
  <1> QED BY <1>1, <1>2, <1>3

-----------------------------------------------------------------------------
(* Moves *)

LEMMA KnownKept ==
    ASSUME KnownOK, UNCHANGED <<img, known>>
    PROVE  KnownOK'
  BY DEF KnownOK, Reachable, Listed

LEMMA KnownGrows ==
    ASSUME KnownOK, NEW ref, Reachable(ref), UNCHANGED img, known' = known \cup {ref}
    PROVE  KnownOK'
  <1> SUFFICES ASSUME NEW d \in known' PROVE Reachable(d)'
    BY DEF KnownOK
  <1>1. Reachable(d)
    BY DEF KnownOK
  <1> QED BY <1>1 DEF Reachable, Listed

LEMMA AtOK ==
    ASSUME PlaceType, KnownOK, NEW ref, Reachable(ref), UNCHANGED img, At(ref)
    PROVE  Moved
  <1>1. ref \in Dir
    BY DEF Reachable
  <1>2. PlaceType'
    BY <1>1 DEF PlaceType, At, Results, Inode
  <1>3. KnownOK' /\ known \subseteq known'
    BY KnownGrows DEF At
  <1>4. Standing'
    BY <1>1 DEF At, Standing
  <1> QED BY <1>2, <1>3, <1>4 DEF Moved

LEMMA ToRefFailsOK ==
    ASSUME PlaceType, KnownOK, NEW ref, Reachable(ref), UNCHANGED img,
           NEW at \in Inode \cup {NoDir}, ToRefFails(ref, at)
    PROVE  Moved /\ rv' = "FAULT" /\ current' = at /\ (cwd'.loaded => cwd'.ref = ref /\ ref \in known')
  <1>1. ref \in Dir
    BY DEF Reachable
  <1>2. PlaceType'
    <2>1. cwd' \in [ref : Dir \cup {NoDir}, loaded : BOOLEAN]
      <3>1. cwd.ref \in Dir \cup {NoDir}
        BY DEF PlaceType
      <3>2. \E r \in Dir \cup {NoDir}, l \in BOOLEAN : cwd' = [ref |-> r, loaded |-> l]
        BY <1>1, <3>1 DEF ToRefFails
      <3> QED BY <3>2
    <2> QED BY <2>1 DEF PlaceType, ToRefFails, Results, NoIter
  <1>3. KnownOK' /\ known \subseteq known'
    BY KnownGrows, KnownKept DEF ToRefFails
  <1>4. rv' = "FAULT" /\ current' = at /\ (cwd'.loaded => cwd'.ref = ref /\ ref \in known')
    BY DEF ToRefFails
  <1> QED BY <1>2, <1>3, <1>4 DEF Moved, Lost

LEMMA ToRefOK ==
    ASSUME PlaceType, KnownOK, NEW ref, Reachable(ref), UNCHANGED img, ToRef(ref)
    PROVE  Moved /\ rv' \in {"OK", "FAULT"}
  <1>1. current \in Inode \cup {NoDir}
    BY DEF PlaceType
  <1>2. CASE At(ref)
    BY <1>2, AtOK DEF At
  <1>3. CASE ToRefFails(ref, current)
    BY <1>1, <1>3, ToRefFailsOK
  <1> QED BY <1>2, <1>3 DEF ToRef

\* Going back to the beginning of the directory, or on in it.
LEMMA RewoundOK ==
    ASSUME PlaceType, KnownOK, cwd.loaded, cwd.ref \in known, UNCHANGED img, NEW at \in Nat, Rewound(at),
           rv' \in Results
    PROVE  Moved /\ Standing'
  <1>1. cwd.ref \in Dir
    BY DEF KnownOK, Reachable
  <1>2. PlaceType' /\ Standing'
    BY <1>1 DEF PlaceType, Rewound, Standing, Inode
  <1>3. KnownOK' /\ known \subseteq known'
    BY KnownKept DEF Rewound
  <1> QED BY <1>2, <1>3 DEF Moved

LEMMA SelectedOK ==
    ASSUME PlaceType, KnownOK, cwd.loaded, cwd.ref \in known, UNCHANGED img,
           NEW i \in 1..Len(img.list[cwd.ref]), Selected(i), rv' \in Results
    PROVE  Moved /\ Standing'
  <1>1. cwd.ref \in Dir
    BY DEF KnownOK, Reachable
  <1>2. PlaceType'
    BY <1>1, EntryOK DEF PlaceType, Selected
  <1>3. Standing'
    BY DEF Selected, Standing, Entry
  <1>4. KnownOK' /\ known \subseteq known'
    BY KnownKept DEF Selected
  <1> QED BY <1>2, <1>3, <1>4 DEF Moved

LEMMA StayOK ==
    ASSUME PlaceType, KnownOK, Standing, UNCHANGED <<img, place>>, rv' \in Results
    PROVE  Moved /\ Standing'
  BY KnownKept DEF place, PlaceType, Standing, Entry, Moved

\* The iterator could not be opened, or the program has read what is not loaded.
LEMMA LostOK ==
    ASSUME PlaceType, KnownOK, UNCHANGED <<img, cwd, known>>, rv' \in Lost,
           current' \in Inode \cup {NoDir}, iter' \in {iter, NoIter}
    PROVE  Moved
  BY KnownKept DEF PlaceType, Moved, Lost, Results, NoIter

LEMMA RewindOK ==
    ASSUME PlaceType, KnownOK, cwd.loaded => cwd.ref \in known, UNCHANGED img, Rewind
    PROVE  Moved /\ (cwd.loaded <=> rv' # "UNDEFINED") /\ rv' \in {"OK", "FAULT", "UNDEFINED"}
  <1>1. CASE ~cwd.loaded /\ Undefined
    BY <1>1, LostOK DEF Undefined, place, Lost, PlaceType
  <1>2. CASE cwd.loaded /\ Rewound(0) /\ rv' = "OK"
    BY <1>2, RewoundOK DEF Results
  <1>3. CASE cwd.loaded /\ RewindFails
    BY <1>3, LostOK DEF RewindFails, Lost, PlaceType
  <1> QED BY <1>1, <1>2, <1>3 DEF Rewind

LEMMA LookupFailsOK ==
    ASSUME PlaceType, KnownOK, cwd.loaded => cwd.ref \in known, UNCHANGED img,
           NEW n, LookupFails(n)
    PROVE  Moved /\ rv' # "OK"
  <1>1. CASE ~cwd.loaded /\ Undefined
    BY <1>1, LostOK DEF Undefined, place, Lost, PlaceType
  <1>2. CASE cwd.loaded /\ RewindFails
    BY <1>2, LostOK DEF RewindFails, Lost, PlaceType
  <1>3. CASE cwd.loaded /\ Rewound(0) /\ rv' = "FAULT"
    BY <1>3, RewoundOK DEF Results
  <1>4. CASE cwd.loaded /\ Rewound(Len(img.list[cwd.ref])) /\ rv' = "NO_SUCH_FILE"
    <2>1. cwd.ref \in Dir
      BY <1>4 DEF KnownOK, Reachable
    <2>2. Len(img.list[cwd.ref]) \in Nat
      <3>1. img.list[cwd.ref] \in Seq([name : Name, ref : Inode])
        BY <2>1, ListType DEF PlaceType
      <3> QED BY <3>1
    <2> QED BY <1>4, <2>2, RewoundOK DEF Results
  <1> QED BY <1>1, <1>2, <1>3, <1>4 DEF LookupFails

\* The entry the resolver stands at is listed in its directory.
LEMMA StandingEntry ==
    ASSUME PlaceType, KnownOK, Standing
    PROVE  /\ cwd.ref \in Dir /\ Type = current /\ current \in Inode
           /\ current = cwd.ref \/ (Listed(cwd.ref, current) /\ current # img.root)
           /\ current # cwd.ref /\ current \in Dir => Reachable(current)
  <1>1. cwd.ref \in Dir
    BY DEF Standing, KnownOK, Reachable
  <1>2. CASE current = cwd.ref
    BY <1>1, <1>2 DEF Type, is_beginning, Inode
  <1>3. CASE current # cwd.ref
    <2>1. iter.at \in 1..Len(img.list[cwd.ref]) /\ current = img.list[cwd.ref][iter.at].ref
      BY <1>3 DEF Standing, Entry
    <2>2. current \in Inode /\ current # img.root /\ (current \in Dir => img.parent[current] = cwd.ref)
      BY <1>1, <2>1, EntryOK DEF PlaceType
    <2> QED BY <1>1, <1>3, <2>1, <2>2 DEF Type, is_beginning, Standing, Listed, Reachable
  <1> QED BY <1>2, <1>3

\* sqsh_path_resolver_down into a directory that is listed in this one.
LEMMA EntryReachable ==
    ASSUME PlaceType, KnownOK, cwd.ref \in known, NEW i \in 1..Len(img.list[cwd.ref]),
           img.list[cwd.ref][i].ref \in Dir
    PROVE  Reachable(img.list[cwd.ref][i].ref)
  <1>1. cwd.ref \in Dir
    BY DEF KnownOK, Reachable
  <1> QED BY <1>1, EntryOK DEF PlaceType, Reachable, Listed

LEMMA UpOK ==
    ASSUME PlaceType, KnownOK, Standing \/ Stranded, UNCHANGED img, Up
    PROVE  Moved
  <1>1. cwd.loaded => cwd.ref \in known
    BY DEF Standing, Stranded
  <1>2. CASE UpFromEntry
    BY <1>1, <1>2, RewindOK DEF UpFromEntry
  <1>3. CASE UpFromDir
    <2>1. CASE cwd.ref = img.root /\ rv' = "CANNOT_GO_UP" /\ UNCHANGED place
      <3>1. Standing
        BY <1>3, <2>1 DEF UpFromDir, is_beginning, Stranded
      <3> QED BY <2>1, <3>1, StayOK DEF Results
    <2>2. CASE cwd.ref # img.root /\ ~cwd.loaded /\ Undefined
      BY <2>2, LostOK DEF Undefined, place, Lost, PlaceType
    <2>3. CASE cwd.ref # img.root /\ cwd.loaded /\ ToInode(img.parent[cwd.ref])
      <3>1. cwd.ref \in known /\ Reachable(cwd.ref) /\ img.parent[cwd.ref] \in known
        BY <1>1, <2>3 DEF KnownOK, Reachable
      <3>2. Reachable(img.parent[cwd.ref]) /\ ToRef(img.parent[cwd.ref])
        BY <2>3, <3>1 DEF ToInode, KnownOK
      <3> QED BY <3>2, ToRefOK
    <2> QED BY <1>3, <2>1, <2>2, <2>3 DEF UpFromDir
  <1> QED BY <1>2, <1>3 DEF Up

-----------------------------------------------------------------------------
(* Activations *)

LEMMA TopOK ==
    ASSUME frames \in Seq(Frame), Resolving
    PROVE  Len(frames) \in Nat \ {0} /\ Top \in Frame
  <1>1. Len(frames) \in Nat /\ Len(frames) # 0
    BY DEF Resolving
  <1> QED BY <1>1, ElementOfSeq DEF Top

LEMMA ConsumedOK ==
    ASSUME frames \in Seq(Frame), Segments
    PROVE  /\ Consumed \in Seq(Frame) /\ Len(Consumed) = Len(frames) /\ Consumed # <<>>
           /\ Consumed[Len(Consumed)].is_dir = Top.is_dir
  <1>1. Len(frames) \in Nat \ {0} /\ Top \in Frame /\ Top.todo # <<>>
    BY TopOK DEF Segments
  <1> DEFINE top == [Top EXCEPT !.todo = Tail(@)]
  <1>2. top \in Frame /\ top.is_dir = Top.is_dir
    <2>1. Tail(Top.todo) \in Seq(Segment)
      BY <1>1 DEF Frame
    <2> QED BY <1>1, <2>1 DEF Frame
  <1>3. Consumed = [frames EXCEPT ![Len(frames)] = top]
    BY DEF Consumed, Top
  <1> HIDE DEF top
  <1>4. Consumed \in Seq(Frame) /\ Len(Consumed) = Len(frames) /\ Consumed[Len(frames)] = top
    BY <1>1, <1>2, <1>3
  <1> QED BY <1>1, <1>2, <1>4

LEMMA BelowOK ==
    ASSUME frames \in Seq(Frame), Len(frames) > 1
    PROVE  Below(frames) \in Seq(Frame) /\ Below(frames) # <<>>
  <1>1. Len(Below(frames)) = Len(frames) - 1 /\ Below(frames) \in Seq(Frame)
    BY DEF Below
  <1> QED BY <1>1

LEMMA ArrivedOK ==
    ASSUME NEW fs \in Seq(Frame), fs # <<>>, NEW b \in BOOLEAN
    PROVE  LET gs == [fs EXCEPT ![Len(fs)].is_dir = b]
           IN  gs \in Seq(Frame) /\ gs # <<>> /\ gs[Len(gs)].is_dir = b
  <1>1. Len(fs) \in Nat \ {0} /\ fs[Len(fs)] \in Frame
    BY ElementOfSeq
  <1> DEFINE top == [fs[Len(fs)] EXCEPT !.is_dir = b]
             gs == [fs EXCEPT ![Len(fs)] = top]
  <1>2. top \in Frame /\ top.is_dir = b
    BY <1>1 DEF Frame
  <1> HIDE DEF top
  <1>3. gs \in Seq(Frame) /\ Len(gs) = Len(fs) /\ gs[Len(fs)] = top
    BY <1>1, <1>2
  <1>4. gs # <<>>
    BY <1>1, <1>3
  <1> QED BY <1>2, <1>3, <1>4 DEF top

LEMMA ActivationOK ==
    ASSUME NEW fs \in Seq(Frame), NEW p \in Path, NEW follow \in BOOLEAN
    PROVE  Append(fs, Activation(p, follow)) \in Seq(Frame)
  <1>1. Activation(p, follow) \in Frame
    BY DEF Activation, Frame, Path
  <1> HIDE DEF Frame
  <1> QED BY <1>1

\* A call that begins has no other activation under it.
LEMMA FirstActivationOK ==
    ASSUME NEW p \in Path, NEW follow \in BOOLEAN
    PROVE  /\ Append(<<>>, Activation(p, follow)) \in Seq(Frame) /\ <<>> \in Seq(Frame)
           /\ <<Activation(p, follow)>> \in Seq(Frame)
  <1>1. <<>> \in Seq(Frame)
    OBVIOUS
  <1>2. Append(<<>>, Activation(p, follow)) \in Seq(Frame)
    BY <1>1, ActivationOK
  <1>3. Append(<<>>, Activation(p, follow)) = <<Activation(p, follow)>>
    OBVIOUS
  <1> QED BY <1>1, <1>2, <1>3

-----------------------------------------------------------------------------
(* Turns of path_resolve *)

\* A step whose move is sound keeps the invariant, if what it strands is noticed.
LEMMA TurnOK ==
    ASSUME IInv, Resolving \/ job \in {"walk", "open"}, Moved, UNCHANGED <<img, job, file>>,
           frames' \in Seq(Frame), links' \in 0..(MaxLinks + 1), Resolving' /\ rv' = "FAULT" => Stranded'
    PROVE  IInv'
  <1>1. job \in {"walk", "open"}
    BY DEF IInv, FramesOK, JobOK
  <1>2. PlaceOK' /\ FramesOK' /\ JobOK'
    BY <1>1 DEF IInv, Moved, PlaceOK, FramesOK, JobOK
  <1>3. FileOK'
    BY DEF IInv, FileOK, Moved, Listed
  <1> QED BY <1>2, <1>3 DEF IInv

\* While a path is looked up, the resolver stands, or is stranded.
LEMMA StandsOrStranded ==
    ASSUME IInv, Resolving, rv # "UNDEFINED"
    PROVE  /\ Standing \/ (rv = "FAULT" /\ Stranded)
           /\ cwd.loaded => cwd.ref \in known
           /\ PlaceType /\ KnownOK /\ frames \in Seq(Frame) /\ links \in 0..(MaxLinks + 1)
  BY DEF IInv, PlaceOK, FramesOK, JobOK, Lost, Standing, Stranded

LEMMA EnterOK ==
    ASSUME PlaceType, KnownOK, cwd.loaded, cwd.ref \in known, UNCHANGED img,
           NEW fs \in Seq(Frame), NEW p \in Path, NEW follow \in BOOLEAN, Enter(fs, p, follow, Rewound(0))
    PROVE  Moved /\ frames' \in Seq(Frame) /\ (frames' # <<>> => rv' = "OK")
  <1>1. Reachable(img.root)
    BY RootIsDir DEF Reachable, PlaceType
  <1>2. Moved
    <2>1. CASE p.abs
      BY <1>1, <2>1, ToRefOK DEF Enter
    <2>2. CASE ~p.abs
      BY <2>2, RewoundOK DEF Enter, Results
    <2> QED BY <2>1, <2>2
  <1>3. frames' \in Seq(Frame) /\ (frames' # <<>> => rv' = "OK")
    BY ActivationOK DEF Enter, Continue
  <1> QED BY <1>2, <1>3

\* The rest of a turn, from a directory that is loaded: Stay leaves the resolver at ref.
LEMMA ArriveOK ==
    ASSUME PlaceType, KnownOK, UNCHANGED img, NEW fs \in Seq(Frame), fs # <<>>, NEW ref, NEW Stay \in BOOLEAN,
           ref \in Dir /\ ref # cwd.ref => Reachable(ref) /\ ref # img.root,
           Stay /\ rv' \in Results => Moved,
           Arrive(fs, ref, Stay)
    PROVE  Moved /\ frames' \in Seq(Frame) /\ (rv' = "FAULT" => Stranded')
  <1>1. frames' \in Seq(Frame) /\ frames' # <<>> /\ Top'.is_dir = (ref \in Dir)
    <2> DEFINE b == ref \in Dir
               gs == [fs EXCEPT ![Len(fs)].is_dir = b]
    <2>1. frames' = gs /\ b \in BOOLEAN
      BY DEF Arrive
    <2> HIDE DEF b
    <2>2. gs \in Seq(Frame) /\ gs # <<>> /\ gs[Len(gs)].is_dir = b
      BY <2>1, ArrivedOK, Zenon
    <2>3. Top' = gs[Len(gs)]
      BY <2>1, Zenon DEF Top
    <2>4. frames' \in Seq(Frame) /\ frames' # <<>> /\ Top'.is_dir = b
      BY <2>1, <2>2, <2>3, Zenon
    <2> QED BY <2>4 DEF b
  <1>2. CASE ref \in Dir /\ ref # cwd.ref
    <2>1. CASE At(ref)
      BY <1>1, <1>2, <2>1, AtOK DEF At
    <2>2. CASE ToRefFails(ref, ref)
      <3>1. ref \in Inode
        BY <1>2 DEF Inode
      <3>2. /\ Moved /\ current' = ref
            /\ cwd'.loaded => cwd'.ref = ref /\ ref \in known'
        BY <1>2, <2>2, <3>1, ToRefFailsOK
      <3> QED BY <1>1, <1>2, <3>2 DEF Stranded
    <2> QED BY <1>2, <2>1, <2>2 DEF Arrive, DownTo
  <1>3. CASE ~(ref \in Dir /\ ref # cwd.ref)
    BY <1>1, <1>3 DEF Arrive, Results
  <1> QED BY <1>2, <1>3

LEMMA FollowAllOK ==
    ASSUME PlaceType, KnownOK, cwd.loaded, cwd.ref \in known, UNCHANGED img, links \in 0..(MaxLinks + 1),
           NEW fs \in Seq(Frame), fs # <<>>, NEW ref \in Inode, NEW Stay \in BOOLEAN,
           ref \in Dir /\ ref # cwd.ref => Reachable(ref) /\ ref # img.root,
           Stay /\ rv' \in Results => Moved,
           FollowAll(fs, ref, Stay)
    PROVE  /\ Moved /\ frames' \in Seq(Frame) /\ links' \in 0..(MaxLinks + 1)
           /\ Resolving' /\ rv' = "FAULT" => Stranded'
  <1>1. CASE links > MaxLinks /\ Stay /\ rv' = "TOO_MANY_SYMLINKS" /\ frames' = <<>> /\ UNCHANGED links
    BY <1>1 DEF Results, Resolving
  <1>2. CASE links <= MaxLinks /\ ref \in Link /\ FollowSymlink(fs, ref)
    <2>1. links' \in 0..(MaxLinks + 1)
      BY <1>2, PathAssumption DEF FollowSymlink
    <2>2. CASE /\ iter' = NoIter /\ current' = ref /\ UNCHANGED <<cwd, known>>
               /\ rv' \in {"FAULT", "UNDEFINED"} /\ frames' = <<>>
      BY <2>1, <2>2, LostOK DEF Lost, Resolving
    <2>3. CASE Rewound(0) /\ rv' = "FAULT" /\ frames' = <<>>
      BY <2>1, <2>3, RewoundOK DEF Results, Resolving
    <2>4. CASE Enter(fs, img.target[ref], TRUE, Rewound(0))
      <3>1. img.target[ref] \in Path
        BY <1>2, ImageAssumption DEF PlaceType
      <3> QED BY <2>1, <2>4, <3>1, EnterOK DEF Resolving
    <2> QED BY <1>2, <2>2, <2>3, <2>4 DEF FollowSymlink
  <1>3. CASE links <= MaxLinks /\ ref \notin Link /\ Arrive(fs, ref, Stay)
    <2>1. links' = links
      BY <1>3 DEF Arrive
    <2> QED BY <1>3, <2>1, ArriveOK
  <1> QED BY <1>1, <1>2, <1>3 DEF FollowAll

LEMMA StepNotADirectory ==
    ASSUME IInv, rv # "UNDEFINED", UNCHANGED <<img, job, file>>, NotADirectory
    PROVE  IInv'
  <1>1. Resolving /\ Standing /\ PlaceType /\ KnownOK
    BY StandsOrStranded DEF NotADirectory, Segments, Stranded
  <1>2. Moved
    BY <1>1, StayOK DEF NotADirectory, Results
  <1> QED BY <1>1, <1>2, TurnOK DEF NotADirectory, IInv, JobOK, Resolving

LEMMA StepDot ==
    ASSUME IInv, rv # "UNDEFINED", UNCHANGED <<img, job, file>>, Dot
    PROVE  IInv'
  <1>1. Resolving /\ frames' = Consumed /\ UNCHANGED <<place, rv, links>>
    BY DEF Dot, Segments
  <1>2. /\ frames' \in Seq(Frame) /\ Top'.is_dir = Top.is_dir
    BY <1>1, ConsumedOK, StandsOrStranded DEF Dot, Top
  <1>3. Moved
    <2>1. CASE rv \in Lost
      BY <1>1, <2>1, StandsOrStranded, LostOK DEF place, PlaceType
    <2>2. CASE rv \notin Lost
      BY <1>1, <2>2, StandsOrStranded, StayOK DEF Lost, PlaceType
    <2> QED BY <2>1, <2>2
  <1>4. rv' = "FAULT" => Stranded'
    BY <1>1, <1>2 DEF IInv, FramesOK, Stranded, place
  <1> QED BY <1>1, <1>2, <1>3, <1>4, TurnOK, StandsOrStranded

LEMMA StepDotDot ==
    ASSUME IInv, rv # "UNDEFINED", UNCHANGED <<img, job, file>>, DotDot
    PROVE  IInv'
  <1>1. Resolving /\ Moved
    BY StandsOrStranded, UpOK DEF DotDot, Segments
  <1>2. frames' \in Seq(Frame) /\ (frames' # <<>> => rv' = "OK")
    BY <1>1, ConsumedOK, StandsOrStranded DEF DotDot, Continue
  <1> QED BY <1>1, <1>2, TurnOK, StandsOrStranded DEF DotDot, Resolving

LEMMA StepNameFails ==
    ASSUME IInv, rv # "UNDEFINED", UNCHANGED <<img, job, file>>, NameFails
    PROVE  IInv'
  <1>1. Resolving /\ Moved
    BY StandsOrStranded, LookupFailsOK DEF NameFails, Segments
  <1> QED BY <1>1, TurnOK, StandsOrStranded DEF NameFails, Resolving

LEMMA StepNameFound ==
    ASSUME IInv, rv # "UNDEFINED", UNCHANGED <<img, job, file>>, NameFound
    PROVE  IInv'
  <1>1. Resolving /\ cwd.loaded /\ cwd.ref \in known /\ PlaceType /\ KnownOK /\ cwd.ref \in Dir
    BY StandsOrStranded DEF NameFound, Segments, KnownOK, Reachable
  <1>2. Consumed \in Seq(Frame) /\ Consumed # <<>>
    BY <1>1, ConsumedOK, StandsOrStranded DEF NameFound
  <1> DEFINE ref(i) == img.list[cwd.ref][i].ref
  <1>3. PICK i \in 1..Len(img.list[cwd.ref]) :
            \/ FollowAll(Consumed, ref(i), Selected(i))
            \/ Arrive(Consumed, ref(i), Selected(i))
    BY DEF NameFound, Named
  <1>4. ref(i) \in Inode /\ ref(i) # img.root /\ (ref(i) \in Dir => Reachable(ref(i)))
    BY <1>1, EntryOK, EntryReachable DEF PlaceType
  <1>5. Selected(i) /\ rv' \in Results => Moved
    BY <1>1, SelectedOK
  <1>6. Selected(i) \in BOOLEAN
    BY DEF Selected
  <1> HIDE DEF ref
  <1>7. /\ Moved /\ frames' \in Seq(Frame) /\ links' \in 0..(MaxLinks + 1)
        /\ Resolving' /\ rv' = "FAULT" => Stranded'
    <2>1. CASE FollowAll(Consumed, ref(i), Selected(i))
      BY <1>1, <1>2, <1>4, <1>5, <1>6, <2>1, FollowAllOK, StandsOrStranded
    <2>2. CASE Arrive(Consumed, ref(i), Selected(i))
      BY <1>1, <1>2, <1>4, <1>5, <1>6, <2>2, ArriveOK, StandsOrStranded DEF Arrive
    <2> QED BY <1>3, <2>1, <2>2
  <1> QED BY <1>1, <1>7, TurnOK

LEMMA StepReturn ==
    ASSUME IInv, rv # "UNDEFINED", UNCHANGED <<img, job, file>>, Return
    PROVE  IInv'
  <1>1. Resolving /\ PlaceType /\ KnownOK
    BY StandsOrStranded DEF Return
  <1>2. CASE frames' = <<>> /\ UNCHANGED <<place, links, rv>>
    <2>1. Moved
      <3>1. CASE rv \in Lost
        BY <1>1, <1>2, <3>1, LostOK DEF place, PlaceType
      <3>2. CASE rv \notin Lost
        BY <1>1, <1>2, <3>2, StandsOrStranded, StayOK DEF Lost, PlaceType
      <3> QED BY <3>1, <3>2
    <2> QED BY <1>1, <1>2, <2>1, TurnOK, StandsOrStranded DEF Resolving
  <1>3. CASE Len(frames) > 1 /\ rv = "OK" /\ FollowAll(Below(frames), Type, UNCHANGED place)
    <2>1. Standing
      BY <1>1, <1>3, StandsOrStranded
    <2>2. /\ Type = current /\ current \in Inode
          /\ current \in Dir /\ current # cwd.ref => Reachable(current) /\ current # img.root
      BY <1>1, <2>1, StandingEntry
    <2>3. Below(frames) \in Seq(Frame) /\ Below(frames) # <<>>
      BY <1>3, BelowOK DEF IInv, FramesOK
    <2>4. (UNCHANGED place) /\ rv' \in Results => Moved
      BY <1>1, <2>1, StayOK
    <2>5. /\ Moved /\ frames' \in Seq(Frame) /\ links' \in 0..(MaxLinks + 1)
          /\ Resolving' /\ rv' = "FAULT" => Stranded'
      BY <1>1, <1>3, <2>1, <2>2, <2>3, <2>4, FollowAllOK, StandsOrStranded DEF Standing
    <2> QED BY <1>1, <2>5, TurnOK
  <1> QED BY <1>2, <1>3 DEF Return

LEMMA StepResolve ==
    ASSUME IInv, Resolve
    PROVE  IInv'
  <1>1. rv # "UNDEFINED" /\ UNCHANGED <<img, job, file>>
    BY DEF Resolve
  <1> QED
    BY <1>1, StepNotADirectory, StepDot, StepDotDot, StepNameFails, StepNameFound, StepReturn
    DEF Resolve

-----------------------------------------------------------------------------
(* The walker, and opening a path *)

LEMMA StepNew ==
    ASSUME IInv, New
    PROVE  IInv'
  <1>1. /\ PlaceType /\ KnownOK /\ Reachable(img.root) /\ frames \in Seq(Frame) /\ frames = <<>>
        /\ UNCHANGED <<img, frames>>
    BY RootIsDir DEF IInv, PlaceOK, FramesOK, New, Resolving, Reachable, PlaceType
  <1>2. Moved
    BY <1>1, ToRefOK DEF New
  <1>3. job' = "walk" /\ links' = 0 /\ file' = NoFile
    BY DEF New
  <1> QED BY <1>1, <1>2, <1>3, PathAssumption
          DEF IInv, PlaceOK, FramesOK, FileOK, JobOK, Moved, Resolving

LEMMA StepWalk ==
    ASSUME IInv, Walk
    PROVE  IInv'
  <1>1. /\ PlaceType /\ KnownOK /\ Standing /\ job = "walk" /\ rv \in Results
        /\ UNCHANGED <<img, links, frames, job, file>> /\ ~Resolving
        /\ links \in 0..(MaxLinks + 1) /\ frames \in Seq(Frame)
    BY DEF IInv, Walk, Idle, PlaceOK, FramesOK, JobOK, Lost, PlaceType, Resolving
  <1>2. cwd.loaded /\ cwd.ref \in known /\ cwd.ref \in Dir
    BY <1>1, StandingEntry DEF Standing
  <1>3. CASE WalkUp
    BY <1>1, <1>3, UpOK, TurnOK DEF WalkUp, Resolving
  <1>4. CASE WalkDown
    <2>1. CASE rv' \in Results /\ UNCHANGED place
      BY <1>1, <2>1, StayOK, TurnOK DEF Resolving
    <2>2. CASE ~is_beginning /\ Type \in Dir /\ DownTo(Type)
      <3>1. Type = current /\ current \in Inode /\ Reachable(current)
        BY <1>1, <2>2, StandingEntry DEF is_beginning
      <3>2. Moved
        <4>1. CASE At(current)
          BY <1>1, <3>1, <4>1, AtOK
        <4>2. CASE ToRefFails(current, current)
          BY <1>1, <3>1, <4>2, ToRefFailsOK
        <4> QED BY <2>2, <3>1, <4>1, <4>2 DEF DownTo
      <3> QED BY <1>1, <3>2, TurnOK DEF Resolving
    <2> QED BY <1>4, <2>1, <2>2 DEF WalkDown, Results
  <1>5. CASE WalkNext
    <2>1. CASE rv' \in Results /\ UNCHANGED place
      BY <1>1, <2>1, StayOK, TurnOK DEF Resolving
    <2>2. CASE iter.at < Len(img.list[iter.dir]) /\ Selected(iter.at + 1) /\ rv' = "OK"
      <3>1. iter.at + 1 \in 1..Len(img.list[cwd.ref])
        <4>1. iter.at \in Nat /\ iter.dir = cwd.ref /\ img.list[cwd.ref] \in Seq([name : Name, ref : Inode])
          BY <1>1, <1>2, ListType DEF PlaceType, Standing
        <4> QED BY <2>2, <4>1
      <3>2. Moved
        BY <1>1, <1>2, <2>2, <3>1, SelectedOK DEF Results
      <3> QED BY <1>1, <3>2, TurnOK DEF Resolving
    <2> QED BY <1>5, <2>1, <2>2 DEF WalkNext, Results
  <1>6. CASE WalkLookup
    <2>1. PICK n \in Name : \/ LookupFails(n)
                            \/ \E i \in Named(cwd.ref, n) : Selected(i) /\ rv' = "OK"
      BY <1>6 DEF WalkLookup
    <2>2. CASE LookupFails(n)
      BY <1>1, <1>2, <2>2, LookupFailsOK, TurnOK DEF Resolving
    <2>3. CASE \E i \in Named(cwd.ref, n) : Selected(i) /\ rv' = "OK"
      BY <1>1, <1>2, <2>3, SelectedOK, TurnOK DEF Resolving, Named, Results
    <2> QED BY <2>1, <2>2, <2>3
  <1>7. CASE Rewind
    BY <1>1, <1>2, <1>7, RewindOK, TurnOK DEF Resolving
  <1>8. CASE ToRef(img.root)
    BY <1>1, <1>8, RootIsDir, ToRefOK, TurnOK DEF Resolving, Reachable, PlaceType
  <1> QED BY <1>3, <1>4, <1>5, <1>6, <1>7, <1>8 DEF Walk

LEMMA StepWalkResolve ==
    ASSUME IInv, WalkResolve
    PROVE  IInv'
  <1>1. PICK p \in Paths, follow \in BOOLEAN :
            Idle /\ links' = 0 /\ Enter(<<>>, p, follow, UNCHANGED place) /\ UNCHANGED <<img, job, file>>
    BY DEF WalkResolve
  <1>2. PlaceType /\ KnownOK /\ Standing /\ job = "walk" /\ links' \in 0..(MaxLinks + 1) /\ p \in Path
    BY <1>1, PathAssumption DEF IInv, Idle, PlaceOK, FramesOK, JobOK, Lost, PlaceType, Resolving
  <1>3. Moved
    <2>1. CASE p.abs
      BY <1>1, <1>2, <2>1, RootIsDir, ToRefOK DEF Enter, Reachable, PlaceType
    <2>2. CASE ~p.abs
      BY <1>1, <1>2, <2>2, StayOK DEF Enter, Results
    <2> QED BY <2>1, <2>2
  <1>4. frames' \in Seq(Frame) /\ (frames' # <<>> => rv' = "OK")
    BY <1>1, <1>2, FirstActivationOK DEF Enter, Continue
  <1> QED BY <1>1, <1>2, <1>3, <1>4, TurnOK DEF Resolving

LEMMA StepFree ==
    ASSUME IInv, Free
    PROVE  IInv'
  <1>1. PlaceType' /\ KnownOK'
    BY KnownKept DEF IInv, PlaceOK, PlaceType, Free, Closed, NoIter, Results
  <1>2. FramesOK' /\ FileOK' /\ JobOK'
    BY PathAssumption DEF IInv, FramesOK, FileOK, Listed, JobOK, Free, Resolving
  <1> QED BY <1>1, <1>2 DEF IInv, PlaceOK, Free

LEMMA OpenAtOK ==
    ASSUME IInv, job = "none", NEW ref, Reachable(ref), NEW p \in Path, NEW follow \in BOOLEAN,
           OpenAt(ref, p, follow)
    PROVE  PlaceOK' /\ FramesOK' /\ JobOK' /\ known \subseteq known' /\ UNCHANGED img
  <1>1. PlaceType /\ KnownOK /\ frames \in Seq(Frame) /\ frames = <<>> /\ UNCHANGED img
    BY DEF IInv, PlaceOK, FramesOK, OpenAt, Resolving
  <1>2. links' \in 0..(MaxLinks + 1) /\ job' = "open"
    BY PathAssumption DEF OpenAt
  <1>3. Moved /\ frames' \in Seq(Frame) /\ (frames' # <<>> => rv' = "OK")
    <2>1. CASE ToRefFails(ref, current) /\ UNCHANGED frames
      <3>1. current \in Inode \cup {NoDir}
        BY <1>1 DEF PlaceType
      <3> QED BY <1>1, <2>1, <3>1, ToRefFailsOK
    <2>2. CASE p.abs /\ Enter(<<>>, p, follow, TRUE)
      <3>1. Moved
        BY <1>1, <2>2, RootIsDir, ToRefOK DEF Enter, Reachable, PlaceType
      <3> QED BY <2>2, <3>1, FirstActivationOK DEF Enter, Continue
    <2>3. CASE At(ref) /\ frames' = <<Activation(p, follow)>>
      <3>1. frames' \in Seq(Frame)
        BY <2>3, FirstActivationOK
      <3> QED BY <1>1, <2>3, <3>1, AtOK DEF At
    <2> QED BY <2>1, <2>2, <2>3 DEF OpenAt
  <1> QED BY <1>1, <1>2, <1>3 DEF PlaceOK, FramesOK, JobOK, Moved, Resolving

LEMMA StepOpen ==
    ASSUME IInv, Open
    PROVE  IInv'
  <1>1. PICK p \in Paths, follow \in BOOLEAN :
            job = "none" /\ OpenAt(img.root, p, follow) /\ file' = NoFile
    BY DEF Open
  <1>2. Reachable(img.root) /\ p \in Path
    BY RootIsDir, PathAssumption DEF Reachable, IInv, PlaceOK, PlaceType
  <1> QED BY <1>1, <1>2, OpenAtOK DEF IInv, FileOK

LEMMA StepSymlinkResolve ==
    ASSUME IInv, SymlinkResolve
    PROVE  IInv'
  <1>1. PICK follow \in BOOLEAN :
            /\ job = "none" /\ file # NoFile /\ file.ref \in Link
            /\ OpenAt(file.parent, img.target[file.ref], follow) /\ UNCHANGED file
    BY DEF SymlinkResolve
  <1>2. img \in Images /\ file.ref # img.root
    BY <1>1, RootIsDir, PathAssumption DEF IInv, PlaceOK, PlaceType
  <1>3. Reachable(file.parent)
    BY <1>1, <1>2 DEF IInv, FileOK, PlaceOK, KnownOK
  <1>4. img.target[file.ref] \in Path
    BY <1>1, <1>2, ImageAssumption
  <1>5. PlaceOK' /\ FramesOK' /\ JobOK' /\ known \subseteq known' /\ UNCHANGED img
    BY <1>1, <1>3, <1>4, OpenAtOK
  <1>6. FileOK'
    BY <1>1, <1>5 DEF IInv, FileOK, Listed
  <1> QED BY <1>5, <1>6 DEF IInv

LEMMA StepOpenFile ==
    ASSUME IInv, OpenFile
    PROVE  IInv'
  <1>1. /\ PlaceType /\ KnownOK /\ Standing /\ job' = "done" /\ UNCHANGED <<img, links, frames>>
        /\ frames = <<>>
    BY DEF IInv, PlaceOK, OpenFile, Lost
  <1>2. FramesOK' /\ JobOK'
    BY <1>1 DEF IInv, FramesOK, JobOK, Resolving
  <1>3. CASE rv' = "FAULT" /\ UNCHANGED place /\ file' = NoFile
    <2>1. Moved
      BY <1>1, <1>3, StayOK DEF Results
    <2> QED BY <1>1, <1>2, <1>3, <2>1 DEF IInv, PlaceOK, Moved, FileOK
  <1>4. CASE Up /\ file' = CASE rv' = "OK"           -> [ref |-> current, parent |-> current']
                             [] rv' = "CANNOT_GO_UP" -> [ref |-> current, parent |-> NoDir]
                             [] OTHER                -> NoFile
    <2>1. Moved
      BY <1>1, <1>4, UpOK
    <2>2. /\ cwd.ref \in Dir /\ cwd.ref \in known /\ Reachable(cwd.ref) /\ cwd.loaded /\ current \in Inode
          /\ current = cwd.ref \/ (Listed(cwd.ref, current) /\ current # img.root)
      BY <1>1, StandingEntry DEF Standing, KnownOK
    <2>3. rv' = "OK" => /\ current' \in known' /\ Listed(current', current) /\ current # img.root
                        /\ current' \in Dir
      <3>1. CASE UpFromEntry /\ rv' = "OK"
        <4>1. current' = cwd.ref /\ current # cwd.ref
          BY <3>1 DEF UpFromEntry, is_beginning, Rewind, Rewound, Undefined, RewindFails
        <4> QED BY <2>1, <2>2, <4>1 DEF Moved
      <3>2. CASE UpFromDir /\ rv' = "OK"
        <4>1. current = cwd.ref /\ current # img.root /\ ToRef(img.parent[cwd.ref]) /\ At(img.parent[cwd.ref])
          BY <2>2, <3>2 DEF UpFromDir, is_beginning, ToInode, ToRef, ToRefFails, Undefined
        <4>2. img.parent[cwd.ref] \in known /\ Listed(img.parent[cwd.ref], cwd.ref)
          BY <2>2, <4>1 DEF Reachable
        <4>3. Reachable(img.parent[cwd.ref])
          BY <1>1, <4>2 DEF KnownOK
        <4> QED BY <4>1, <4>2, <4>3 DEF At, Reachable
      <3> QED BY <1>4, <3>1, <3>2 DEF Up
    <2>4. rv' = "CANNOT_GO_UP" => current = img.root
      BY <1>4 DEF Up, UpFromEntry, UpFromDir, is_beginning, Rewind, RewindFails, Undefined, ToInode, ToRef,
                  At, ToRefFails
    <2>5. FileOK'
      <3>1. CASE rv' = "OK"
        <4>1. file' = [ref |-> current, parent |-> current']
          BY <1>4, <3>1
        <4> QED BY <1>1, <2>2, <2>3, <3>1, <4>1 DEF FileOK, Listed
      <3>2. CASE rv' = "CANNOT_GO_UP"
        <4>1. file' = [ref |-> current, parent |-> NoDir]
          BY <1>4, <3>2
        <4> QED BY <1>1, <2>2, <2>4, <3>2, <4>1 DEF FileOK
      <3>3. CASE rv' \notin {"OK", "CANNOT_GO_UP"}
        BY <1>4, <3>3 DEF FileOK
      <3> QED BY <3>1, <3>2, <3>3
    <2> QED BY <1>1, <1>2, <2>1, <2>5 DEF IInv, PlaceOK, Moved
  <1> QED BY <1>3, <1>4 DEF OpenFile

LEMMA InitIInv == Init => IInv
  <1> SUFFICES ASSUME Init PROVE IInv
    OBVIOUS
  <1>1. PlaceType
    BY DEF Init, PlaceType, Closed, NoIter, Results
  <1> QED BY <1>1, PathAssumption
          DEF Init, IInv, PlaceOK, KnownOK, FramesOK, FileOK, JobOK, Resolving

LEMMA NextIInv ==
    ASSUME IInv, [Next]_vars
    PROVE  IInv'
  <1>1. CASE UNCHANGED vars
    <2>1. PlaceType' /\ KnownOK'
      BY <1>1, KnownKept DEF vars, IInv, PlaceOK, PlaceType
    <2>2. PlaceOK'
      BY <1>1, <2>1 DEF vars, IInv, PlaceOK, Standing, Entry
    <2> QED BY <1>1, <2>2 DEF vars, IInv, FramesOK, FileOK, JobOK, Resolving, Stranded, Top, Listed
  <1> QED
    BY <1>1, StepResolve, StepNew, StepWalk, StepWalkResolve, StepFree, StepOpen, StepSymlinkResolve,
       StepOpenFile
    DEF Next

-----------------------------------------------------------------------------
(* The segments that are left *)

\* Induction over a set of numbers.
LEMMA AllNumbers ==
    ASSUME NEW S, 0 \in S, \A n \in Nat : n \in S => n + 1 \in S
    PROVE  Nat \subseteq S
  <1> DEFINE T == Nat \ S
             less == {p \in Nat \X Nat : p[1] < p[2]}
  <1>1. SUFFICES ASSUME T # {} PROVE FALSE
    OBVIOUS
  <1>2. IsWellFoundedOn(less, Nat)
    BY NatLessThanWellFounded DEF OpToRel
  <1>3. PICK x \in T : \A y \in T : <<y, x>> \notin less
    <2> HIDE DEF less, T
    <2>1. T \subseteq Nat
      BY DEF T
    <2> QED BY <1>1, <1>2, <2>1, WFMin
  <1>4. x # 0 /\ x - 1 \in Nat /\ <<x - 1, x>> \in less
    BY <1>3
  <1>5. x - 1 \in S
    BY <1>3, <1>4
  <1> QED BY <1>3, <1>4, <1>5

\* A list of segments for every number of activations.
Rests(fs, k) == {f \in [0..k -> Seq(Segment)] :
                   f[0] = <<>> /\ \A n \in 1..k : f[n] = fs[n].todo \o f[n - 1]}

LEMMA RestsExist ==
    ASSUME NEW fs \in Seq(Frame)
    PROVE  \A k \in 0..Len(fs) : Rests(fs, k) # {}
  <1> DEFINE S == {k \in Nat : k <= Len(fs) => Rests(fs, k) # {}}
  <1>1. 0 \in S
    <2> DEFINE f == [n \in 0..0 |-> <<>>]
    <2>1. f \in [0..0 -> Seq(Segment)]
      <3>1. <<>> \in Seq(Segment)
        OBVIOUS
      <3> QED BY <3>1
    <2>2. f[0] = <<>>
      OBVIOUS
    <2> HIDE DEF f
    <2>3. f \in Rests(fs, 0)
      BY <2>1, <2>2 DEF Rests
    <2> QED BY <2>3
  <1>2. ASSUME NEW k \in Nat, k \in S PROVE k + 1 \in S
    <2> SUFFICES ASSUME k + 1 <= Len(fs) PROVE Rests(fs, k + 1) # {}
      BY <1>2
    <2>1. PICK f \in [0..k -> Seq(Segment)] : f[0] = <<>> /\ \A n \in 1..k : f[n] = fs[n].todo \o f[n - 1]
      <3>1. k <= Len(fs) /\ Rests(fs, k) # {}
        BY <1>2
      <3>2. PICK f : f \in Rests(fs, k)
        BY <3>1
      <3> QED BY <3>2 DEF Rests
    <2>2. fs[k + 1].todo \in Seq(Segment)
      <3>1. fs[k + 1] \in Frame
        BY ElementOfSeq
      <3> QED BY <3>1 DEF Frame
    <2> DEFINE next == fs[k + 1].todo \o f[k]
               g == [n \in 0..(k + 1) |-> IF n = k + 1 THEN next ELSE f[n]]
    <2>3. next \in Seq(Segment)
      BY <2>1, <2>2
    <2> HIDE DEF next
    <2>4. g \in [0..(k + 1) -> Seq(Segment)]
      BY <2>1, <2>3
    <2>5. g[0] = <<>> /\ g[k + 1] = next /\ \A n \in 0..k : g[n] = f[n]
      BY <2>1
    <2> HIDE DEF g
    <2>6. ASSUME NEW n \in 1..(k + 1) PROVE g[n] = fs[n].todo \o g[n - 1]
      <3>1. CASE n = k + 1
        <4>1. g[n - 1] = f[k] /\ g[n] = next
          BY <2>5, <3>1
        <4> QED BY <3>1, <4>1 DEF next
      <3>2. CASE n # k + 1
        <4>1. n \in 1..k /\ g[n] = f[n] /\ g[n - 1] = f[n - 1]
          BY <2>5, <3>2
        <4> QED BY <2>1, <4>1
      <3> QED BY <3>1, <3>2
    <2>7. g \in Rests(fs, k + 1)
      BY <2>4, <2>5, <2>6 DEF Rests
    <2> QED BY <2>7
  <1>3. Nat \subseteq S
    <2> HIDE DEF S
    <2> QED BY <1>1, <1>2, AllNumbers
  <1> QED BY <1>3

\* There is only one.
LEMMA RestsAgree ==
    ASSUME NEW fs \in Seq(Frame), NEW gs \in Seq(Frame), NEW k \in 0..Len(fs), k <= Len(gs),
           \A n \in 1..k : gs[n] = fs[n],
           NEW l \in Nat, NEW m \in Nat, k <= l, k <= m, NEW f \in Rests(fs, l), NEW g \in Rests(gs, m)
    PROVE  f[k] = g[k]
  <1> DEFINE S == {n \in Nat : n <= k => f[n] = g[n]}
  <1>0. k \in Nat
    OBVIOUS
  <1>1. 0 \in S
    BY DEF Rests
  <1>2. ASSUME NEW n \in Nat, n \in S PROVE n + 1 \in S
    <2> SUFFICES ASSUME n + 1 <= k PROVE f[n + 1] = g[n + 1]
      BY <1>2
    <2>1. n + 1 \in 1..k /\ n + 1 \in 1..l /\ n + 1 \in 1..m /\ (n + 1) - 1 = n /\ f[n] = g[n]
      BY <1>0, <1>2
    <2>2. f[n + 1] = fs[n + 1].todo \o f[n]
      BY <2>1 DEF Rests
    <2>3. g[n + 1] = gs[n + 1].todo \o g[n]
      BY <2>1 DEF Rests
    <2> QED BY <2>1, <2>2, <2>3
  <1>3. Nat \subseteq S
    <2> HIDE DEF S
    <2> QED BY <1>1, <1>2, AllNumbers
  <1> QED BY <1>0, <1>3

LEMMA RemainingIs ==
    ASSUME NEW fs \in Seq(Frame)
    PROVE  \E f \in Rests(fs, Len(fs)) : Remaining(fs) = f[Len(fs)]
  <1> DEFINE Def(f) == f = [n \in 0..Len(fs) |-> IF n = 0 THEN <<>> ELSE fs[n].todo \o f[n - 1]]
  <1>0. Len(fs) \in Nat
    OBVIOUS
  <1>1. PICK f : f \in Rests(fs, Len(fs))
    BY <1>0, RestsExist
  <1>2. Def(f)
    <2>1. f \in [0..Len(fs) -> Seq(Segment)]
      BY <1>1 DEF Rests
    <2>2. \A n \in 0..Len(fs) : f[n] = IF n = 0 THEN <<>> ELSE fs[n].todo \o f[n - 1]
      <3>1. f[0] = <<>> /\ \A n \in 1..Len(fs) : f[n] = fs[n].todo \o f[n - 1]
        BY <1>1 DEF Rests
      <3>2. ASSUME NEW n \in 0..Len(fs), n # 0 PROVE f[n] = fs[n].todo \o f[n - 1]
        <4>1. n \in 1..Len(fs)
          BY <1>0, <3>2
        <4> QED BY <3>1, <4>1
      <3> QED BY <3>1, <3>2
    <2> QED BY <2>1, <2>2
  <1>3. \E h : Def(h)
    BY <1>2
  <1> DEFINE r == CHOOSE h : Def(h)
  <1>4. Remaining(fs) = r[Len(fs)]
    BY DEF Remaining
  <1>5. Def(r)
    <2> HIDE DEF Def
    <2> QED BY <1>3
  <1> HIDE DEF r
  <1>6. r[Len(fs)] = f[Len(fs)]
    <2> DEFINE S == {n \in Nat : n <= Len(fs) => r[n] = f[n]}
    <2>1. 0 \in S
      BY <1>0, <1>1, <1>5 DEF Rests
    <2>2. ASSUME NEW n \in Nat, n \in S PROVE n + 1 \in S
      <3> SUFFICES ASSUME n + 1 <= Len(fs) PROVE r[n + 1] = f[n + 1]
        BY <2>2
      <3>1. n + 1 \in 0..Len(fs) /\ n + 1 # 0 /\ (n + 1) - 1 = n /\ r[n] = f[n]
        BY <1>0, <2>2
      <3>2. r[n + 1] = fs[n + 1].todo \o r[n]
        BY <1>5, <3>1
      <3>3. f[n + 1] = fs[n + 1].todo \o f[n]
        BY <1>2, <3>1
      <3> QED BY <3>1, <3>2, <3>3
    <2>3. Nat \subseteq S
      <3> HIDE DEF S
      <3> QED BY <2>1, <2>2, AllNumbers
    <2> QED BY <1>0, <2>3
  <1> QED BY <1>1, <1>4, <1>6

\* What the recursion has left: the segments of the innermost activation, and those below.
LEMMA RemainingTop ==
    ASSUME NEW fs \in Seq(Frame), NEW below \in Seq(Frame), Len(fs) = Len(below) + 1,
           \A n \in 1..Len(below) : below[n] = fs[n]
    PROVE  Remaining(fs) = fs[Len(fs)].todo \o Remaining(below)
  <1>0. Len(fs) \in Nat /\ Len(below) \in Nat
    OBVIOUS
  <1>1. PICK f \in Rests(fs, Len(fs)) : Remaining(fs) = f[Len(fs)]
    BY RemainingIs
  <1>2. PICK g \in Rests(below, Len(below)) : Remaining(below) = g[Len(below)]
    BY RemainingIs
  <1> DEFINE k == Len(below)
  <1>3. Len(fs) \in 1..Len(fs) /\ Len(fs) - 1 = k /\ k \in 0..Len(fs) /\ k <= Len(below) /\ k <= Len(fs)
    BY <1>0
  <1>4. f[Len(fs)] = fs[Len(fs)].todo \o f[k]
    <2>1. \A n \in 1..Len(fs) : f[n] = fs[n].todo \o f[n - 1]
      BY DEF Rests
    <2> QED BY <1>3, <2>1
  <1>5. f[k] = g[k]
    BY <1>0, <1>3, RestsAgree
  <1> QED BY <1>1, <1>2, <1>4, <1>5

LEMMA RemainingType ==
    ASSUME NEW fs \in Seq(Frame)
    PROVE  Remaining(fs) \in Seq(Segment) /\ (fs = <<>> => Remaining(fs) = <<>>)
  <1>1. PICK f \in Rests(fs, Len(fs)) : Remaining(fs) = f[Len(fs)]
    BY RemainingIs
  <1>2. Len(fs) \in 0..Len(fs) /\ (fs = <<>> => Len(fs) = 0)
    OBVIOUS
  <1>3. f \in [0..Len(fs) -> Seq(Segment)] /\ f[0] = <<>>
    BY DEF Rests
  <1> QED BY <1>1, <1>2, <1>3

\* Only the outermost activation may be one that does not follow a symlink at its end, and while it
\* waits for the target of a symlink it has segments left.
Nested(fs) ==
    /\ \A n \in 2..Len(fs) : fs[n].follow
    /\ \A n \in 1..(Len(fs) - 1) : fs[n].todo # <<>> \/ fs[n].follow

\* An activation for the target of a symlink follows every symlink to its end, so that it never
\* ends at one; and one that may not do so is only left for a target while segments are left.
NestingOK == Resolving =>
    /\ rv \in {"OK", "FAULT"}
    /\ Nested(frames)
    /\ links <= MaxLinks \/ Len(frames) > 1
    /\ rv = "OK" /\ Len(frames) > 1 =>
         /\ Top.is_dir <=> current = cwd.ref
         /\ current = cwd.ref \/ current \notin Dir \cup Link

Simulated == [PL!Next]_(PL!vars)

LEMMA BelowIs ==
    ASSUME NEW fs \in Seq(Frame), fs # <<>>
    PROVE  /\ Below(fs) \in Seq(Frame) /\ Len(fs) \in Nat \ {0} /\ Len(Below(fs)) \in Nat
           /\ Len(fs) = Len(Below(fs)) + 1
           /\ \A n \in 1..(Len(fs) - 1) : Below(fs)[n] = fs[n]
  <1>1. Len(fs) \in Nat \ {0}
    OBVIOUS
  <1>2. \A n \in 1..(Len(fs) - 1) : fs[n] \in Frame
    OBVIOUS
  <1>3. Below(fs) = [n \in 1..(Len(fs) - 1) |-> fs[n]]
    BY <1>1 DEF Below
  <1>4. Below(fs) \in Seq(Frame) /\ Len(Below(fs)) = Len(fs) - 1
    BY <1>1, <1>2, <1>3
  <1> QED BY <1>1, <1>3, <1>4

\* Activations that differ in the innermost only.
LEMMA RemainingBelow ==
    ASSUME NEW fs \in Seq(Frame), fs # <<>>, NEW gs \in Seq(Frame), Len(gs) = Len(fs),
           \A n \in 1..(Len(fs) - 1) : gs[n] = fs[n]
    PROVE  Remaining(gs) = gs[Len(fs)].todo \o Remaining(Below(fs)) /\ Remaining(Below(fs)) \in Seq(Segment)
  <1> DEFINE below == Below(fs)
  <1>1. /\ below \in Seq(Frame) /\ Len(gs) = Len(below) + 1 /\ Len(below) = Len(fs) - 1
        /\ \A n \in 1..Len(below) : below[n] = gs[n]
    <2>1. Len(below) = Len(fs) - 1
      BY BelowIs
    <2> QED BY <2>1, BelowIs
  <1> HIDE DEF below
  <1>2. Remaining(gs) = gs[Len(gs)].todo \o Remaining(below)
    BY <1>1, RemainingTop
  <1> QED BY <1>1, <1>2, RemainingType DEF below

LEMMA TopRemains ==
    ASSUME frames \in Seq(Frame), Segments
    PROVE  /\ Remaining(frames) # <<>> /\ Head(Remaining(frames)) = Head(Top.todo)
           /\ Tail(Remaining(frames)) = Tail(Top.todo) \o Remaining(Below(frames))
           /\ Head(Top.todo) \in Segment /\ Tail(Top.todo) \in Seq(Segment)
           /\ Remaining(Below(frames)) \in Seq(Segment)
  <1>1. Len(frames) \in Nat \ {0} /\ Top \in Frame /\ Top.todo # <<>>
    BY TopOK DEF Segments
  <1>4. Remaining(frames) = Top.todo \o Remaining(Below(frames)) /\ Remaining(Below(frames)) \in Seq(Segment)
    <2>1. frames # <<>>
      BY DEF Segments, Resolving
    <2> QED BY <2>1, RemainingBelow DEF Top
  <1>5. Top.todo \in Seq(Segment)
    BY <1>1 DEF Frame
  <1> DEFINE s == Top.todo
             t == Remaining(Below(frames))
  <1>6. s \in Seq(Segment) /\ t \in Seq(Segment) /\ s # <<>>
    BY <1>1, <1>4, <1>5
  <1> HIDE DEF s, t
  <1>7. s \o t # <<>> /\ Head(s \o t) = Head(s) /\ Tail(s \o t) = Tail(s) \o t /\ Head(s) \in Segment
        /\ Tail(s) \in Seq(Segment)
    BY <1>6
  <1> QED BY <1>4, <1>7 DEF s, t

LEMMA ConsumedRemains ==
    ASSUME frames \in Seq(Frame), Segments, Nested(frames)
    PROVE  /\ Consumed \in Seq(Frame) /\ Consumed # <<>> /\ Len(Consumed) = Len(frames) /\ Nested(Consumed)
           /\ Consumed[1].follow = frames[1].follow
           /\ Consumed[Len(Consumed)].todo = Tail(Top.todo)
           /\ Consumed[Len(Consumed)].follow = Top.follow
           /\ Consumed[Len(Consumed)].is_dir = Top.is_dir
           /\ Remaining(Consumed) = Tail(Remaining(frames))
  <1>1. Len(frames) \in Nat \ {0} /\ Top \in Frame /\ Top.todo # <<>>
    BY TopOK DEF Segments
  <1>2. Consumed \in Seq(Frame) /\ Len(Consumed) = Len(frames) /\ Consumed # <<>>
    BY ConsumedOK
  <1> DEFINE top == [Top EXCEPT !.todo = Tail(@)]
  <1>3. top.todo = Tail(Top.todo) /\ top.follow = Top.follow /\ top.is_dir = Top.is_dir
    BY <1>1 DEF Frame
  <1>4. Consumed = [frames EXCEPT ![Len(frames)] = top]
    BY DEF Consumed, Top
  <1> HIDE DEF top
  <1>5. Consumed[Len(frames)] = top /\ \A n \in 1..(Len(frames) - 1) : Consumed[n] = frames[n]
    BY <1>1, <1>4
  <1>6. Nested(Consumed)
    <2>1. \A n \in 1..(Len(frames) - 1) : frames[n].todo # <<>> \/ frames[n].follow
      BY DEF Nested
    <2>2. \A n \in 2..Len(frames) : frames[n].follow
      BY DEF Nested
    <2>3. ASSUME NEW n \in 2..Len(frames) PROVE Consumed[n].follow
      <3>1. CASE n = Len(frames)
        BY <1>3, <1>5, <2>2, <3>1 DEF Top
      <3>2. CASE n # Len(frames)
        <4>1. n \in 1..(Len(frames) - 1)
          BY <1>1, <3>2
        <4> QED BY <1>5, <2>2, <4>1
      <3> QED BY <3>1, <3>2
    <2> QED BY <1>2, <1>5, <2>1, <2>3 DEF Nested
  <1>7. Consumed[1].follow = frames[1].follow
    <2>1. CASE Len(frames) = 1
      BY <1>3, <1>5, <2>1 DEF Top
    <2>2. CASE Len(frames) # 1
      <3>1. Len(frames) \in Nat /\ Len(frames) # 0
        BY <1>1
      <3>2. 1 \in 1..(Len(frames) - 1)
        <4>1. \A k \in Nat : k # 0 /\ k # 1 => 1 \in 1..(k - 1)
          OBVIOUS
        <4> QED BY <2>2, <3>1, <4>1
      <3> QED BY <1>5, <3>2
    <2> QED BY <2>1, <2>2
  <1>8. Remaining(Consumed) = Tail(Remaining(frames))
    <2>1. frames # <<>>
      BY DEF Segments, Resolving
    <2>2. Remaining(Consumed) = Consumed[Len(frames)].todo \o Remaining(Below(frames))
      BY <1>2, <1>5, <2>1, RemainingBelow
    <2> QED BY <1>3, <1>5, <2>2, TopRemains
  <1> QED BY <1>2, <1>3, <1>5, <1>6, <1>7, <1>8

LEMMA ArrivedRemains ==
    ASSUME NEW fs \in Seq(Frame), fs # <<>>, Nested(fs), NEW b \in BOOLEAN
    PROVE  LET gs == [fs EXCEPT ![Len(fs)].is_dir = b]
           IN  /\ gs \in Seq(Frame) /\ gs # <<>> /\ Len(gs) = Len(fs) /\ Nested(gs)
               /\ gs[1].follow = fs[1].follow /\ gs[Len(gs)].is_dir = b /\ Remaining(gs) = Remaining(fs)
  <1>1. Len(fs) \in Nat \ {0} /\ fs[Len(fs)] \in Frame
    BY ElementOfSeq
  <1> DEFINE top == [fs[Len(fs)] EXCEPT !.is_dir = b]
             gs == [fs EXCEPT ![Len(fs)] = top]
  <1>2. top \in Frame /\ top.is_dir = b /\ top.todo = fs[Len(fs)].todo /\ top.follow = fs[Len(fs)].follow
    BY <1>1 DEF Frame
  <1> HIDE DEF top
  <1>3. gs \in Seq(Frame) /\ Len(gs) = Len(fs) /\ gs[Len(fs)] = top /\ \A n \in 1..(Len(fs) - 1) : gs[n] = fs[n]
    BY <1>1, <1>2
  <1>4. gs # <<>>
    BY <1>1, <1>3
  <1> HIDE DEF gs
  <1>5. \A n \in 1..Len(fs) : gs[n].follow = fs[n].follow /\ gs[n].todo = fs[n].todo
    <2> TAKE n \in 1..Len(fs)
    <2>1. CASE n = Len(fs)
      BY <1>2, <1>3, <2>1
    <2>2. CASE n # Len(fs)
      <3>1. n \in 1..(Len(fs) - 1)
        BY <1>1, <2>2
      <3> QED BY <1>3, <3>1
    <2> QED BY <2>1, <2>2
  <1>6. Nested(gs)
    <2>1. \A n \in 2..Len(fs) : n \in 1..Len(fs)
      OBVIOUS
    <2>2. \A n \in 1..(Len(fs) - 1) : n \in 1..Len(fs)
      BY <1>1
    <2> QED BY <1>3, <1>5, <2>1, <2>2 DEF Nested
  <1>7. Remaining(gs) = Remaining(fs)
    <2>1. Remaining(gs) = gs[Len(fs)].todo \o Remaining(Below(fs))
      BY <1>3, RemainingBelow
    <2>2. Remaining(fs) = fs[Len(fs)].todo \o Remaining(Below(fs))
      BY RemainingBelow
    <2> QED BY <1>2, <1>3, <2>1, <2>2
  <1> QED BY <1>1, <1>2, <1>3, <1>4, <1>5, <1>6, <1>7 DEF gs, top

LEMMA ActivationRemains ==
    ASSUME NEW fs \in Seq(Frame), Nested(fs), NEW p \in Path, NEW follow \in BOOLEAN,
           fs # <<>> => follow /\ (fs[Len(fs)].todo # <<>> \/ fs[Len(fs)].follow)
    PROVE  LET gs == Append(fs, Activation(p, follow))
           IN  /\ gs \in Seq(Frame) /\ gs # <<>> /\ Len(gs) = Len(fs) + 1 /\ Nested(gs)
               /\ gs[1].follow = IF fs = <<>> THEN follow ELSE fs[1].follow
               /\ gs[Len(gs)].is_dir /\ Remaining(gs) = p.segs \o Remaining(fs)
  <1> DEFINE top == Activation(p, follow)
             gs == Append(fs, top)
  <1>1. top \in Frame /\ top.is_dir /\ top.todo = p.segs /\ top.follow = follow
    BY DEF Activation, Frame, Path
  <1>2. Len(fs) \in Nat /\ (fs = <<>> <=> Len(fs) = 0)
    OBVIOUS
  <1> HIDE DEF top
  <1>3. gs \in Seq(Frame) /\ Len(gs) = Len(fs) + 1 /\ gs[Len(fs) + 1] = top /\ \A n \in 1..Len(fs) : gs[n] = fs[n]
    BY <1>1
  <1>4. gs # <<>>
    BY <1>2, <1>3
  <1> HIDE DEF gs
  <1>5. Nested(gs)
    <2>1. ASSUME NEW n \in 2..Len(gs) PROVE gs[n].follow
      <3>1. CASE n = Len(gs)
        <4>1. fs # <<>>
          BY <1>2, <1>3, <3>1
        <4> QED BY <1>1, <1>3, <3>1, <4>1
      <3>2. CASE n # Len(gs)
        <4>1. n \in 2..Len(fs) /\ n \in 1..Len(fs)
          BY <1>2, <1>3, <3>2
        <4> QED BY <1>3, <4>1 DEF Nested
      <3> QED BY <3>1, <3>2
    <2>2. ASSUME NEW n \in 1..(Len(gs) - 1) PROVE gs[n].todo # <<>> \/ gs[n].follow
      <3>1. n \in 1..Len(fs) /\ gs[n] = fs[n] /\ fs # <<>>
        BY <1>2, <1>3
      <3>2. CASE n = Len(fs)
        BY <3>1, <3>2
      <3>3. CASE n # Len(fs)
        <4>1. n \in 1..(Len(fs) - 1)
          BY <1>2, <3>1, <3>3
        <4> QED BY <3>1, <4>1 DEF Nested
      <3> QED BY <3>2, <3>3
    <2> QED BY <2>1, <2>2 DEF Nested
  <1>6. gs[1].follow = IF fs = <<>> THEN follow ELSE fs[1].follow
    <2>1. CASE fs = <<>>
      BY <1>1, <1>2, <1>3, <2>1
    <2>2. CASE fs # <<>>
      <3>1. 1 \in 1..Len(fs)
        BY <1>2, <2>2
      <3> QED BY <1>3, <2>2, <3>1
    <2> QED BY <2>1, <2>2
  <1>7. Remaining(gs) = p.segs \o Remaining(fs)
    <2>1. Remaining(gs) = gs[Len(gs)].todo \o Remaining(fs)
      BY <1>2, <1>3, RemainingTop
    <2> QED BY <1>1, <1>3, <2>1
  <1> QED BY <1>1, <1>3, <1>4, <1>5, <1>6, <1>7 DEF gs, top

LEMMA BelowRemains ==
    ASSUME frames \in Seq(Frame), Len(frames) > 1, Nested(frames), Top.todo = <<>>
    PROVE  /\ Below(frames) \in Seq(Frame) /\ Below(frames) # <<>> /\ Len(Below(frames)) = Len(frames) - 1
           /\ Nested(Below(frames)) /\ Below(frames)[1].follow = frames[1].follow
           /\ Remaining(Below(frames)) = Remaining(frames)
  <1> DEFINE below == Below(frames)
  <1>0. frames # <<>>
    OBVIOUS
  <1>1. /\ below \in Seq(Frame) /\ Len(below) = Len(frames) - 1 /\ Len(frames) \in Nat
        /\ \A n \in 1..Len(below) : below[n] = frames[n]
    <2>1. Len(below) = Len(frames) - 1
      BY <1>0, BelowIs
    <2> QED BY <1>0, <2>1, BelowIs
  <1> HIDE DEF below
  <1>3. below # <<>> /\ 1 \in 1..Len(below)
    BY <1>1
  <1>4. Nested(below)
    <2>1. ASSUME NEW n \in 2..Len(below) PROVE below[n].follow
      <3>1. n \in 2..Len(frames) /\ n \in 1..Len(below)
        BY <1>1
      <3> QED BY <1>1, <3>1 DEF Nested
    <2>2. ASSUME NEW n \in 1..(Len(below) - 1) PROVE below[n].todo # <<>> \/ below[n].follow
      <3>1. n \in 1..(Len(frames) - 1) /\ n \in 1..Len(below)
        BY <1>1
      <3> QED BY <1>1, <3>1 DEF Nested
    <2> QED BY <2>1, <2>2 DEF Nested
  <1>5. Remaining(below) = Remaining(frames)
    <2>1. Remaining(frames) = Top.todo \o Remaining(below) /\ Remaining(below) \in Seq(Segment)
      BY <1>0, RemainingBelow DEF below, Top
    <2>2. \A s \in Seq(Segment) : <<>> \o s = s
      OBVIOUS
    <2> QED BY <2>1, <2>2
  <1> QED BY <1>1, <1>3, <1>4, <1>5 DEF below

-----------------------------------------------------------------------------
(* What a state looks like to PathLookup *)

\* The place of the resolver, as PathLookup sees it.
Sel == IF is_beginning THEN 0 ELSE iter.at

LEMMA SeenRunning ==
    ASSUME Live, Resolving, frames \in Seq(Frame)
    PROVE  /\ LookupDir = cwd.ref /\ LookupSel = Sel /\ LookupTodo = Remaining(frames)
           /\ LookupFollow = frames[1].follow /\ LookupLinks = links /\ LookupBlocked = ~Top.is_dir
           /\ LookupStatus = "running" /\ LookupAnswer = "OK"
  <1>1. frames[1] \in Frame
    <2>1. 1 \in 1..Len(frames)
      BY TopOK
    <2> QED BY <2>1, ElementOfSeq
  <1>2. frames[1].follow \in BOOLEAN
    BY <1>1 DEF Frame
  <1> QED BY <1>2 DEF LookupDir, LookupSel, Sel, LookupTodo, LookupFollow, LookupLinks, LookupBlocked,
             LookupStatus, LookupAnswer

LEMMA SeenIdle ==
    ASSUME Live, ~Resolving
    PROVE  /\ LookupDir = cwd.ref /\ LookupSel = Sel /\ LookupTodo = <<>>
           /\ LookupFollow = FALSE /\ LookupLinks = 0 /\ LookupBlocked = FALSE
           /\ LookupStatus = "idle" /\ LookupAnswer = rv
  <1>1. frames = <<>> /\ <<>> \in Seq(Frame)
    BY DEF Resolving
  <1>2. Remaining(frames) = <<>>
    BY <1>1, RemainingType
  <1> QED BY <1>2 DEF LookupDir, LookupSel, Sel, LookupTodo, LookupFollow, LookupLinks, LookupBlocked,
             LookupStatus, LookupAnswer

LEMMA SeenClosed ==
    ASSUME ~Live
    PROVE  /\ LookupDir = img.root /\ LookupSel = 0 /\ LookupTodo = <<>>
           /\ LookupFollow = FALSE /\ LookupLinks = 0 /\ LookupBlocked = FALSE
           /\ LookupStatus = "closed" /\ LookupAnswer = "OK"
  BY DEF LookupDir, LookupSel, LookupTodo, LookupFollow, LookupLinks, LookupBlocked, LookupStatus, LookupAnswer

\* The same after a step.
LEMMA ThenRunning ==
    ASSUME Live', Resolving', frames' \in Seq(Frame)
    PROVE  /\ LookupDir' = cwd'.ref /\ LookupSel' = Sel' /\ LookupTodo' = Remaining(frames')
           /\ LookupFollow' = frames'[1].follow /\ LookupLinks' = links' /\ LookupBlocked' = ~(Top'.is_dir)
           /\ LookupStatus' = "running" /\ LookupAnswer' = "OK"
  <1>1. frames'[1] \in Frame
    <2>1. 1 \in 1..Len(frames')
      BY DEF Resolving
    <2> QED BY <2>1, ElementOfSeq
  <1>2. frames'[1].follow \in BOOLEAN
    BY <1>1 DEF Frame
  <1> QED BY <1>2 DEF LookupDir, LookupSel, Sel, LookupTodo, LookupFollow, LookupLinks, LookupBlocked,
             LookupStatus, LookupAnswer

LEMMA ThenIdle ==
    ASSUME Live', ~Resolving'
    PROVE  /\ LookupDir' = cwd'.ref /\ LookupSel' = Sel' /\ LookupTodo' = <<>>
           /\ LookupFollow' = FALSE /\ LookupLinks' = 0 /\ LookupBlocked' = FALSE
           /\ LookupStatus' = "idle" /\ LookupAnswer' = rv'
  <1>1. frames' = <<>> /\ <<>> \in Seq(Frame)
    BY DEF Resolving
  <1>2. Remaining(frames') = <<>>
    BY <1>1, RemainingType
  <1> QED BY <1>2 DEF LookupDir, LookupSel, Sel, LookupTodo, LookupFollow, LookupLinks, LookupBlocked,
             LookupStatus, LookupAnswer

LEMMA ThenClosed ==
    ASSUME ~Live'
    PROVE  /\ LookupDir' = img'.root /\ LookupSel' = 0 /\ LookupTodo' = <<>>
           /\ LookupFollow' = FALSE /\ LookupLinks' = 0 /\ LookupBlocked' = FALSE
           /\ LookupStatus' = "closed" /\ LookupAnswer' = "OK"
  BY DEF LookupDir, LookupSel, LookupTodo, LookupFollow, LookupLinks, LookupBlocked, LookupStatus, LookupAnswer

\* The caller is done, or the archive could not be read.
LEMMA StepCloses ==
    ASSUME ~Live', UNCHANGED img, file' \in {file, NoFile}
    PROVE  Simulated
  <1>1. PL!Close(file')
    BY ThenClosed DEF PL!Close, PL!At
  <1>2. PL!GiveUp
    BY <1>1 DEF PL!GiveUp
  <1> QED BY <1>2 DEF PL!Next, Simulated

-----------------------------------------------------------------------------
(* Where a live resolver is *)

LEMMA LiveFacts ==
    ASSUME IInv, Live
    PROVE  /\ PlaceType /\ KnownOK /\ img \in Images /\ frames \in Seq(Frame) /\ cwd.loaded
           /\ cwd.ref \in Dir /\ cwd.ref \in known /\ links \in 0..(MaxLinks + 1)
           /\ Sel \in 0..Len(img.list[cwd.ref]) /\ (Sel = 0 <=> is_beginning)
           /\ Sel # 0 => img.list[cwd.ref][Sel].ref = current /\ Entry.ref = current
           /\ ~is_beginning => iter.dir = cwd.ref
           /\ (rv # "FAULT" => Standing)
  <1>1. /\ PlaceType /\ KnownOK /\ img \in Images /\ frames \in Seq(Frame) /\ links \in 0..(MaxLinks + 1)
        /\ cwd.loaded
    BY DEF IInv, PlaceOK, FramesOK, JobOK, PlaceType, Live
  <1>2. Standing \/ (rv = "FAULT" /\ Stranded)
    BY DEF IInv, PlaceOK, FramesOK, Live, Lost
  <1>3. cwd.ref \in known /\ cwd.ref \in Dir
    BY <1>1, <1>2 DEF Standing, Stranded, KnownOK, Reachable
  <1>4. ~is_beginning => /\ iter.at \in 1..Len(img.list[cwd.ref]) /\ iter.dir = cwd.ref
                         /\ Entry.ref = current /\ img.list[cwd.ref][iter.at].ref = current
    BY <1>1, <1>2 DEF Standing, Stranded, is_beginning, Entry
  <1>5. Len(img.list[cwd.ref]) \in Nat
    <2>1. img.list[cwd.ref] \in Seq([name : Name, ref : Inode])
      BY <1>1, <1>3, ListType
    <2> QED BY <2>1
  <1>6. rv # "FAULT" => Standing
    BY <1>2
  <1>7. CASE is_beginning
    BY <1>1, <1>3, <1>5, <1>6, <1>7 DEF Sel
  <1>8. CASE ~is_beginning
    BY <1>1, <1>3, <1>4, <1>5, <1>6, <1>8 DEF Sel
  <1> QED BY <1>7, <1>8

\* A directory does not list itself.
LEMMA NotItself ==
    ASSUME img \in Images, NEW d \in Dir, NEW i \in 1..Len(img.list[d])
    PROVE  img.list[d][i].ref # d
  BY ImageAssumption

LEMMA MovedAt ==
    ASSUME NEW ref, At(ref)
    PROVE  cwd'.ref = ref /\ cwd'.loaded /\ Sel' = 0 /\ rv' = "OK" /\ current' = cwd'.ref
  BY DEF At, Sel, is_beginning

LEMMA MovedBack ==
    ASSUME NEW at, Rewound(at)
    PROVE  cwd' = cwd /\ Sel' = 0 /\ current' = cwd'.ref
  BY DEF Rewound, Sel, is_beginning

LEMMA MovedTo ==
    ASSUME img \in Images, cwd.ref \in Dir, NEW i \in 1..Len(img.list[cwd.ref]), Selected(i)
    PROVE  cwd' = cwd /\ Sel' = i /\ current' = img.list[cwd.ref][i].ref /\ current' # cwd'.ref
  BY NotItself DEF Selected, Sel, is_beginning

LEMMA MovedNot ==
    ASSUME UNCHANGED place
    PROVE  cwd' = cwd /\ Sel' = Sel /\ current' = current
  BY DEF place, Sel, is_beginning

\* Going down, or to a reference, either arrives or fails; if it fails with the directory loaded
\* it has arrived nevertheless.
LEMMA MovedDown ==
    ASSUME NEW ref, DownTo(ref)
    PROVE  /\ rv' \in {"OK", "FAULT"}
           /\ cwd'.loaded => cwd'.ref = ref /\ Sel' = 0 /\ current' = cwd'.ref
           /\ rv' = "OK" => cwd'.loaded
  <1>1. CASE At(ref)
    BY <1>1, MovedAt
  <1>2. CASE ToRefFails(ref, ref)
    BY <1>2 DEF ToRefFails, Sel, is_beginning
  <1> QED BY <1>1, <1>2 DEF DownTo

-----------------------------------------------------------------------------
(* Turns, as PathLookup sees them *)

\* What a turn leaves alone.
Turn == rv # "UNDEFINED" /\ UNCHANGED <<img, job, file>>

LEMMA StillLive ==
    ASSUME Live, Turn
    PROVE  Live' <=> cwd'.loaded /\ rv' # "UNDEFINED" /\ (rv' = "FAULT" => Resolving')
  BY DEF Live, Turn

\* A path is refused: the caller is told, and the resolver stays where it got to.
LEMMA TurnNotADirectory ==
    ASSUME IInv, NestingOK, Live, Turn, NotADirectory
    PROVE  Simulated /\ NestingOK'
  <1>1. ~Resolving' /\ Resolving /\ rv' = "NOT_A_DIRECTORY" /\ Segments /\ ~Top.is_dir /\ UNCHANGED place
    BY DEF NotADirectory, Resolving, Segments
  <1>2. Live' /\ frames \in Seq(Frame)
    BY <1>1, StillLive, MovedNot, LiveFacts DEF Live
  <1>3. PL!Reject
    BY <1>1, <1>2, SeenRunning, ThenIdle, TopRemains, MovedNot
       DEF PL!Reject, PL!Answer, PL!place, Turn
  <1> QED BY <1>1, <1>3 DEF PL!Next, Simulated, NestingOK, Turn

LEMMA TurnDot ==
    ASSUME IInv, NestingOK, Live, Turn, Dot
    PROVE  Simulated /\ NestingOK'
  <1>1. /\ Segments /\ Resolving /\ Top.is_dir /\ Head(Top.todo) = "." /\ frames' = Consumed
        /\ UNCHANGED <<place, links, rv>> /\ Nested(frames) /\ frames \in Seq(Frame)
    BY LiveFacts DEF Dot, Segments, NestingOK
  <1>2. /\ Consumed \in Seq(Frame) /\ Consumed # <<>> /\ Len(Consumed) = Len(frames) /\ Nested(Consumed)
        /\ Consumed[1].follow = frames[1].follow /\ Consumed[Len(Consumed)].is_dir = Top.is_dir
        /\ Remaining(Consumed) = Tail(Remaining(frames))
    BY <1>1, ConsumedRemains
  <1>3. Resolving' /\ Top'.is_dir = Top.is_dir
    BY <1>1, <1>2 DEF Resolving, Top
  <1>4. Live' /\ cwd' = cwd /\ Sel' = Sel /\ current' = current
    BY <1>1, <1>3, StillLive, MovedNot DEF Live
  <1>5. /\ Remaining(frames) # <<>> /\ Head(Remaining(frames)) = "."
    BY <1>1, TopRemains
  <1>6. PL!Dot
    BY <1>1, <1>2, <1>3, <1>4, <1>5, SeenRunning, ThenRunning
       DEF PL!Dot, PL!Running, PL!Continue, PL!place, Turn
  <1>7. NestingOK'
    BY <1>1, <1>2, <1>3, <1>4 DEF NestingOK
  <1> QED BY <1>6, <1>7 DEF PL!Next, Simulated, Turn

\* Where going up leads.
LEMMA MovedUp ==
    ASSUME IInv, Live, UNCHANGED img, Up
    PROVE  \/ rv' = "OK" /\ Sel # 0 /\ cwd' = cwd /\ Sel' = 0 /\ current' = cwd'.ref
           \/ /\ rv' = "OK" /\ Sel = 0 /\ cwd.ref # img.root /\ img.parent[cwd.ref] \in Dir
              /\ cwd'.loaded /\ cwd'.ref = img.parent[cwd.ref] /\ Sel' = 0 /\ current' = cwd'.ref
           \/ rv' = "CANNOT_GO_UP" /\ Sel = 0 /\ cwd.ref = img.root /\ UNCHANGED place
           \/ rv' \in {"FAULT", "UNDEFINED"}
  <1>1. cwd.loaded /\ KnownOK /\ cwd.ref \in known /\ (Sel = 0 <=> is_beginning)
    BY LiveFacts
  <1>2. CASE UpFromEntry
    BY <1>1, <1>2, MovedBack DEF UpFromEntry, Rewind, RewindFails, Undefined
  <1>3. CASE UpFromDir
    <2>1. cwd.ref # img.root => img.parent[cwd.ref] \in known /\ img.parent[cwd.ref] \in Dir
      BY <1>1 DEF KnownOK, Reachable
    <2>2. CASE cwd.ref # img.root /\ cwd.loaded /\ ToInode(img.parent[cwd.ref])
      <3>1. At(img.parent[cwd.ref]) \/ rv' = "FAULT"
        BY <2>1, <2>2 DEF ToInode, ToRef, ToRefFails
      <3> QED BY <1>1, <1>3, <2>1, <2>2, <3>1, MovedAt DEF UpFromDir
    <2> QED BY <1>1, <1>3, <2>2 DEF UpFromDir
  <1> QED BY <1>2, <1>3 DEF Up

LEMMA TurnDotDot ==
    ASSUME IInv, NestingOK, Live, Turn, DotDot
    PROVE  Simulated /\ NestingOK'
  <1>1. /\ Segments /\ Resolving /\ Top.is_dir /\ Head(Top.todo) = ".." /\ Up /\ Continue(Consumed)
        /\ UNCHANGED links /\ Nested(frames) /\ frames \in Seq(Frame) /\ cwd.loaded /\ img \in Images
    BY LiveFacts DEF DotDot, Segments, NestingOK
  <1>2. /\ Consumed \in Seq(Frame) /\ Consumed # <<>> /\ Len(Consumed) = Len(frames) /\ Nested(Consumed)
        /\ Consumed[1].follow = frames[1].follow /\ Consumed[Len(Consumed)].is_dir = Top.is_dir
        /\ Remaining(Consumed) = Tail(Remaining(frames))
    BY <1>1, ConsumedRemains
  <1>3. Remaining(frames) # <<>> /\ Head(Remaining(frames)) = ".."
    BY <1>1, TopRemains
  <1>4. CASE rv' = "OK"
    <2>1. frames' = Consumed /\ Resolving' /\ Top'.is_dir = Top.is_dir
      BY <1>1, <1>2, <1>4 DEF Continue, Resolving, Top
    <2>2. cwd'.loaded /\ current' = cwd'.ref /\ Sel' = 0
      BY <1>1, <1>4, MovedUp DEF Turn, place
    <2>3. Live'
      BY <1>4, <2>1, <2>2, StillLive
    <2>4. IF LookupSel # 0 THEN PL!At(LookupDir, 0)
          ELSE PL!Parent(LookupDir) # NoDir /\ PL!At(PL!Parent(LookupDir), 0)
      <3>1. CASE Sel # 0 /\ cwd' = cwd
        BY <1>1, <2>1, <2>2, <2>3, <3>1, SeenRunning, ThenRunning, <1>2 DEF PL!At
      <3>2. CASE Sel = 0 /\ cwd.ref # img.root /\ cwd'.ref = img.parent[cwd.ref] /\ img.parent[cwd.ref] \in Dir
        <4>1. img.parent[cwd.ref] # NoDir
          BY <3>2, PathAssumption DEF Inode
        <4> QED BY <1>1, <1>2, <2>1, <2>2, <2>3, <3>2, <4>1, SeenRunning, ThenRunning DEF PL!At, PL!Parent
      <3> QED BY <1>1, <1>4, <3>1, <3>2, MovedUp DEF Turn
    <2>5. PL!DotDot
      BY <1>1, <1>2, <1>3, <2>1, <2>3, <2>4, SeenRunning, ThenRunning
         DEF PL!DotDot, PL!Running, PL!Continue, Turn
    <2>6. NestingOK'
      BY <1>1, <1>2, <1>4, <2>1, <2>2 DEF NestingOK
    <2> QED BY <2>5, <2>6 DEF PL!Next, Simulated, Turn
  <1>5. CASE rv' # "OK"
    <2>1. ~Resolving'
      BY <1>1, <1>5 DEF Continue, Resolving
    <2>2. NestingOK'
      BY <2>1 DEF NestingOK
    <2>3. CASE rv' = "CANNOT_GO_UP" /\ Sel = 0 /\ cwd.ref = img.root /\ UNCHANGED place
      <3>1. Live' /\ cwd' = cwd /\ Sel' = Sel
        BY <1>1, <2>3, StillLive, MovedNot
      <3>2. PL!Reject
        BY <1>1, <1>3, <2>1, <2>3, <3>1, SeenRunning, ThenIdle
           DEF PL!Reject, PL!Running, PL!Answer, PL!place, PL!Parent, Turn
      <3> QED BY <2>2, <3>2 DEF PL!Next, Simulated, Turn
    <2>4. CASE rv' \in {"FAULT", "UNDEFINED"}
      <3>1. ~Live'
        BY <2>1, <2>4, StillLive
      <3> QED BY <2>2, <3>1, StepCloses DEF Turn
    <2> QED BY <1>1, <1>5, <2>3, <2>4, MovedUp DEF Turn
  <1> QED BY <1>4, <1>5

LEMMA TurnNameFails ==
    ASSUME IInv, NestingOK, Live, Turn, NameFails
    PROVE  Simulated /\ NestingOK'
  <1>1. /\ Segments /\ Resolving /\ Top.is_dir /\ LookupFails(Head(Top.todo)) /\ ~Resolving'
        /\ frames \in Seq(Frame) /\ cwd.loaded
    BY LiveFacts DEF NameFails, Segments, Resolving
  <1>2. NestingOK'
    BY <1>1 DEF NestingOK
  <1>3. CASE rv' = "FAULT"
    <2>1. ~Live'
      BY <1>1, <1>3, StillLive
    <2> QED BY <1>2, <2>1, StepCloses DEF Turn
  <1>4. CASE /\ Named(cwd.ref, Head(Top.todo)) = {} /\ Rewound(Len(img.list[cwd.ref]))
             /\ rv' = "NO_SUCH_FILE"
    <2>1. Live' /\ cwd' = cwd /\ Sel' = 0
      BY <1>1, <1>4, StillLive, MovedBack
    <2>2. Remaining(frames) # <<>> /\ Head(Remaining(frames)) = Head(Top.todo)
      BY <1>1, TopRemains
    <2>3. PL!Named(cwd.ref, Head(Remaining(frames))) = {}
      BY <1>4, <2>2 DEF PL!Named, Named
    <2>4. PL!Reject
      BY <1>1, <1>4, <2>1, <2>2, <2>3, SeenRunning, ThenIdle
         DEF PL!Reject, PL!Running, PL!Answer, PL!At, Turn
    <2> QED BY <1>2, <2>4 DEF PL!Next, Simulated, Turn
  <1> QED BY <1>1, <1>3, <1>4 DEF LookupFails, RewindFails

\* Only the path a caller asked for can end at a symlink.
LEMMA LinkIsLast ==
    ASSUME frames \in Seq(Frame), Segments, Nested(frames), Tail(Top.todo) = <<>>, ~Top.follow
    PROVE  Len(frames) = 1 /\ Tail(Remaining(frames)) = <<>> /\ ~frames[1].follow
  <1>1. Len(frames) \in Nat \ {0}
    BY TopOK DEF Segments
  <1>2. Len(frames) = 1
    <2>1. ASSUME Len(frames) # 1 PROVE FALSE
      <3>1. Len(frames) \in 2..Len(frames)
        <4>1. \A k \in Nat \ {0} : k # 1 => k \in 2..k
          OBVIOUS
        <4> QED BY <1>1, <2>1, <4>1
      <3> QED BY <3>1 DEF Nested, Top
    <2> QED BY <2>1
  <1>3. Below(frames) = <<>>
    <2>1. frames # <<>>
      BY DEF Segments, Resolving
    <2>2. Below(frames) \in Seq(Frame) /\ Len(Below(frames)) = 0
      <3>1. Len(Below(frames)) \in Nat /\ Len(frames) = Len(Below(frames)) + 1
        BY <2>1, BelowIs
      <3> QED BY <1>2, <2>1, <3>1, BelowIs
    <2> QED BY <2>2
  <1>4. Remaining(Below(frames)) = <<>>
    <2>1. Below(frames) \in Seq(Frame)
      BY <1>3
    <2> QED BY <1>3, <2>1, RemainingType
  <1>5. Tail(Remaining(frames)) = <<>> \o <<>>
    BY <1>4, TopRemains
  <1> QED BY <1>2, <1>5 DEF Top

\* The end of a turn that found the entry i.
LEMMA TurnArrive ==
    ASSUME IInv, NestingOK, Live, Turn, Segments, Top.is_dir, Head(Top.todo) \in Name,
           NEW i \in Named(cwd.ref, Head(Top.todo)),
           Arrive(Consumed, img.list[cwd.ref][i].ref, Selected(i)),
           img.list[cwd.ref][i].ref \in Link => Tail(Top.todo) = <<>> /\ ~Top.follow
    PROVE  Simulated /\ NestingOK'
  <1> DEFINE ref == img.list[cwd.ref][i].ref
  <1>1. /\ Resolving /\ Nested(frames) /\ frames \in Seq(Frame) /\ img \in Images /\ cwd.ref \in Dir
        /\ i \in 1..Len(img.list[cwd.ref]) /\ (links <= MaxLinks \/ Len(frames) > 1)
    BY LiveFacts DEF Segments, NestingOK, Named
  <1>2. /\ Consumed \in Seq(Frame) /\ Consumed # <<>> /\ Len(Consumed) = Len(frames) /\ Nested(Consumed)
        /\ Consumed[1].follow = frames[1].follow
        /\ Remaining(Consumed) = Tail(Remaining(frames))
    BY <1>1, ConsumedRemains
  <1>3. /\ UNCHANGED links /\ ref # cwd.ref
        /\ frames' = [Consumed EXCEPT ![Len(Consumed)].is_dir = (ref \in Dir)]
        /\ ref \in Dir => DownTo(ref)
        /\ ref \notin Dir => Selected(i) /\ rv' = "OK"
    BY <1>1, NotItself DEF Arrive
  <1> HIDE DEF ref
  <1>4. /\ frames' \in Seq(Frame) /\ frames' # <<>> /\ Len(frames') = Len(frames) /\ Nested(frames')
        /\ frames'[1].follow = frames[1].follow /\ frames'[Len(frames')].is_dir = (ref \in Dir)
        /\ Remaining(frames') = Tail(Remaining(frames))
    <2>1. (ref \in Dir) \in BOOLEAN
      OBVIOUS
    <2> QED BY <1>2, <1>3, <2>1, ArrivedRemains
  <1>5. Resolving' /\ Top'.is_dir = (ref \in Dir)
    BY <1>4 DEF Resolving, Top
  <1>6. /\ PL!Running /\ i \in PL!Named(LookupDir, Head(LookupTodo)) /\ PL!Ref(LookupDir, i) = ref
        /\ LookupTodo = Remaining(frames) /\ LookupDir = cwd.ref /\ LookupLinks = links
        /\ LookupFollow = frames[1].follow /\ LookupStatus = "running" /\ LookupAnswer = "OK"
        /\ LookupBlocked = FALSE
    BY <1>1, TopRemains, SeenRunning DEF PL!Running, PL!Named, Named, PL!Ref, ref
  <1>7. CASE ref \in Dir
    <2>1. /\ rv' \in {"OK", "FAULT"} /\ (rv' = "OK" => cwd'.loaded)
          /\ cwd'.loaded => cwd'.ref = ref /\ Sel' = 0 /\ current' = cwd'.ref
      BY <1>3, <1>7, MovedDown
    <2>2. NestingOK'
      BY <1>1, <1>3, <1>4, <1>5, <1>7, <2>1 DEF NestingOK
    <2>3. CASE cwd'.loaded
      <3>1. Live'
        BY <1>5, <2>1, <2>3, StillLive
      <3>2. PL!Enter(i)
        BY <1>3, <1>4, <1>5, <1>6, <1>7, <2>1, <2>3, <3>1, ThenRunning
           DEF PL!Enter, PL!At, PL!Continue, Turn
      <3> QED BY <1>6, <2>2, <3>2 DEF PL!Find, PL!Next, Simulated, Turn
    <2>4. CASE ~cwd'.loaded
      <3>1. ~Live'
        BY <2>4 DEF Live
      <3> QED BY <2>2, <3>1, StepCloses DEF Turn
    <2> QED BY <2>3, <2>4
  <1>8. CASE ref \notin Dir
    <2>1. cwd' = cwd /\ Sel' = i /\ current' = ref /\ current' # cwd'.ref /\ rv' = "OK"
      BY <1>1, <1>3, <1>8, MovedTo DEF ref
    <2>2. ref \in Link => Len(frames) = 1 /\ Tail(Remaining(frames)) = <<>> /\ ~frames[1].follow
      BY <1>1, LinkIsLast DEF ref
    <2>3. NestingOK'
      <3>0. ~Top'.is_dir
        BY <1>5, <1>8, Zenon
      <3>1. ~Top'.is_dir /\ (Len(frames') > 1 => current' \notin Dir \cup Link)
        BY <1>4, <1>8, <2>1, <2>2, <3>0
      <3>2. links' <= MaxLinks \/ Len(frames') > 1
        BY <1>1, <1>3, <1>4
      <3> QED BY <1>4, <2>1, <3>1, <3>2 DEF NestingOK
    <2>4. Live'
      BY <1>5, <2>1, StillLive DEF Live
    <2>5. PL!Pick(i)
      BY <1>3, <1>4, <1>5, <1>6, <1>8, <2>1, <2>2, <2>4, ThenRunning
         DEF PL!Pick, PL!At, PL!Continue, Turn
    <2> QED BY <1>6, <2>3, <2>5 DEF PL!Find, PL!Next, Simulated, Turn
  <1> QED BY <1>7, <1>8

\* Segments that are left at the bottom are left.
LEMMA FirstRemains ==
    ASSUME NEW fs \in Seq(Frame), fs # <<>>, fs[1].todo # <<>>
    PROVE  Remaining(fs) # <<>>
  <1>1. PICK f \in Rests(fs, Len(fs)) : Remaining(fs) = f[Len(fs)]
    BY RemainingIs
  <1>2. f \in [0..Len(fs) -> Seq(Segment)] /\ \A n \in 1..Len(fs) : f[n] = fs[n].todo \o f[n - 1]
    BY DEF Rests
  <1>3. Len(fs) \in Nat \ {0}
    OBVIOUS
  <1>4. \A n \in 1..Len(fs) : fs[n].todo \in Seq(Segment)
    <2>1. \A n \in 1..Len(fs) : fs[n] \in Frame
      BY ElementOfSeq
    <2> QED BY <2>1 DEF Frame
  <1>5. \A s, t \in Seq(Segment) : s # <<>> \/ t # <<>> => s \o t # <<>>
    OBVIOUS
  <1> DEFINE S == {n \in Nat : n + 1 <= Len(fs) => f[n + 1] # <<>>}
  <1>6. 0 \in S
    <2>1. 1 \in 1..Len(fs) /\ 1 - 1 \in 0..Len(fs)
      BY <1>3
    <2>2. f[1] = fs[1].todo \o f[1 - 1]
      BY <1>2, <2>1
    <2>3. f[1] # <<>>
      BY <1>2, <1>4, <1>5, <2>1, <2>2
    <2> QED BY <2>3
  <1>7. ASSUME NEW n \in Nat, n \in S PROVE n + 1 \in S
    <2> SUFFICES ASSUME n + 2 <= Len(fs) PROVE f[n + 2] # <<>>
      BY <1>7
    <2>1. n + 2 \in 1..Len(fs) /\ (n + 2) - 1 = n + 1 /\ n + 1 \in 0..Len(fs) /\ f[n + 1] # <<>>
      BY <1>3, <1>7
    <2>2. f[n + 2] = fs[n + 2].todo \o f[n + 1]
      BY <1>2, <2>1
    <2> QED BY <1>2, <1>4, <1>5, <2>1, <2>2
  <1>8. Nat \subseteq S
    <2> HIDE DEF S
    <2> QED BY <1>6, <1>7, AllNumbers
  <1>9. Len(fs) - 1 \in S /\ (Len(fs) - 1) + 1 = Len(fs)
    <2> HIDE DEF S
    <2> QED BY <1>3, <1>8
  <1> QED BY <1>1, <1>3, <1>9

\* If path_resolve follows the symlink it found, PathLookup may do so.
LEMMA MayFollow ==
    ASSUME frames \in Seq(Frame), Segments, Nested(frames), Tail(Top.todo) # <<>> \/ Top.follow
    PROVE  Tail(Remaining(frames)) # <<>> \/ frames[1].follow
  <1> DEFINE s == Tail(Top.todo)
             t == Remaining(Below(frames))
  <1>1. Tail(Remaining(frames)) = s \o t /\ s \in Seq(Segment) /\ t \in Seq(Segment)
    BY TopRemains
  <1> HIDE DEF s, t
  <1>2. s # <<>> \/ t # <<>> => s \o t # <<>>
    BY <1>1
  <1>3. frames # <<>>
    BY DEF Segments, Resolving
  <1>4. CASE Tail(Top.todo) # <<>>
    BY <1>1, <1>2, <1>4 DEF s
  <1>5. CASE Len(frames) = 1 /\ Top.follow
    BY <1>5 DEF Top
  <1>6. CASE Len(frames) # 1
    <2>1. Below(frames) \in Seq(Frame) /\ Len(frames) \in Nat \ {0} /\ Len(frames) = Len(Below(frames)) + 1
          /\ \A n \in 1..(Len(frames) - 1) : Below(frames)[n] = frames[n]
      BY <1>3, BelowIs
    <2>2. 1 \in 1..(Len(frames) - 1)
      <3>1. \A k \in Nat \ {0} : k # 1 => 1 \in 1..(k - 1)
        OBVIOUS
      <3> QED BY <1>6, <2>1, <3>1
    <2>3. frames[1].todo # <<>> \/ frames[1].follow
      BY <2>2 DEF Nested
    <2>4. Below(frames) # <<>> /\ Below(frames)[1] = frames[1]
      BY <1>6, <2>1, <2>2
    <2>5. frames[1].todo # <<>> => t # <<>>
      BY <2>1, <2>4, FirstRemains DEF t
    <2> QED BY <1>1, <1>2, <2>3, <2>5
  <1> QED BY <1>4, <1>5, <1>6

LEMMA TargetIsPath ==
    ASSUME img \in Images, NEW l \in Link
    PROVE  img.target[l] \in Path
  BY ImageAssumption

\* A symlink is followed: its target is looked up, then what is left.
LEMMA TurnFollow ==
    ASSUME IInv, NestingOK, Live, Turn, Segments, Top.is_dir, Head(Top.todo) \in Name,
           NEW i \in Named(cwd.ref, Head(Top.todo)), links <= MaxLinks, img.list[cwd.ref][i].ref \in Link,
           Tail(Top.todo) # <<>> \/ Top.follow, FollowSymlink(Consumed, img.list[cwd.ref][i].ref)
    PROVE  Simulated /\ NestingOK'
  <1> DEFINE ref == img.list[cwd.ref][i].ref
             target == img.target[ref]
  <1>1. /\ Resolving /\ Nested(frames) /\ frames \in Seq(Frame) /\ img \in Images /\ cwd.ref \in Dir
        /\ i \in 1..Len(img.list[cwd.ref]) /\ cwd.loaded /\ ref \in Link /\ target \in Path
        /\ links' = links + 1
    BY LiveFacts, TargetIsPath DEF Segments, NestingOK, Named, FollowSymlink
  <1>2. /\ Consumed \in Seq(Frame) /\ Consumed # <<>> /\ Len(Consumed) = Len(frames) /\ Nested(Consumed)
        /\ Consumed[1].follow = frames[1].follow /\ Consumed[Len(Consumed)].todo = Tail(Top.todo)
        /\ Consumed[Len(Consumed)].follow = Top.follow
        /\ Remaining(Consumed) = Tail(Remaining(frames))
    BY <1>1, ConsumedRemains
  <1>3. \/ frames' = <<>> /\ rv' \in {"FAULT", "UNDEFINED"}
        \/ /\ frames' = Append(Consumed, Activation(target, TRUE)) /\ rv' = "OK"
           /\ IF target.abs THEN At(img.root) ELSE Rewound(0)
    <2>1. \/ frames' = <<>> /\ rv' \in {"FAULT", "UNDEFINED"}
          \/ Enter(Consumed, target, TRUE, Rewound(0))
      BY DEF FollowSymlink
    <2> HIDE DEF target
    <2>2. CASE Enter(Consumed, target, TRUE, Rewound(0))
      <3>1. (target.abs /\ (At(img.root) \/ rv' = "FAULT")) \/ (~target.abs /\ Rewound(0) /\ rv' = "OK")
        BY <2>2 DEF Enter, ToRef, ToRefFails
      <3>2. At(img.root) => rv' = "OK"
        BY DEF At
      <3> QED BY <2>2, <3>1, <3>2 DEF Enter, Continue
    <2> QED BY <2>1, <2>2
  <1>4. /\ PL!Running /\ i \in PL!Named(LookupDir, Head(LookupTodo)) /\ PL!Ref(LookupDir, i) = ref
        /\ LookupTodo = Remaining(frames) /\ LookupDir = cwd.ref /\ LookupLinks = links
        /\ LookupFollow = frames[1].follow /\ LookupStatus = "running" /\ LookupAnswer = "OK"
        /\ LookupBlocked = FALSE
    BY <1>1, TopRemains, SeenRunning DEF PL!Running, PL!Named, Named, PL!Ref
  <1>5. Tail(Remaining(frames)) # <<>> \/ frames[1].follow
    BY <1>1, MayFollow
  <1> HIDE DEF ref, target
  <1>6. CASE frames' = <<>> /\ rv' \in {"FAULT", "UNDEFINED"}
    <2>1. ~Live' /\ ~Resolving'
      BY <1>6 DEF Live, Resolving
    <2> QED BY <2>1, StepCloses DEF Turn, NestingOK
  <1>7. CASE /\ frames' = Append(Consumed, Activation(target, TRUE)) /\ rv' = "OK"
             /\ IF target.abs THEN At(img.root) ELSE Rewound(0)
    <2>1. /\ frames' \in Seq(Frame) /\ frames' # <<>> /\ Len(frames') = Len(Consumed) + 1 /\ Nested(frames')
          /\ frames'[1].follow = frames[1].follow
          /\ frames'[Len(frames')].is_dir /\ Remaining(frames') = target.segs \o Tail(Remaining(frames))
      <3> DEFINE fs == Consumed
                 gs == Append(fs, Activation(target, TRUE))
      <3>1. fs \in Seq(Frame) /\ Nested(fs) /\ (fs[Len(fs)].todo # <<>> \/ fs[Len(fs)].follow)
        BY <1>2
      <3>2. frames' = gs /\ fs # <<>> /\ fs[1].follow = frames[1].follow
            /\ Remaining(fs) = Tail(Remaining(frames))
        BY <1>2, <1>7
      <3> HIDE DEF fs
      <3>3. /\ gs \in Seq(Frame) /\ gs # <<>> /\ Len(gs) = Len(fs) + 1 /\ Nested(gs)
            /\ gs[1].follow = IF fs = <<>> THEN TRUE ELSE fs[1].follow
            /\ gs[Len(gs)].is_dir /\ Remaining(gs) = target.segs \o Remaining(fs)
        BY <1>1, <3>1, ActivationRemains
      <3> HIDE DEF gs
      <3>4. Len(frames') = Len(Consumed) + 1
        BY <3>2, <3>3 DEF fs
      <3> QED BY <3>2, <3>3, <3>4
    <2>2. Resolving' /\ Top'.is_dir /\ Len(frames') > 1
      <3>1. Len(frames) \in Nat \ {0}
        BY <1>1, TopOK
      <3> QED BY <1>2, <2>1, <3>1 DEF Resolving, Top
    <2>3. cwd'.ref = (IF target.abs THEN img.root ELSE cwd.ref) /\ cwd'.loaded /\ Sel' = 0 /\ current' = cwd'.ref
      BY <1>1, <1>7, MovedAt, MovedBack
    <2>4. Live'
      BY <1>7, <2>2, <2>3, StillLive
    <2>5. NestingOK'
      BY <1>7, <2>1, <2>2, <2>3 DEF NestingOK
    <2>6. PL!FollowLink(i)
      BY <1>1, <1>4, <1>5, <2>1, <2>2, <2>3, <2>4, ThenRunning
         DEF PL!FollowLink, PL!At, PL!Continue, Turn, target
    <2> QED BY <1>4, <2>5, <2>6 DEF PL!Find, PL!Next, Simulated, Turn
  <1> QED BY <1>3, <1>6, <1>7

LEMMA TurnNameFound ==
    ASSUME IInv, NestingOK, Live, Turn, NameFound
    PROVE  Simulated /\ NestingOK'
  <1>1. PICK i \in Named(cwd.ref, Head(Top.todo)) :
          IF Tail(Top.todo) # <<>> \/ Top.follow
          THEN FollowAll(Consumed, img.list[cwd.ref][i].ref, Selected(i))
          ELSE Arrive(Consumed, img.list[cwd.ref][i].ref, Selected(i))
    BY DEF NameFound
  <1>2. Segments /\ Top.is_dir /\ Head(Top.todo) \in Name /\ Resolving
    BY DEF NameFound, Segments
  <1>3. CASE Arrive(Consumed, img.list[cwd.ref][i].ref, Selected(i))
             /\ (img.list[cwd.ref][i].ref \in Link => Tail(Top.todo) = <<>> /\ ~Top.follow)
    BY <1>2, <1>3, TurnArrive
  <1>4. CASE links <= MaxLinks /\ img.list[cwd.ref][i].ref \in Link
             /\ (Tail(Top.todo) # <<>> \/ Top.follow)
             /\ FollowSymlink(Consumed, img.list[cwd.ref][i].ref)
    BY <1>2, <1>4, TurnFollow
  <1>5. CASE links > MaxLinks /\ Selected(i) /\ rv' = "TOO_MANY_SYMLINKS" /\ frames' = <<>>
    <2>1. ~Resolving' /\ NestingOK' /\ i \in 1..Len(img.list[cwd.ref]) /\ img \in Images /\ cwd.ref \in Dir
          /\ frames \in Seq(Frame) /\ cwd.loaded
      BY <1>5, LiveFacts DEF Resolving, NestingOK, Named
    <2>2. cwd' = cwd /\ Sel' = i
      BY <1>5, <2>1, MovedTo
    <2>3. Live'
      BY <1>5, <2>1, <2>2, StillLive
    <2>4. i \in 0..Len(img.list[cwd.ref])
      BY <2>1
    <2>5. PL!Reject
      BY <1>2, <1>5, <2>1, <2>2, <2>3, <2>4, SeenRunning, ThenIdle DEF PL!Reject, PL!Answer, Turn
    <2> QED BY <2>1, <2>5 DEF PL!Next, Simulated, Turn
  <1> QED BY <1>1, <1>3, <1>4, <1>5 DEF FollowAll

\* An activation ends: the lookup goes on with what the one below has left, or is done.
LEMMA TurnReturn ==
    ASSUME IInv, NestingOK, Live, Turn, Return
    PROVE  Simulated /\ NestingOK'
  <1>1. /\ Resolving /\ Top.todo = <<>> /\ rv \in {"OK", "FAULT"} /\ Nested(frames) /\ frames \in Seq(Frame)
        /\ cwd.loaded /\ Len(frames) \in Nat \ {0} /\ frames # <<>>
        /\ links <= MaxLinks \/ Len(frames) > 1
    BY LiveFacts, TopOK DEF Return, NestingOK, Resolving
  <1>2. CASE rv = "FAULT"
    <2>1. ~Live' /\ ~Resolving'
      BY <1>1, <1>2 DEF Return, Live, Resolving
    <2> QED BY <2>1, StepCloses DEF Turn, NestingOK
  <1>3. CASE rv = "OK" /\ Len(frames) = 1
    <2>1. frames' = <<>> /\ UNCHANGED <<place, links, rv>> /\ ~Resolving' /\ links <= MaxLinks
      BY <1>1, <1>3 DEF Return, Resolving
    <2>2. Live' /\ cwd' = cwd /\ Sel' = Sel
      BY <1>1, <1>3, <2>1, StillLive, MovedNot
    <2>3. Remaining(frames) = <<>>
      <3>1. Below(frames) \in Seq(Frame) /\ Below(frames) = <<>>
        <4>1. Len(Below(frames)) = 0 /\ Below(frames) \in Seq(Frame)
          <5>1. Len(Below(frames)) \in Nat /\ Len(frames) = Len(Below(frames)) + 1
            BY <1>1, BelowIs
          <5> QED BY <1>1, <1>3, <5>1, BelowIs
        <4> QED BY <4>1
      <3>2. Remaining(frames) = Top.todo \o Remaining(Below(frames))
        BY <1>1, RemainingBelow DEF Top
      <3>3. Remaining(Below(frames)) = <<>>
        BY <3>1, RemainingType
      <3>4. <<>> \o <<>> = <<>>
        OBVIOUS
      <3> QED BY <1>1, <3>2, <3>3, <3>4
    <2>4. PL!Finish
      BY <1>1, <1>3, <2>1, <2>2, <2>3, SeenRunning, ThenIdle DEF PL!Finish, PL!Answer, PL!place, Turn
    <2> QED BY <2>1, <2>4 DEF PL!Next, Simulated, Turn, NestingOK
  <1>4. CASE rv = "OK" /\ Len(frames) > 1
    <2>1. /\ Standing /\ Type = current /\ cwd.ref \in Dir /\ Sel \in 0..Len(img.list[cwd.ref])
          /\ Top.is_dir <=> current = cwd.ref
          /\ current = cwd.ref \/ current \notin Dir \cup Link
      BY <1>1, <1>4, LiveFacts, StandingEntry DEF NestingOK
    <2>2. current \notin Link /\ (current \in Dir => current = cwd.ref)
      BY <2>1, PathAssumption
    <2>3. FollowAll(Below(frames), current, UNCHANGED place)
      <3>1. FollowAll(Below(frames), Type, UNCHANGED place)
        <4>1. Len(frames) # 1 /\ rv = "OK"
          <5>1. \A k \in Nat \ {0} : k > 1 => k # 1
            OBVIOUS
          <5> QED BY <1>1, <1>4, <5>1
        <4> QED BY <4>1, Zenon DEF Return
      <3> QED BY <2>1, <3>1, Zenon
    <2>4. CASE links > MaxLinks /\ UNCHANGED place /\ rv' = "TOO_MANY_SYMLINKS" /\ frames' = <<>>
      <3>1. ~Resolving'
        BY <2>4 DEF Resolving
      <3>2. Live' /\ cwd' = cwd /\ Sel' = Sel
        BY <1>1, <2>4, StillLive, MovedNot
      <3>3. PL!Reject
        BY <1>1, <2>1, <2>4, <3>1, <3>2, SeenRunning, ThenIdle DEF PL!Reject, PL!Answer, Turn
      <3> QED BY <3>1, <3>3 DEF PL!Next, Simulated, Turn, NestingOK
    <2>5. CASE links <= MaxLinks /\ Arrive(Below(frames), current, UNCHANGED place)
      <3> DEFINE below == Below(frames)
                 b == current \in Dir
      <3>1. UNCHANGED <<place, links>> /\ rv' = "OK" /\ frames' = [below EXCEPT ![Len(below)].is_dir = b]
        BY <2>2, <2>5 DEF Arrive
      <3>2. /\ below \in Seq(Frame) /\ below # <<>> /\ Nested(below) /\ below[1].follow = frames[1].follow
            /\ Remaining(below) = Remaining(frames)
        BY <1>1, <1>4, BelowRemains
      <3>3. b \in BOOLEAN /\ (b <=> Top.is_dir)
        BY <2>1, <2>2
      <3> HIDE DEF below, b
      <3>4. /\ frames' \in Seq(Frame) /\ frames' # <<>> /\ Nested(frames')
            /\ frames'[1].follow = frames[1].follow /\ frames'[Len(frames')].is_dir = b
            /\ Remaining(frames') = Remaining(frames)
        BY <3>1, <3>2, <3>3, ArrivedRemains
      <3>5. Resolving' /\ Top'.is_dir = b
        BY <3>4 DEF Resolving, Top
      <3>6. Live' /\ cwd' = cwd /\ Sel' = Sel /\ current' = current
        BY <1>1, <3>1, <3>5, StillLive, MovedNot
      <3>7. Top'.is_dir <=> Top.is_dir
        BY <3>3, <3>5, Zenon
      <3>8. NestingOK'
        BY <2>1, <2>5, <3>1, <3>4, <3>6, <3>7 DEF NestingOK
      <3>9. LookupBlocked' = LookupBlocked
        <4>1. LookupBlocked' = ~(Top'.is_dir)
          BY <3>4, <3>5, <3>6, ThenRunning
        <4>2. LookupBlocked = ~(Top.is_dir)
          BY <1>1, SeenRunning
        <4> QED BY <3>7, <4>1, <4>2, Zenon
      <3>10. UNCHANGED PL!vars
        BY <1>1, <3>1, <3>4, <3>5, <3>6, <3>9, SeenRunning, ThenRunning DEF PL!vars, Turn
      <3> QED BY <3>8, <3>10 DEF Simulated
    <2> QED BY <2>2, <2>3, <2>4, <2>5 DEF FollowAll
  <1>5. Len(frames) = 1 \/ Len(frames) > 1
    <2>1. \A k \in Nat \ {0} : k = 1 \/ k > 1
      OBVIOUS
    <2> QED BY <1>1, <2>1
  <1> QED BY <1>1, <1>2, <1>3, <1>4, <1>5

\* Nothing is left of a lookup whose directory is gone but to tell the caller.
LEMMA DeadTurn ==
    ASSUME IInv, NestingOK, ~Live, Resolve
    PROVE  Simulated /\ NestingOK'
  <1>1. Resolving /\ rv # "UNDEFINED" /\ UNCHANGED <<img, job, file>>
    BY DEF Resolve, NotADirectory, Dot, DotDot, NameFails, NameFound, Return, Segments
  <1>2. /\ Standing \/ (rv = "FAULT" /\ Stranded)
        /\ frames \in Seq(Frame) /\ Nested(frames) /\ job \in {"walk", "open"}
        /\ links <= MaxLinks \/ Len(frames) > 1
    BY <1>1, StandsOrStranded DEF NestingOK, IInv, FramesOK, JobOK
  <1>3. ~cwd.loaded /\ rv = "FAULT" /\ Top.is_dir /\ current # img.root
    BY <1>1, <1>2 DEF Live, Standing, Stranded
  <1>4. CASE Dot
    <2>1. ~cwd'.loaded /\ rv' = "FAULT" /\ frames' = Consumed /\ links' = links
      BY <1>3, <1>4 DEF Dot, place
    <2>2. Nested(Consumed) /\ Len(Consumed) = Len(frames)
      BY <1>2, <1>4, ConsumedRemains DEF Dot
    <2>3. ~Live' /\ NestingOK'
      BY <1>2, <2>1, <2>2 DEF Live, NestingOK
    <2> QED BY <1>1, <2>3, StepCloses
  <1>5. CASE ~Dot
    <2>1. frames' = <<>> /\ rv' \in {"FAULT", "UNDEFINED"}
      <3>1. CASE DotDot
        <4>1. rv' = "UNDEFINED"
          BY <1>3, <3>1 DEF DotDot, Up, UpFromEntry, UpFromDir, is_beginning, Rewind, Undefined
        <4> QED BY <3>1, <4>1 DEF DotDot, Continue
      <3>2. CASE NameFails
        BY <1>3, <3>2 DEF NameFails, LookupFails, Undefined
      <3>3. CASE Return
        BY <1>3, <3>3 DEF Return
      <3> QED BY <1>3, <1>5, <3>1, <3>2, <3>3 DEF Resolve, NotADirectory, NameFound
    <2>2. ~Live' /\ NestingOK'
      BY <2>1 DEF Live, Resolving, NestingOK
    <2> QED BY <1>1, <2>2, StepCloses
  <1> QED BY <1>4, <1>5

LEMMA SimulatesResolve ==
    ASSUME IInv, NestingOK, Resolve
    PROVE  Simulated /\ NestingOK'
  <1>1. CASE Live
    <2>1. Turn
      BY DEF Resolve, Turn
    <2> QED
      BY <1>1, <2>1, TurnNotADirectory, TurnDot, TurnDotDot, TurnNameFails, TurnNameFound, TurnReturn
      DEF Resolve
  <1> QED BY <1>1, DeadTurn

-----------------------------------------------------------------------------
(* What callers do between lookups *)

LEMMA SimulatesNew ==
    ASSUME IInv, New
    PROVE  Simulated /\ NestingOK'
  <1>1. ~Live /\ ~Resolving' /\ job' = "walk" /\ file' = NoFile /\ UNCHANGED img
    BY DEF New, Live, IInv, FramesOK, Resolving
  <1>2. NestingOK'
    BY <1>1 DEF NestingOK
  <1>3. CASE At(img.root)
    <2>1. cwd'.ref = img.root /\ Sel' = 0 /\ rv' = "OK" /\ Live'
      BY <1>1, <1>3, MovedAt DEF Live
    <2>2. PL!New
      BY <1>1, <2>1, SeenClosed, ThenIdle DEF PL!New, PL!At, PL!Answer
    <2> QED BY <1>1, <1>2, <2>2 DEF PL!Next, Simulated
  <1>4. CASE ToRefFails(img.root, current)
    <2>1. ~Live'
      BY <1>1, <1>4 DEF ToRefFails, Live
    <2> QED BY <1>1, <1>2, <2>1, StepCloses
  <1> QED BY <1>3, <1>4 DEF New, ToRef

\* A caller that can go on.
LEMMA IdleFacts ==
    ASSUME IInv, Idle
    PROVE  /\ Live /\ ~Resolving /\ Standing /\ Type = current /\ PL!Here = current
           /\ LookupDir = cwd.ref /\ LookupSel = Sel /\ LookupTodo = <<>>
           /\ LookupFollow = FALSE /\ LookupLinks = 0 /\ LookupBlocked = FALSE
           /\ LookupStatus = "idle" /\ LookupAnswer = rv
  <1>1. Standing /\ Live /\ ~Resolving
    BY DEF IInv, PlaceOK, Idle, Lost, Standing, Live, Resolving
  <1>2. Type = current
    BY <1>1, StandingEntry DEF IInv, PlaceOK
  <1>3. PL!Here = current
    <2>1. Sel = 0 => current = cwd.ref
      BY <1>1, LiveFacts DEF is_beginning
    <2> QED BY <1>1, <2>1, LiveFacts, SeenIdle DEF PL!Here, PL!Ref
  <1> QED BY <1>1, <1>2, <1>3, SeenIdle

\* What a caller that moves leaves alone.
Moves == Idle /\ UNCHANGED <<img, links, frames, job, file>>

LEMMA MovesLive ==
    ASSUME IInv, Moves
    PROVE  ~Resolving' /\ (Live' <=> cwd'.loaded /\ rv' \notin {"FAULT", "UNDEFINED"})
  BY DEF Moves, Idle, Live, Resolving

LEMMA CallerMoves ==
    ASSUME IInv, Moves, rv' = "OK", cwd'.loaded,
           \/ cwd'.ref = cwd.ref /\ Sel' \in {Sel, 0}
           \/ cwd'.ref = cwd.ref /\ Sel' \in 1..Len(img.list[cwd.ref])
           \/ current \in Dir /\ cwd'.ref = current /\ Sel' = 0
           \/ /\ Sel = 0 /\ cwd.ref # img.root /\ img.parent[cwd.ref] \in Dir
              /\ cwd'.ref = img.parent[cwd.ref] /\ Sel' = 0
           \/ cwd'.ref = img.root /\ Sel' = 0
    PROVE  Simulated
  <1>1. Idle /\ UNCHANGED <<img, file>> /\ ~Resolving' /\ Live'
    BY MovesLive DEF Moves
  <1>2. LookupDir' = cwd'.ref /\ LookupSel' = Sel' /\ PL!Answer("OK")
    BY <1>1, ThenIdle DEF PL!Answer
  <1>3. \A d \in Dir : d # NoDir
    BY PathAssumption DEF Inode
  <1>4. PL!Move
    BY <1>1, <1>2, <1>3, IdleFacts DEF PL!Move, PL!At, PL!Parent, PL!place
  <1> QED BY <1>1, <1>4 DEF PL!Next, Simulated

LEMMA CallerRefused ==
    ASSUME IInv, Moves, cwd'.loaded, cwd'.ref = cwd.ref,
           \/ rv' = "CANNOT_GO_DOWN" /\ Sel = 0 /\ Sel' = 0
           \/ rv' = "NOT_A_DIRECTORY" /\ current \notin Dir /\ Sel' = Sel
           \/ rv' = "CANNOT_GO_UP" /\ Sel = 0 /\ cwd.ref = img.root /\ Sel' = 0
           \/ rv' = "NO_SUCH_FILE" /\ Sel' = 0
    PROVE  Simulated
  <1>1. Idle /\ UNCHANGED <<img, file>> /\ ~Resolving' /\ Live'
    BY MovesLive DEF Moves
  <1>2. LookupDir' = cwd'.ref /\ LookupSel' = Sel' /\ PL!Answer(rv')
    BY <1>1, ThenIdle DEF PL!Answer
  <1>3. PL!Refuse
    BY <1>1, <1>2, IdleFacts DEF PL!Refuse, PL!At, PL!Parent, PL!place
  <1> QED BY <1>1, <1>3 DEF PL!Next, Simulated

LEMMA CallerLost ==
    ASSUME IInv, Moves, rv' \in {"FAULT", "UNDEFINED"}
    PROVE  Simulated
  <1>1. ~Live'
    BY MovesLive
  <1> QED BY <1>1, StepCloses DEF Moves

LEMMA SimulatesWalk ==
    ASSUME IInv, Walk
    PROVE  Simulated /\ NestingOK'
  <1>1. Moves
    BY DEF Walk, Moves
  <1>2. /\ Live /\ ~Resolving /\ Standing /\ Type = current /\ cwd.loaded /\ iter.dir = cwd.ref
        /\ img \in Images /\ cwd.ref \in Dir /\ (Sel = 0 <=> is_beginning) /\ UNCHANGED img
        /\ PlaceType
    BY <1>1, IdleFacts, LiveFacts DEF Moves, Standing
  <1>3. NestingOK'
    BY <1>1, MovesLive DEF NestingOK
  <1> SUFFICES Simulated
    BY <1>3
  <1>4. CASE WalkUp
    BY <1>1, <1>2, <1>4, MovedUp, MovedNot, CallerMoves, CallerRefused, CallerLost DEF WalkUp
  <1>5. CASE WalkDown
    <2>1. CASE is_beginning /\ rv' = "CANNOT_GO_DOWN" /\ UNCHANGED place
      BY <1>1, <1>2, <2>1, MovedNot, CallerRefused
    <2>2. CASE ~is_beginning /\ Type \notin Dir /\ rv' = "NOT_A_DIRECTORY" /\ UNCHANGED place
      BY <1>1, <1>2, <2>2, MovedNot, CallerRefused
    <2>3. CASE ~is_beginning /\ Type \in Dir /\ DownTo(Type)
      <3>1. DownTo(current) /\ current \in Dir
        BY <1>2, <2>3
      <3> QED BY <1>1, <3>1, MovedDown, CallerMoves, CallerLost
    <2> QED BY <1>5, <2>1, <2>2, <2>3 DEF WalkDown
  <1>6. CASE WalkNext
    <2>1. CASE rv' = "FAULT" /\ UNCHANGED place
      BY <1>1, <2>1, CallerLost
    <2>2. CASE rv' = "OK" /\ UNCHANGED place
      BY <1>1, <1>2, <2>2, MovedNot, CallerMoves
    <2>3. CASE iter.at < Len(img.list[iter.dir]) /\ Selected(iter.at + 1) /\ rv' = "OK"
      <3>1. iter.at + 1 \in 1..Len(img.list[cwd.ref])
        <4>1. iter.at \in Nat
          BY <1>2 DEF PlaceType
        <4>2. Len(img.list[cwd.ref]) \in Nat
          <5>1. img.list[cwd.ref] \in Seq([name : Name, ref : Inode])
            BY <1>2, ListType
          <5> QED BY <5>1
        <4>3. \A k, l \in Nat : k < l => k + 1 \in 1..l
          OBVIOUS
        <4> QED BY <1>2, <2>3, <4>1, <4>2, <4>3
      <3> QED BY <1>1, <1>2, <2>3, <3>1, MovedTo, CallerMoves
    <2> QED BY <1>6, <2>1, <2>2, <2>3 DEF WalkNext
  <1>7. CASE WalkLookup
    <2>1. PICK n \in Name : LookupFails(n) \/ \E i \in Named(cwd.ref, n) : Selected(i) /\ rv' = "OK"
      BY <1>7 DEF WalkLookup
    <2>2. CASE LookupFails(n)
      <3>1. CASE Rewound(Len(img.list[cwd.ref])) /\ rv' = "NO_SUCH_FILE"
        BY <1>1, <1>2, <3>1, MovedBack, CallerRefused
      <3>2. CASE rv' = "FAULT"
        BY <1>1, <3>2, CallerLost
      <3> QED BY <1>2, <2>2, <3>1, <3>2 DEF LookupFails, RewindFails
    <2>3. ASSUME NEW i \in Named(cwd.ref, n), Selected(i), rv' = "OK" PROVE Simulated
      <3>1. i \in 1..Len(img.list[cwd.ref])
        BY DEF Named
      <3> QED BY <1>1, <1>2, <2>3, <3>1, MovedTo, CallerMoves
    <2> QED BY <2>1, <2>2, <2>3
  <1>8. CASE Rewind
    <2>1. CASE Rewound(0) /\ rv' = "OK"
      BY <1>1, <1>2, <2>1, MovedBack, CallerMoves
    <2>2. CASE RewindFails
      BY <1>1, <2>2, CallerLost DEF RewindFails
    <2> QED BY <1>2, <1>8, <2>1, <2>2 DEF Rewind
  <1>9. CASE ToRef(img.root)
    <2>1. CASE At(img.root)
      BY <1>1, <2>1, MovedAt, CallerMoves
    <2>2. CASE ToRefFails(img.root, current)
      BY <1>1, <2>2, CallerLost DEF ToRefFails
    <2> QED BY <1>9, <2>1, <2>2 DEF ToRef
  <1> QED BY <1>3, <1>4, <1>5, <1>6, <1>7, <1>8, <1>9 DEF Walk

-----------------------------------------------------------------------------
(* Lookups begin and end *)

LEMMA TargetsKnown ==
    ASSUME NEW l \in Link
    PROVE  img.target[l] \in Paths \cup {img.target[k] : k \in Link}
  OBVIOUS

\* A lookup has begun: the outermost activation runs.
LEMMA Begun ==
    ASSUME NEW p \in Path, NEW follow \in BOOLEAN, frames' = Append(<<>>, Activation(p, follow)),
           rv' = "OK", links' = 0, cwd'.loaded, job' \in {"walk", "open"}
    PROVE  /\ NestingOK' /\ Live' /\ LookupDir' = cwd'.ref /\ LookupSel' = Sel' /\ LookupTodo' = p.segs
           /\ LookupFollow' \in BOOLEAN /\ LookupLinks' = 0 /\ LookupBlocked' = FALSE
           /\ LookupStatus' = "running" /\ LookupAnswer' = "OK"
  <1>1. <<>> \in Seq(Frame) /\ Nested(<<>>) /\ Len(<<>>) = 0
    BY DEF Nested
  <1>2. /\ frames' \in Seq(Frame) /\ frames' # <<>> /\ Len(frames') = 1 /\ Nested(frames')
        /\ frames'[1].follow = follow /\ frames'[Len(frames')].is_dir
        /\ Remaining(frames') = p.segs \o Remaining(<<>>)
    <2> DEFINE none == <<>>
               gs == Append(none, Activation(p, follow))
    <2>1. none \in Seq(Frame) /\ Nested(none) /\ Len(none) = 0 /\ none = <<>> /\ frames' = gs
      BY <1>1
    <2> HIDE DEF none
    <2>2. /\ gs \in Seq(Frame) /\ gs # <<>> /\ Len(gs) = Len(none) + 1 /\ Nested(gs)
          /\ gs[1].follow = IF none = <<>> THEN follow ELSE none[1].follow
          /\ gs[Len(gs)].is_dir /\ Remaining(gs) = p.segs \o Remaining(none)
      BY <2>1, ActivationRemains, Zenon
    <2> QED BY <2>1, <2>2
  <1>3. Remaining(frames') = p.segs
    <2>1. Remaining(<<>>) = <<>> /\ p.segs \in Seq(Segment)
      BY <1>1, RemainingType DEF Path
    <2>2. \A s \in Seq(Segment) : s \o <<>> = s
      OBVIOUS
    <2> QED BY <1>2, <2>1, <2>2
  <1>4. Resolving' /\ Top'.is_dir /\ Live'
    BY <1>2 DEF Resolving, Top, Live
  <1>5. NestingOK'
    BY <1>2, <1>4, PathAssumption DEF NestingOK
  <1> QED BY <1>2, <1>3, <1>4, <1>5, ThenRunning

LEMMA SimulatesWalkResolve ==
    ASSUME IInv, WalkResolve
    PROVE  Simulated /\ NestingOK'
  <1>1. PICK p \in Paths, follow \in BOOLEAN :
            /\ Idle /\ links' = 0 /\ Enter(<<>>, p, follow, UNCHANGED place) /\ UNCHANGED <<img, job, file>>
    BY DEF WalkResolve
  <1>2. p \in Path /\ job = "walk" /\ cwd.loaded
    BY <1>1, PathAssumption, IdleFacts DEF Idle, Standing
  <1>3. CASE rv' # "OK"
    <2>1. ~Resolving' /\ rv' = "FAULT"
      BY <1>1, <1>3 DEF Enter, Continue, Resolving, ToRef, At, ToRefFails
    <2>2. ~Live' /\ NestingOK'
      BY <2>1 DEF Live, NestingOK
    <2> QED BY <1>1, <2>2, StepCloses
  <1>4. CASE rv' = "OK"
    <2>1. frames' = Append(<<>>, Activation(p, follow))
      BY <1>1, <1>4 DEF Enter, Continue
    <2>2. cwd'.loaded /\ (IF p.abs THEN cwd'.ref = img.root /\ Sel' = 0 ELSE cwd'.ref = cwd.ref /\ Sel' = Sel)
      <3>1. CASE p.abs
        <4>1. At(img.root)
          BY <1>1, <1>4, <3>1 DEF Enter, ToRef, ToRefFails
        <4> QED BY <3>1, <4>1, MovedAt
      <3>2. CASE ~p.abs
        <4>1. UNCHANGED place
          BY <1>1, <3>2 DEF Enter
        <4> QED BY <1>2, <3>2, <4>1, MovedNot
      <3> QED BY <3>1, <3>2
    <2>3. /\ NestingOK' /\ Live' /\ LookupDir' = cwd'.ref /\ LookupSel' = Sel' /\ LookupTodo' = p.segs
          /\ LookupFollow' \in BOOLEAN /\ LookupLinks' = 0 /\ LookupBlocked' = FALSE
          /\ LookupStatus' = "running" /\ LookupAnswer' = "OK"
      BY <1>1, <1>2, <1>4, <2>1, <2>2, Begun
    <2>4. PL!Begin(p)
      BY <1>1, <2>2, <2>3, IdleFacts DEF PL!Begin, PL!At, PL!place
    <2> QED BY <1>1, <2>3, <2>4 DEF PL!Next, Simulated
  <1> QED BY <1>3, <1>4

\* A resolver of its own is opened for a lookup that starts at ref.
LEMMA OpensAt ==
    ASSUME IInv, job = "none", NEW ref, NEW p \in Path, NEW follow \in BOOLEAN, OpenAt(ref, p, follow),
           file' \in {file, NoFile}
    PROVE  /\ NestingOK' /\ UNCHANGED img
           /\ \/ Simulated
              \/ /\ LookupDir' = (IF p.abs THEN img.root ELSE ref) /\ LookupSel' = 0 /\ LookupTodo' = p.segs
                 /\ LookupFollow' \in BOOLEAN /\ LookupLinks' = 0 /\ LookupBlocked' = FALSE
                 /\ LookupStatus' = "running" /\ LookupAnswer' = "OK"
  <1>1. frames = <<>> /\ UNCHANGED img /\ job' = "open" /\ links' = 0
    BY DEF IInv, FramesOK, Resolving, OpenAt
  <1>2. \/ frames' = <<>> /\ rv' = "FAULT"
        \/ /\ frames' = Append(<<>>, Activation(p, follow)) /\ rv' = "OK"
           /\ IF p.abs THEN At(img.root) ELSE At(ref)
    <2>1. CASE ToRefFails(ref, current) /\ UNCHANGED frames
      BY <1>1, <2>1 DEF ToRefFails
    <2>2. CASE p.abs /\ Enter(<<>>, p, follow, TRUE)
      <3>1. At(img.root) \/ ToRefFails(img.root, current)
        BY <2>2 DEF Enter, ToRef
      <3>2. CASE At(img.root)
        BY <2>2, <3>2 DEF Enter, Continue, At
      <3>3. CASE ToRefFails(img.root, current)
        BY <2>2, <3>3 DEF Enter, Continue, ToRefFails
      <3> QED BY <3>1, <3>2, <3>3
    <2>3. CASE ~p.abs /\ At(ref) /\ frames' = <<Activation(p, follow)>>
      <3>1. \A a : <<a>> = Append(<<>>, a)
        OBVIOUS
      <3>2. <<Activation(p, follow)>> = Append(<<>>, Activation(p, follow))
        BY <3>1
      <3> QED BY <2>3, <3>2 DEF At
    <2> QED BY <2>1, <2>2, <2>3 DEF OpenAt
  <1>3. CASE frames' = <<>> /\ rv' = "FAULT"
    <2>1. ~Live' /\ NestingOK'
      BY <1>3 DEF Live, Resolving, NestingOK
    <2> QED BY <1>1, <2>1, StepCloses
  <1>4. CASE /\ frames' = Append(<<>>, Activation(p, follow)) /\ rv' = "OK"
             /\ IF p.abs THEN At(img.root) ELSE At(ref)
    <2>1. cwd'.loaded /\ cwd'.ref = (IF p.abs THEN img.root ELSE ref) /\ Sel' = 0
      BY <1>4, MovedAt
    <2> QED BY <1>1, <1>4, <2>1, Begun
  <1> QED BY <1>2, <1>3, <1>4

LEMMA SimulatesOpen ==
    ASSUME IInv, Open
    PROVE  Simulated /\ NestingOK'
  <1>1. PICK p \in Paths, follow \in BOOLEAN :
            job = "none" /\ OpenAt(img.root, p, follow) /\ file' = NoFile
    BY DEF Open
  <1>2. p \in Path /\ LookupStatus = "closed"
    BY <1>1, PathAssumption, SeenClosed DEF Live
  <1>3. NestingOK' /\ UNCHANGED img
    BY <1>1, <1>2, OpensAt
  <1> SUFFICES Simulated
    BY <1>3
  <1>4. CASE /\ LookupDir' = img.root /\ LookupSel' = 0 /\ LookupTodo' = p.segs
             /\ LookupFollow' \in BOOLEAN /\ LookupLinks' = 0 /\ LookupBlocked' = FALSE
             /\ LookupStatus' = "running" /\ LookupAnswer' = "OK"
    <2>1. PL!Begin(p)
      BY <1>1, <1>2, <1>4 DEF PL!Begin, PL!At
    <2> QED BY <1>3, <2>1 DEF PL!Next, Simulated
  <1> QED BY <1>1, <1>2, <1>3, <1>4, OpensAt

LEMMA SimulatesSymlinkResolve ==
    ASSUME IInv, SymlinkResolve
    PROVE  Simulated /\ NestingOK'
  <1>1. PICK follow \in BOOLEAN :
            /\ job = "none" /\ file # NoFile /\ file.ref \in Link
            /\ OpenAt(file.parent, img.target[file.ref], follow) /\ UNCHANGED file
    BY DEF SymlinkResolve
  <1> DEFINE p == img.target[file.ref]
  <1>2. p \in Path /\ LookupStatus = "closed" /\ p \in Paths \cup {img.target[l] : l \in Link}
    BY <1>1, TargetIsPath, TargetsKnown, SeenClosed DEF Live, IInv, PlaceOK, PlaceType
  <1>3. NestingOK' /\ UNCHANGED img
    BY <1>1, <1>2, OpensAt
  <1> SUFFICES Simulated
    BY <1>3
  <1>4. CASE /\ LookupDir' = (IF p.abs THEN img.root ELSE file.parent)
             /\ LookupSel' = 0 /\ LookupTodo' = p.segs
             /\ LookupFollow' \in BOOLEAN /\ LookupLinks' = 0 /\ LookupBlocked' = FALSE
             /\ LookupStatus' = "running" /\ LookupAnswer' = "OK"
    <2>1. PL!Begin(p)
      BY <1>1, <1>2, <1>4 DEF PL!Begin, PL!At
    <2> QED BY <1>2, <1>3, <2>1 DEF PL!Next, Simulated
  <1> QED BY <1>1, <1>2, <1>3, <1>4, OpensAt

LEMMA SimulatesFree ==
    ASSUME IInv, Free
    PROVE  Simulated /\ NestingOK'
  <1>1. ~Live' /\ ~Resolving' /\ UNCHANGED <<img, file>>
    BY DEF Free, Live, Resolving
  <1> QED BY <1>1, StepCloses DEF NestingOK

\* The file that is opened knows the directory the lookup found it in.
LEMMA SimulatesOpenFile ==
    ASSUME IInv, OpenFile
    PROVE  Simulated /\ NestingOK'
  <1>1. ~Live' /\ ~Resolving' /\ UNCHANGED img /\ job = "open" /\ ~Resolving /\ rv = "OK"
    BY DEF OpenFile, Live, Resolving
  <1>2. NestingOK'
    BY <1>1 DEF NestingOK
  <1>3. CASE file' = NoFile
    BY <1>1, <1>2, <1>3, StepCloses
  <1>4. CASE file' # NoFile
    <2>1. Up /\ \/ rv' = "OK" /\ file' = [ref |-> current, parent |-> current']
                \/ rv' = "CANNOT_GO_UP" /\ file' = [ref |-> current, parent |-> NoDir]
      BY <1>4 DEF OpenFile
    <2>2. Standing /\ Live
      BY <1>1 DEF IInv, PlaceOK, Lost, Standing, Live
    <2>3. /\ LookupDir = cwd.ref /\ LookupSel = Sel /\ LookupStatus = "idle" /\ LookupAnswer = "OK"
      BY <1>1, <2>2, SeenIdle
    <2>4. PL!Here = current
      <3>1. Sel = 0 => current = cwd.ref
        BY <2>2, LiveFacts DEF is_beginning
      <3> QED BY <2>2, <2>3, <3>1, LiveFacts DEF PL!Here, PL!Ref
    <2>5. file' = [ref |-> current, parent |-> IF Sel # 0 THEN cwd.ref ELSE PL!Parent(cwd.ref)]
      BY <1>1, <2>1, <2>2, MovedUp DEF PL!Parent
    <2>6. PL!Close([ref |-> PL!Here, parent |-> IF LookupSel # 0 THEN LookupDir ELSE PL!Parent(LookupDir)])
      BY <1>1, <2>3, <2>4, <2>5, ThenClosed DEF PL!Close, PL!At
    <2>7. PL!Opened
      BY <2>3, <2>6 DEF PL!Opened
    <2> QED BY <1>1, <1>2, <2>7 DEF PL!Next, Simulated
  <1> QED BY <1>3, <1>4

LEMMA InitSimulated ==
    ASSUME Init
    PROVE  PL!Init /\ NestingOK
  <1>1. ~Live /\ ~Resolving /\ file = NoFile
    BY DEF Init, Live, Resolving
  <1> QED BY <1>1, SeenClosed DEF PL!Init, NestingOK

LEMMA NextSimulated ==
    ASSUME IInv, NestingOK, [Next]_vars
    PROVE  Simulated /\ NestingOK'
  <1>1. CASE UNCHANGED vars
    <2>1. UNCHANGED PL!vars
      BY <1>1 DEF vars, place, PL!vars, LookupDir, LookupSel, LookupTodo, LookupFollow, LookupLinks,
                  LookupBlocked, LookupStatus, LookupAnswer, Live, Resolving, Top, is_beginning
    <2>2. NestingOK'
      BY <1>1 DEF vars, place, NestingOK, Resolving, Top
    <2> QED BY <2>1, <2>2 DEF Simulated
  <1> QED
    BY <1>1, SimulatesResolve, SimulatesNew, SimulatesWalk, SimulatesWalkResolve, SimulatesFree, SimulatesOpen,
       SimulatesSymlinkResolve, SimulatesOpenFile
    DEF Next

-----------------------------------------------------------------------------
(* The theorems *)

\* IInv holds in every reachable state.
THEOREM Invariance == Spec => []IInv
  <1>1. IInv /\ [Next]_vars => IInv'
    BY NextIInv
  <1> QED BY InitIInv, <1>1, PTL DEF Spec

\* The fields of the resolver, its activations and the file keep their types, and no more than
\* max_symlink_depth and one symlinks are followed (path_resolver.c).
THEOREM TypeCorrect == Spec => []TypeOK
  <1>1. IInv => TypeOK
    BY DEF IInv, PlaceOK, PlaceType, KnownOK, Reachable, FramesOK, Frame, FileOK, JobOK, TypeOK
  <1> QED BY <1>1, Invariance, PTL

\* Whatever a call of the walker returned, short of an archive that cannot be read, the walker can
\* be used (tree/walker.c), for every archive, however its symlinks point to each other.
THEOREM WalkerStaysUsable == Spec => []WalkerUsable
  <1>1. IInv => WalkerUsable
    <2> SUFFICES ASSUME IInv, Idle PROVE /\ cwd.loaded /\ iter.dir = cwd.ref /\ cwd.ref \in known
                                         /\ ~is_beginning => /\ iter.at \in 1..Len(img.list[cwd.ref])
                                                             /\ Entry.ref = current
                                         /\ \A d \in known \ {img.root} : img.parent[d] \in known
      BY DEF WalkerUsable
    <2>1. Standing
      BY DEF IInv, PlaceOK, Idle, Lost
    <2>2. \A d \in known \ {img.root} : img.parent[d] \in known
      BY DEF IInv, PlaceOK, KnownOK, Reachable
    <2> QED BY <2>1, <2>2 DEF Standing, is_beginning
  <1> QED BY <1>1, Invariance, PTL

\* What sqsh_open and sqsh_file_symlink_resolve opened lies in the directory recorded as its
\* parent (apply_parent of file.c), for every archive and path.
THEOREM FilesKnowTheirParent == Spec => []OpenedInParent
  <1>1. IInv => OpenedInParent
    BY DEF IInv, PlaceOK, KnownOK, Reachable, FileOK, Listed, OpenedInParent
  <1> QED BY <1>1, Invariance, PTL

\* path_resolve, the tree walker and file.c look paths up as PathLookup says: every turn of the
\* recursion is a step of the one work list of segments, or shows nothing, for every archive, every
\* path and every max_symlink_depth (path_resolver.c, walker.c, file.c).
THEOREM ResolverLooksUpPaths == Spec => LooksUpPaths
  <1>1. Init => PL!Init /\ NestingOK
    BY InitSimulated
  <1>2. IInv /\ NestingOK /\ [Next]_vars => [PL!Next]_(PL!vars) /\ NestingOK'
    BY NextSimulated DEF Simulated
  <1> QED BY <1>1, <1>2, Invariance, PTL DEF Spec, LooksUpPaths, PL!Spec
=============================================================================
