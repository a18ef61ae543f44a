----------------------------- MODULE Tools_proofs -----------------------------
(***************************************************************************)
(* What is proved of the programs, and of the functions between them and   *)
(* the library.  sqsh-unpack: files never exceed the descriptors there     *)
(* are, however opening them fails; and an exit status of 0 means that     *)
(* everything is there.  sqsh-cat, sqsh-ls, sqsh-xattr, sqsh-stat, sqshfs2 *)
(* and the easy API: every function gives back what it acquires, wherever  *)
(* it fails, and tells of what failed.                                     *)
(***************************************************************************)
EXTENDS Unpack, FrontEnds, FiniteSetTheorems, TLAPS

-----------------------------------------------------------------------------
(***************************************************************************)
(* Unpack.  A permit of the semaphore is free or held by exactly one file. *)
(* What this rests on is that a job is given out once: main never gets     *)
(* back to a file in the first pass, also when a listing fails and the     *)
(* traversal jumps ahead, and gives out none in the second.                *)
(***************************************************************************)
Holders == {i \in DOMAIN job : job[i] \in {"queued", "closed", "failed"}}

\* The files that hold a permit; 0 stands for the one main is opening.
Holding == Holders \cup (IF main = "temp" THEN {0} ELSE {})

\* Every permit is free or held.
PermitsExact == sem \in Nat /\ sem + Cardinality(Holding) = Limit

\* Where main may be in which pass, and how far.
PlaceInWalk ==
    /\ walk \in Walks /\ pos \in 0..Len(walk)
    /\ main \in {"start", "enter"} => pos = 0
    /\ main \in {"walk", "permit", "temp"} /\ ~Single => pos >= 1
    /\ main \in {"permit", "temp"} => pass = 1 /\ pos < Len(walk)

\* Jobs are given out in the order of the walk.
JobsBehind ==
    /\ DOMAIN job = 1..Len(walk)
    /\ pass = 1 => \A i \in 1..Len(walk) : i > pos => job[i] = "none"

IInv == PlaceInWalk /\ JobsBehind /\ PermitsExact

-----------------------------------------------------------------------------
(* The lemmas *)

\* What holds permits is finite, and main's own file is none of the jobs.
LEMMA HoldersFinite ==
    ASSUME DOMAIN job = 1..Len(walk), walk \in Walks
    PROVE  /\ IsFiniteSet(Holders) /\ IsFiniteSet(Holding)
           /\ Holders \subseteq 1..Len(walk) /\ 0 \notin Holders
           /\ Cardinality(Holders) \in Nat /\ Cardinality(Holding) \in Nat
  <1>1. Len(walk) \in Nat
    BY UnpackAssumption
  <1>2. IsFiniteSet(1..Len(walk))
    BY <1>1, FS_Interval
  <1>3. Holders \subseteq 1..Len(walk) /\ 0 \notin Holders
    BY <1>1 DEF Holders
  <1>4. IsFiniteSet(Holders)
    BY <1>2, <1>3, FS_Subset
  <1>5. IsFiniteSet(Holding)
    <2>1. Holding = Holders \cup {0} \/ Holding = Holders
      BY DEF Holding
    <2> QED BY <2>1, <1>4, FS_AddElement
  <1> QED BY <1>3, <1>4, <1>5, FS_CardinalityType

\* The traversal jumps ahead only: the end of a listing is behind the visits in it.
LEMMA JumpsAhead ==
    ASSUME PlaceInWalk, CutShort
    PROVE  pos' \in pos..Len(walk)
  <1>1. walk \in Walks /\ walk \in Seq(Visit) /\ ~Single /\ main = "walk" /\ pos < Len(walk)
    BY UnpackAssumption DEF PlaceInWalk, CutShort, More
  <1>2. pos \in 1..Len(walk) - 1 /\ Len(walk) \in Nat
    BY <1>1 DEF PlaceInWalk
  <1>3. Len(walk) # 1
    BY <1>1 DEF Single
  <1>4. PICK j \in pos + 1..Len(walk) : Ends(walk, j, Listed)
    BY <1>1, <1>2, <1>3, UnpackAssumption DEF Listed
  <1>5. EndOf(Listed) \in 1..Len(walk) /\ Ends(walk, EndOf(Listed), Listed)
    <2>1. j \in 1..Len(walk)
      BY <1>2
    <2> QED BY <1>4, <2>1 DEF EndOf
  <1>6. \A a, b \in 1..Len(walk) :
            Ends(walk, a, walk[b].path) /\ Ends(walk, b, walk[a].path) => a = b
    BY <1>1, UnpackAssumption
  <1>7. EndOf(Listed) = j
    <2>1. j \in 1..Len(walk)
      BY <1>2
    <2>2. Ends(walk, j, walk[EndOf(Listed)].path) /\ Ends(walk, EndOf(Listed), walk[j].path)
      BY <1>4, <1>5 DEF Ends
    <2> QED BY <1>5, <1>6, <2>1, <2>2
  <1> QED BY <1>2, <1>4, <1>7 DEF CutShort

\* A step that takes no permit and gives none back.
LEMMA PermitsKept ==
    ASSUME IInv, Holding' = Holding, sem' = sem
    PROVE  PermitsExact'
  BY DEF IInv, PermitsExact

\* A step that gives one back.
LEMMA PermitGiven ==
    ASSUME IInv, NEW x \in Holding, Holding' = Holding \ {x}, sem' = sem + 1
    PROVE  PermitsExact'
  <1>1. IsFiniteSet(Holding) /\ Cardinality(Holding) \in Nat
    BY HoldersFinite DEF IInv, PlaceInWalk, JobsBehind
  <1>2. Cardinality(Holding') = Cardinality(Holding) - 1
    BY <1>1, FS_RemoveElement
  <1> QED BY <1>1, <1>2, UnpackAssumption DEF IInv, PermitsExact

-----------------------------------------------------------------------------
(* The steps *)

\* A step of main that starts no job and is not about a permit.
LEMMA StepWalks ==
    ASSUME IInv, main # "temp", main' # "temp", UNCHANGED <<walk, job, sem>>,
           PlaceInWalk', pass' = 1 => pass = 1 /\ pos <= pos'
    PROVE  IInv'
  <1>1. JobsBehind'
    BY DEF IInv, JobsBehind, PlaceInWalk
  <1>2. Holding' = Holding
    BY DEF Holding, Holders
  <1> QED BY <1>1, <1>2, PermitsKept DEF IInv

LEMMA StepOpenTemp ==
    ASSUME IInv, OpenTemp
    PROVE  IInv'
  <1> DEFINE n == pos + 1
  <1>1. /\ main = "temp" /\ main' = "walk" /\ pos' = n /\ pass = 1 /\ n \in 1..Len(walk)
        /\ UNCHANGED <<walk, pass, sem>> /\ job' = [job EXCEPT ![n] = "queued"]
        /\ job[n] = "none" /\ DOMAIN job = 1..Len(walk) /\ Len(walk) \in Nat
    BY UnpackAssumption DEF IInv, OpenTemp, Visited, inputs, PlaceInWalk, JobsBehind
  <1>2. PlaceInWalk' /\ JobsBehind'
    BY <1>1 DEF IInv, PlaceInWalk, JobsBehind, Single
  <1>3. PermitsExact'
    <2>1. 0 \notin Holders /\ IsFiniteSet(Holders) /\ Cardinality(Holders) \in Nat
      BY HoldersFinite, <1>1 DEF IInv, PlaceInWalk
    <2>2. Holding = Holders \cup {0}
      BY <1>1 DEF Holding
    <2>3. Holding' = Holders \cup {n} /\ n \notin Holders
      BY <1>1 DEF Holding, Holders
    <2>4. Cardinality(Holding') = Cardinality(Holding)
      BY <2>1, <2>2, <2>3, FS_AddElement
    <2> QED BY <1>1, <2>4 DEF IInv, PermitsExact
  <1> QED BY <1>2, <1>3 DEF IInv

LEMMA StepPermit ==
    ASSUME IInv, Permit
    PROVE  IInv'
  <1>1. main = "permit" /\ main' = "temp" /\ sem > 0 /\ sem' = sem - 1 /\ UNCHANGED <<walk, pass, pos, job>>
    BY DEF Permit, inputs
  <1>2. PlaceInWalk' /\ JobsBehind'
    BY <1>1 DEF IInv, PlaceInWalk, JobsBehind, Single
  <1>3. PermitsExact'
    <2>1. 0 \notin Holders /\ IsFiniteSet(Holders) /\ Cardinality(Holders) \in Nat
      BY HoldersFinite DEF IInv, PlaceInWalk, JobsBehind
    <2>2. Holding = Holders /\ Holding' = Holders \cup {0}
      BY <1>1 DEF Holding, Holders
    <2>3. Cardinality(Holding') = Cardinality(Holding) + 1
      BY <2>1, <2>2, FS_AddElement
    <2> QED BY <1>1, <2>1, <2>2, <2>3, UnpackAssumption DEF IInv, PermitsExact
  <1> QED BY <1>2, <1>3 DEF IInv

LEMMA StepOpenTempFails ==
    ASSUME IInv, OpenTempFails
    PROVE  IInv'
  <1>1. /\ main = "temp" /\ main' \in {"out", "walk"} /\ sem' = sem + 1
        /\ UNCHANGED <<walk, pass, job>>
        /\ \/ pos' = pos /\ main' = "out"
           \/ pos' = pos + 1 /\ main' = "walk"
    BY DEF OpenTempFails, Refused, Abort, Visited, inputs
  <1>2. PlaceInWalk' /\ JobsBehind'
    BY <1>1 DEF IInv, PlaceInWalk, JobsBehind, Single
  <1>3. PermitsExact'
    <2>1. 0 \notin Holders
      BY HoldersFinite DEF IInv, PlaceInWalk, JobsBehind
    <2>2. 0 \in Holding /\ Holding' = Holding \ {0}
      BY <1>1, <2>1 DEF Holding, Holders
    <2> QED BY <1>1, <2>2, PermitGiven
  <1> QED BY <1>2, <1>3 DEF IInv

\* A job takes no permit, and gives back its own once.
LEMMA StepPool ==
    ASSUME IInv, NEW i \in DOMAIN job, Pool(i)
    PROVE  IInv'
  <1>1. UNCHANGED <<walk, main, pass, pos>>
    BY DEF Pool, Finish, Post, Count, Running, inputs
  <1>2. PlaceInWalk'
    BY <1>1 DEF IInv, PlaceInWalk, Single
  <1>3. i \in 1..Len(walk) /\ job[i] # "none"
    BY DEF IInv, JobsBehind, Pool, Finish, Post, Count
  <1>4. JobsBehind'
    <2>1. DOMAIN job' = DOMAIN job /\ \A j \in DOMAIN job : j # i => job'[j] = job[j]
      BY DEF Pool, Finish, Post, Count
    <2> QED BY <1>1, <1>3, <2>1 DEF IInv, JobsBehind
  <1>5. CASE Finish(i)
    <2>1. Holding' = Holding
      BY <1>1, <1>5 DEF Finish, Holding, Holders
    <2> QED BY <1>2, <1>4, <1>5, <2>1, PermitsKept DEF Finish, IInv
  <1>6. CASE Post(i)
    <2>1. i \in Holding /\ i # 0
      BY <1>3, <1>6 DEF Post, Holding, Holders
    <2>2. Holding' = Holding \ {i}
      BY <1>1, <1>6, <2>1 DEF Post, Holding, Holders
    <2> QED BY <1>2, <1>4, <1>6, <2>1, <2>2, PermitGiven DEF Post, IInv
  <1>7. CASE Count(i)
    <2>1. Holding' = Holding
      BY <1>1, <1>7 DEF Count, Holding, Holders
    <2> QED BY <1>2, <1>4, <1>7, <2>1, PermitsKept DEF Count, files, IInv
  <1> QED BY <1>5, <1>6, <1>7 DEF Pool

\* What ends a pass or begins the next.
LEMMA StepPasses ==
    ASSUME IInv, \/ SetUp \/ EnterTarget \/ ExtractSingle \/ Fails \/ PassOver \/ SecondPass \/ Leave
    PROVE  IInv'
  <1>0. walk \in Walks /\ Len(walk) \in Nat /\ Len(walk) >= 1 /\ pos \in 0..Len(walk)
    <2>1. walk \in Walks /\ pos \in 0..Len(walk)
      BY DEF IInv, PlaceInWalk
    <2> QED BY <2>1, UnpackAssumption
  <1>1. CASE SetUp
    BY <1>0, <1>1, StepWalks DEF SetUp, inputs, IInv, PlaceInWalk
  <1>2. CASE EnterTarget
    BY <1>0, <1>2, StepWalks DEF EnterTarget, inputs, IInv, PlaceInWalk, Single
  <1>3. CASE ExtractSingle
    BY <1>0, <1>3, StepWalks DEF ExtractSingle, inputs, IInv, PlaceInWalk, Single
  <1>4. CASE Fails
    BY <1>0, <1>4, StepWalks DEF Fails, Abort, inputs, IInv, PlaceInWalk, Single
  <1>5. CASE PassOver
    BY <1>0, <1>5, StepWalks DEF PassOver, inputs, IInv, PlaceInWalk
  <1>6. CASE SecondPass
    BY <1>0, <1>6, StepWalks DEF SecondPass, inputs, IInv, PlaceInWalk
  <1>7. CASE Leave
    BY <1>0, <1>7, StepWalks DEF Leave, inputs, IInv, PlaceInWalk
  <1> QED BY <1>1, <1>2, <1>3, <1>4, <1>5, <1>6, <1>7

\* A visit that starts no job.
LEMMA StepVisits ==
    ASSUME IInv, \/ CutShort \/ ExtractDir \/ Skip \/ UpdateMetadataDir \/ ExtractOther
                 \/ ExtractFile \/ PermitFails
    PROVE  IInv'
  <1>0. walk \in Walks /\ Len(walk) \in Nat /\ pos \in 0..Len(walk)
    <2>1. walk \in Walks /\ pos \in 0..Len(walk)
      BY DEF IInv, PlaceInWalk
    <2> QED BY <2>1, UnpackAssumption
  <1>1. CASE CutShort
    <2>1. pos' \in pos..Len(walk)
      BY <1>1, JumpsAhead DEF IInv
    <2> QED BY <1>0, <1>1, <2>1, StepWalks DEF CutShort, More, inputs, IInv, PlaceInWalk, Single
  <1>2. ASSUME main \in {"walk", "permit"}, pos < Len(walk), Visited, UNCHANGED <<job, sem>>
        PROVE  IInv'
    BY <1>0, <1>2, StepWalks DEF Visited, inputs, IInv, PlaceInWalk, Single
  <1>3. ASSUME main \in {"walk", "permit"}, Abort, UNCHANGED sem
        PROVE  IInv'
    BY <1>0, <1>3, StepWalks DEF Abort, inputs, IInv, PlaceInWalk, Single
  <1>4. CASE ExtractDir
    BY <1>2, <1>4 DEF ExtractDir, More
  <1>5. CASE Skip
    BY <1>2, <1>5 DEF Skip, More
  <1>6. CASE UpdateMetadataDir
    BY <1>2, <1>3, <1>6 DEF UpdateMetadataDir, Refused, More
  <1>7. CASE ExtractOther
    BY <1>2, <1>3, <1>7 DEF ExtractOther, Refused, More
  <1>8. CASE ExtractFile
    BY <1>0, <1>8, StepWalks DEF ExtractFile, More, inputs, IInv, PlaceInWalk, Single
  <1>9. CASE PermitFails
    <2>1. pos < Len(walk)
      BY <1>9 DEF PermitFails, IInv, PlaceInWalk
    <2> QED BY <1>2, <1>3, <1>9, <2>1 DEF PermitFails, Refused
  <1> QED BY <1>1, <1>4, <1>5, <1>6, <1>7, <1>8, <1>9

LEMMA InitIInv == Init => IInv
  <1> SUFFICES ASSUME Init PROVE IInv
    OBVIOUS
  <1>1. walk \in Walks /\ Len(walk) \in Nat /\ Limit \in Nat
    BY UnpackAssumption DEF Init
  <1>2. PlaceInWalk /\ JobsBehind
    BY <1>1 DEF Init, PlaceInWalk, JobsBehind
  <1>3. Holding = {}
    BY DEF Init, Holding, Holders
  <1>4. PermitsExact
    BY <1>1, <1>3, FS_EmptySet DEF Init, PermitsExact
  <1> QED BY <1>2, <1>4 DEF IInv

LEMMA NextIInv ==
    ASSUME IInv, [Next]_vars
    PROVE  IInv'
  <1>1. CASE UNCHANGED vars
    BY <1>1 DEF vars, IInv, PlaceInWalk, JobsBehind, PermitsExact, Holding, Holders, Single
  <1>2. CASE Main
    BY <1>2, StepPasses, StepVisits, StepPermit, StepOpenTemp, StepOpenTempFails DEF Main
  <1>3. CASE PermitFails
    BY <1>3, StepVisits
  <1>4. CASE \E i \in DOMAIN job : Pool(i)
    BY <1>4, StepPool
  <1> QED BY <1>1, <1>2, <1>3, <1>4 DEF Next

-----------------------------------------------------------------------------
(* The theorems *)

\* IInv holds in every reachable state.
THEOREM Invariance == Spec => []IInv
  <1>1. IInv /\ [Next]_vars => IInv'
    BY NextIInv
  <1> QED BY InitIInv, <1>1, PTL DEF Spec

\* The file_descriptor_sem of unpack.c counts right: every permit is free or held by one file,
\* however files fail to open, are refused or are extracted.
THEOREM EveryPermitHeldOnce == Spec => []PermitsExact
  <1>1. IInv => PermitsExact
    BY DEF IInv
  <1> QED BY <1>1, Invariance, PTL

\* The files that are open at a time never exceed the descriptors sqsh-unpack may use.
THEOREM OpenFilesInLimit == Spec => []OpenFilesBounded
  <1>1. IInv => OpenFilesBounded
    <2> SUFFICES ASSUME IInv PROVE OpenFilesBounded
      OBVIOUS
    <2> DEFINE Q == {i \in DOMAIN job : job[i] = "queued"}
               Open == Q \cup (IF main = "temp" THEN {0} ELSE {})
    <2>1. /\ IsFiniteSet(Holders) /\ IsFiniteSet(Holding) /\ 0 \notin Holders
          /\ Cardinality(Holding) \in Nat
      BY HoldersFinite DEF IInv, PlaceInWalk, JobsBehind
    <2>2. Q \subseteq Holders /\ Open \subseteq Holding
      BY DEF Holders, Holding
    <2>3. IsFiniteSet(Q) /\ 0 \notin Q /\ Cardinality(Q) \in Nat
      BY <2>1, <2>2, FS_Subset, FS_CardinalityType
    <2>4. Cardinality(Open) <= Cardinality(Holding)
      BY <2>1, <2>2, FS_Subset
    <2>5. Cardinality(Open) = Cardinality(Q) + (IF main = "temp" THEN 1 ELSE 0)
      BY <2>3, FS_AddElement
    <2>6. Cardinality(Holding) <= Limit
      BY <2>1, UnpackAssumption DEF IInv, PermitsExact
    <2> QED BY <2>1, <2>3, <2>4, <2>5, <2>6, UnpackAssumption DEF OpenFilesBounded
  <1> QED BY <1>1, Invariance, PTL

-----------------------------------------------------------------------------
(* What is extracted *)

\* Entering the target a second time, in the second pass, leads to where the first did.
Anchored == target.abs \/ target.path = <<>>

From == TargetFrom(Home)
Target(i) == From \o walk[i].path

Well == ~failed /\ ~lost
Seen(i) == pass = 2 \/ i <= pos

\* Where main is in the two passes, as long as it has not failed.
PassOK ==
    /\ pass \in {1, 2}
    /\ main = "wait" => pass = 1 /\ pos = Len(walk)
    /\ pass = 2 => Idle
    /\ main \in {"permit", "temp"} => walk[pos + 1].kind = "FILE"
    /\ failed => main \in {"out", "exited"}
    /\ ~failed => IF Single \/ (pass = 1 /\ main \in {"start", "enter"}) THEN cwd = Home ELSE cwd = From
    /\ ~failed /\ main \in {"out", "exited"} => pass = 2 /\ pos = Len(walk)

\* No directory lies where something is in the way.
DirOK ==
    /\ dir \in [DOMAIN dir -> {"made", "done"}]
    /\ walk \in Walks /\ clutter \in Clutters /\ target \in Targets
    /\ DOMAIN dir \cap clutter = {}
    /\ errors \in Nat

\* The directories there have been visits of exist.
MadeOK == Well => \A i \in 1..Len(walk) : Seen(i) /\ walk[i].kind = "BEGIN" => Target(i) \in DOMAIN dir

\* Everything else there has been a visit of is complete, or a job is still at it, or an error
\* will be counted.
OutOK == Well /\ errors = 0 => \A i \in 1..Len(walk) : Seen(i) =>
    /\ walk[i].kind = "OTHER" => Target(i) \in out
    /\ walk[i].kind = "FILE" => job[i] \in {"queued", "failed", "error"} \/ Target(i) \in out

\* The directories that the second pass has left have their metadata.
DoneOK == Well /\ errors = 0 /\ pass = 2 => \A i \in 1..pos :
    walk[i].kind = "END" => Target(i) \in DOMAIN dir /\ dir[Target(i)] = "done"

Extracted == PassOK /\ DirOK /\ MadeOK /\ OutOK /\ DoneOK

-----------------------------------------------------------------------------
LEMMA WalkFacts ==
    ASSUME walk \in Walks
    PROVE  /\ walk \in Seq(Visit) /\ Len(walk) \in Nat
           /\ \A i \in 1..Len(walk) : walk[i].path \in Seq(STRING)
           /\ \A i \in 1..Len(walk) : walk[i].kind \in {"BEGIN", "END", "FILE", "OTHER"}
           /\ Single => Len(walk) = 1 /\ walk[1].path = <<>> /\ walk[1].kind \in {"FILE", "OTHER"}
           /\ ~Single => Len(walk) > 1 /\ walk[1].kind = "BEGIN" /\ walk[1].path = <<>>
           /\ \A j \in 1..Len(walk) : walk[j].kind = "END" =>
                \E i \in 1..j : walk[i].kind = "BEGIN" /\ walk[i].path = walk[j].path
  <1>0. /\ walk \in Seq(Visit)
        /\ IF Len(walk) = 1 THEN walk[1].kind \in {"FILE", "OTHER"} /\ walk[1].path = <<>>
           ELSE /\ Len(walk) > 1
                /\ walk[1] = [kind |-> "BEGIN", path |-> <<>>]
                /\ walk[Len(walk)] = [kind |-> "END", path |-> <<>>]
                /\ \A i \in 1..Len(walk) - 1 : \E j \in i + 1..Len(walk) : Ends(walk, j, ListedAt(walk, i))
        /\ \A j \in 1..Len(walk) : walk[j].kind = "END" =>
               \E i \in 1..j : walk[i] = [kind |-> "BEGIN", path |-> walk[j].path]
    <2> DEFINE Fine(w) ==
          /\ w \in Seq(Visit)
          /\ IF Len(w) = 1 THEN w[1].kind \in {"FILE", "OTHER"} /\ w[1].path = <<>>
             ELSE /\ Len(w) > 1
                  /\ w[1] = [kind |-> "BEGIN", path |-> <<>>]
                  /\ w[Len(w)] = [kind |-> "END", path |-> <<>>]
                  /\ \A i \in 1..Len(w) - 1 : \E j \in i + 1..Len(w) : Ends(w, j, ListedAt(w, i))
          /\ \A j \in 1..Len(w) : w[j].kind = "END" =>
                 \E i \in 1..j : w[i] = [kind |-> "BEGIN", path |-> w[j].path]
    <2>1. \A w \in Walks : Fine(w)
      BY UnpackAssumption, Zenon
    <2>2. Fine(walk)
      BY <2>1, Zenon
    <2> QED BY <2>2, Zenon
  <1>1. walk \in Seq(Visit) /\ Len(walk) \in Nat
    BY <1>0
  <1>2. \A i \in 1..Len(walk) : walk[i] \in Visit
    BY <1>1
  <1>3. \A i \in 1..Len(walk) : walk[i].path \in Seq(STRING) /\ walk[i].kind \in {"BEGIN", "END", "FILE", "OTHER"}
    BY <1>2 DEF Visit, Place
  <1>4. Single => Len(walk) = 1 /\ walk[1].path = <<>> /\ walk[1].kind \in {"FILE", "OTHER"}
    BY <1>0, Zenon DEF Single
  <1>5. ~Single => Len(walk) > 1 /\ walk[1].kind = "BEGIN" /\ walk[1].path = <<>>
    <2>1. ~Single => Len(walk) > 1 /\ walk[1] = [kind |-> "BEGIN", path |-> <<>>]
      BY <1>0, Zenon DEF Single
    <2> QED BY <2>1
  <1>6. \A j \in 1..Len(walk) : walk[j].kind = "END" =>
                \E i \in 1..j : walk[i].kind = "BEGIN" /\ walk[i].path = walk[j].path
    <2> SUFFICES ASSUME NEW j \in 1..Len(walk), walk[j].kind = "END"
                 PROVE  \E i \in 1..j : walk[i].kind = "BEGIN" /\ walk[i].path = walk[j].path
      OBVIOUS
    <2>1. PICK i \in 1..j : walk[i] = [kind |-> "BEGIN", path |-> walk[j].path]
      BY <1>0, Zenon
    <2> QED BY <2>1
  <1> QED BY <1>1, <1>3, <1>4, <1>5, <1>6

LEMMA FromFacts ==
    ASSUME target \in Targets
    PROVE  /\ Home \in Seq(STRING) /\ From \in Seq(STRING) /\ From \o <<>> = From
           /\ Anchored => TargetFrom(From) = From
  <1>1. Home \in Seq(STRING) /\ target.path \in Seq(STRING) /\ target.abs \in BOOLEAN
    <2>1. target \in [abs : BOOLEAN, path : Place] /\ Home \in Place
      BY UnpackAssumption, Zenon
    <2> QED BY <2>1 DEF Place
  <1>2. From \in Seq(STRING)
    <2>1. CASE target.abs
      BY <1>1, <2>1, Zenon DEF From, TargetFrom
    <2>2. CASE ~target.abs
      <3>1. From = Home \o target.path
        BY <2>2, Zenon DEF From, TargetFrom
      <3> QED BY <1>1, <3>1
    <2> QED BY <2>1, <2>2
  <1>3. \A s \in Seq(STRING) : s \o <<>> = s
    OBVIOUS
  <1>4. ASSUME Anchored PROVE TargetFrom(From) = From
    <2>1. CASE target.abs
      BY <2>1, Zenon DEF From, TargetFrom
    <2>2. CASE ~target.abs
      <3>1. TargetFrom(From) = From \o <<>>
        BY <1>4, <2>2, Zenon DEF Anchored, TargetFrom
      <3> QED BY <1>2, <1>3, <3>1
    <2> QED BY <2>1, <2>2
  <1> QED BY <1>1, <1>2, <1>3, <1>4

\* Where a visit puts its file.
LEMMA Placed ==
    ASSUME Extracted, ~failed, pass = 2 \/ main \notin {"start", "enter"}, NEW i \in 1..Len(walk)
    PROVE  PlaceOf(walk[i]) = Target(i)
  <1>1. walk \in Walks /\ target \in Targets
    BY DEF Extracted, DirOK
  <1>2. CASE Single
    <2>1. cwd = Home
      BY <1>2 DEF Extracted, PassOK
    <2>2. i = 1
      BY <1>2 DEF Single
    <2>3. walk[i].path = <<>>
      BY <1>1, <1>2, <2>2, WalkFacts
    <2>4. PlaceOf(walk[i]) = From
      BY <1>2, <2>1 DEF PlaceOf, From
    <2>5. From \o <<>> = From
      BY <1>1, FromFacts
    <2> QED BY <2>3, <2>4, <2>5 DEF Target
  <1>3. CASE ~Single
    <2>1. cwd = From
      BY <1>3 DEF Extracted, PassOK
    <2> QED BY <1>3, <2>1 DEF PlaceOf, Target
  <1> QED BY <1>2, <1>3

LEMMA SameTarget ==
    ASSUME UNCHANGED inputs
    PROVE  /\ From' = From /\ (Single' <=> Single)
           /\ \A i : Target(i)' = Target(i)
  <1>1. walk' = walk /\ target' = target
    BY DEF inputs
  <1>2. From' = From
    BY <1>1 DEF From, TargetFrom
  <1> QED BY <1>1, <1>2 DEF Target, Single

\* Files change in their directories.
LEMMA DirKept ==
    ASSUME DirOK, UNCHANGED inputs, errors' \in Nat,
           NEW place, NEW state \in {"made", "done"},
           UNCHANGED dir \/ dir' = [dir EXCEPT ![place] = state]
    PROVE  DirOK' /\ DOMAIN dir' = DOMAIN dir
  <1>1. walk' = walk /\ target' = target /\ clutter' = clutter
    BY DEF inputs
  <1>2. dir' \in [DOMAIN dir -> {"made", "done"}]
    BY DEF DirOK
  <1>3. DOMAIN dir' = DOMAIN dir
    BY <1>2
  <1> QED BY <1>1, <1>2, <1>3 DEF DirOK

LEMMA DirMade ==
    ASSUME DirOK, UNCHANGED inputs, errors' \in Nat,
           NEW place, place \notin clutter, dir' = Made(place)
    PROVE  DirOK' /\ DOMAIN dir' = DOMAIN dir \cup {place}
  <1>1. walk' = walk /\ target' = target /\ clutter' = clutter
    BY DEF inputs
  <1>2. dir' \in [DOMAIN dir \cup {place} -> {"made", "done"}]
    BY DEF DirOK, Made
  <1>3. DOMAIN dir' = DOMAIN dir \cup {place}
    BY <1>2
  <1> QED BY <1>1, <1>2, <1>3 DEF DirOK

LEMMA MayTouchKeeps ==
    ASSUME DirOK, UNCHANGED inputs, errors' \in Nat,
           NEW place, MayTouch(place) \/ dir' = Touched(place)
    PROVE  DirOK' /\ DOMAIN dir' = DOMAIN dir
  BY DirKept DEF MayTouch, Touched

\* Once main has failed or missed an error, nothing is claimed any more.
LEMMA StepSpoils ==
    ASSUME Extracted, PassOK', DirOK', ~Well'
    PROVE  Extracted'
  BY DEF Extracted, MadeOK, OutOK, DoneOK

\* main goes on between two visits.
LEMMA StepMoves ==
    ASSUME Extracted, PassOK', UNCHANGED <<inputs, pass, pos, files, job, errors, failed, lost>>
    PROVE  Extracted'
  <1>1. /\ walk' = walk /\ target' = target /\ clutter' = clutter /\ dir' = dir /\ out' = out
        /\ pass' = pass /\ pos' = pos /\ job' = job /\ errors' = errors /\ (Well' <=> Well)
    BY DEF inputs, files, Well
  <1>2. \A i : Target(i)' = Target(i) /\ (Seen(i)' <=> Seen(i))
    BY <1>1, SameTarget DEF inputs, Seen
  <1>3. DirOK'
    BY <1>1 DEF Extracted, DirOK
  <1>4. MadeOK'
    BY <1>1, <1>2 DEF Extracted, MadeOK
  <1>5. OutOK'
    BY <1>1, <1>2 DEF Extracted, OutOK
  <1>6. DoneOK'
    <2> SUFFICES ASSUME Well, errors = 0, pass = 2, NEW i \in 1..pos, walk[i].kind = "END"
                 PROVE  Target(i)' \in DOMAIN dir /\ dir[Target(i)'] = "done"
      BY <1>1 DEF DoneOK
    <2> QED BY <1>2 DEF Extracted, DoneOK
  <1> QED BY <1>3, <1>4, <1>5, <1>6 DEF Extracted

\* main is done with a visit: what it did keeps what is there, and is right for this visit.
LEMMA StepVisited ==
    ASSUME IInv, Extracted, Visited, main \in {"walk", "permit", "temp"}, pos < Len(walk),
           DirOK', errors' \in {errors, errors + 1}, lost => lost',
           DOMAIN dir \subseteq DOMAIN dir', out \subseteq out',
           DOMAIN job' = DOMAIN job, pass = 2 => UNCHANGED job,
           \A j \in 1..Len(walk) : j # pos + 1 => job'[j] = job[j],
           Well /\ ~lost' /\ This.kind = "BEGIN" => Target(pos + 1) \in DOMAIN dir',
           Well /\ errors = 0 /\ errors' = 0 /\ pass = 1 =>
               /\ This.kind = "OTHER" => Target(pos + 1) \in out'
               /\ This.kind = "FILE" => job'[pos + 1] = "queued",
           Well /\ errors = 0 /\ errors' = 0 /\ ~lost' /\ pass = 2 =>
               /\ \A d \in DOMAIN dir : dir[d] = "done" => dir'[d] = "done"
               /\ This.kind = "END" => Target(pos + 1) \in DOMAIN dir' /\ dir'[Target(pos + 1)] = "done"
    PROVE  Extracted'
  <1> DEFINE n == pos + 1
  <1>1. /\ walk' = walk /\ target' = target /\ clutter' = clutter
        /\ pos' = n /\ main' = "walk" /\ pass' = pass /\ cwd' = cwd /\ failed' = failed
        /\ This = walk[n]
    BY DEF Visited, inputs, This
  <1>2. pos \in Nat /\ Len(walk) \in Nat /\ n \in 1..Len(walk) /\ pos \in 0..Len(walk)
        /\ (pass \in {1, 2}) /\ errors \in Nat
    BY WalkFacts DEF IInv, PlaceInWalk, Extracted, PassOK, DirOK
  <1>3. (\A i : Target(i)' = Target(i)) /\ From' = From /\ (Single' <=> Single)
    BY <1>1, SameTarget DEF inputs
  <1>4. (Well' => Well) /\ (errors' = 0 => errors = 0) /\ (Well' => ~lost')
    BY <1>1, <1>2 DEF Well
  <1>5. \A i \in 1..Len(walk) : Seen(i)' <=> Seen(i) \/ i = n
    BY <1>1, <1>2 DEF Seen
  <1>6. PassOK'
    <2>1. Idle' \/ pass = 1
      BY <1>2 DEF Extracted, PassOK, Idle
    <2> QED BY <1>1, <1>2, <1>3, <2>1 DEF Extracted, PassOK
  <1>7. MadeOK'
    <2> SUFFICES ASSUME Well', NEW i \in 1..Len(walk), Seen(i)', walk[i].kind = "BEGIN"
                 PROVE  Target(i) \in DOMAIN dir'
      BY <1>1, <1>3 DEF MadeOK
    <2>1. CASE i = n
      BY <1>1, <1>4, <2>1
    <2>2. CASE i # n
      <3>1. Target(i) \in DOMAIN dir
        BY <1>4, <1>5, <2>2 DEF Extracted, MadeOK
      <3> QED BY <3>1
    <2> QED BY <2>1, <2>2
  <1>8. OutOK'
    <2> SUFFICES ASSUME Well', errors' = 0, NEW i \in 1..Len(walk), Seen(i)'
                 PROVE  /\ walk[i].kind = "OTHER" => Target(i) \in out'
                        /\ walk[i].kind = "FILE" =>
                             job'[i] \in {"queued", "failed", "error"} \/ Target(i) \in out'
      BY <1>1, <1>3 DEF OutOK
    <2>1. CASE i = n /\ pass = 1
      BY <1>1, <1>4, <2>1
    <2>2. CASE i # n \/ pass = 2
      <3>1. Seen(i) /\ job'[i] = job[i]
        BY <1>5, <2>2 DEF Seen
      <3> QED BY <1>4, <3>1 DEF Extracted, OutOK
    <2> QED BY <1>2, <2>1, <2>2
  <1>9. DoneOK'
    <2> SUFFICES ASSUME Well', errors' = 0, pass = 2, NEW i \in 1..n, walk[i].kind = "END"
                 PROVE  Target(i) \in DOMAIN dir' /\ dir'[Target(i)] = "done"
      BY <1>1, <1>3 DEF DoneOK
    <2>1. CASE i = n
      BY <1>1, <1>4, <2>1
    <2>2. CASE i # n
      <3>1. i \in 1..pos
        BY <1>2, <2>2
      <3>2. Target(i) \in DOMAIN dir /\ dir[Target(i)] = "done"
        BY <1>4, <3>1 DEF Extracted, DoneOK
      <3> QED BY <1>4, <3>2
    <2> QED BY <2>1, <2>2
  <1> QED BY <1>6, <1>7, <1>8, <1>9 DEF Extracted

\* The target is entered: the first time it may be created, the second it is there.
LEMMA StepEnters ==
    ASSUME IInv, Anchored, Extracted, EnterTarget
    PROVE  Extracted'
  <1> DEFINE place == TargetFrom(cwd)
  <1>1. /\ walk' = walk /\ target' = target /\ clutter' = clutter
        /\ main = "enter" /\ ~Single /\ place \notin clutter /\ cwd' = place
        /\ dir' = dir \/ dir' = Made(place)
        /\ pos' = 1 /\ main' = "walk" /\ pass' = pass /\ out' = out /\ job' = job
        /\ errors' = errors /\ failed' = failed /\ lost' = lost
    BY DEF EnterTarget, inputs
  <1>2. /\ walk \in Walks /\ target \in Targets /\ errors \in Nat /\ DirOK /\ PassOK
        /\ pass \in {1, 2} /\ pos = 0
    BY <1>1 DEF IInv, PlaceInWalk, Extracted, DirOK, PassOK
  <1>3. Len(walk) \in Nat /\ Len(walk) > 1 /\ walk[1].kind = "BEGIN" /\ walk[1].path = <<>>
    BY <1>1, <1>2, WalkFacts
  <1>4. (\A i : Target(i)' = Target(i)) /\ From' = From /\ (Single' <=> Single)
    BY <1>1, SameTarget DEF inputs
  <1>5. DirOK' /\ DOMAIN dir \subseteq DOMAIN dir' /\ place \in DOMAIN dir'
    <2>1. CASE place \in DOMAIN dir
      <3>1. dir' = dir
        BY <1>1, <2>1 DEF EnterTarget
      <3> QED BY <1>1, <1>2, <2>1, <3>1 DEF DirOK
    <2>2. CASE place \notin DOMAIN dir
      <3>1. dir' = Made(place)
        BY <1>1, <2>2 DEF EnterTarget
      <3>2. UNCHANGED inputs /\ errors' \in Nat /\ DirOK /\ place \notin clutter
        BY <1>1, <1>2 DEF inputs
      <3> HIDE DEF place
      <3>3. DirOK' /\ DOMAIN dir' = DOMAIN dir \cup {place}
        BY <3>1, <3>2, DirMade
      <3> QED BY <3>3
    <2> QED BY <2>1, <2>2
  <1>6. ~failed => place = From
    <2>1. CASE pass = 1
      BY <1>1, <1>2, <2>1 DEF PassOK, From
    <2>2. CASE pass = 2
      <3>1. ~failed => cwd = From
        BY <1>1, <1>2, <2>2 DEF PassOK
      <3> QED BY <1>2, <3>1, FromFacts
    <2> QED BY <1>2, <2>1, <2>2
  <1>7. PassOK'
    <2>1. Idle' <=> Idle
      BY <1>1 DEF Idle
    <2> QED BY <1>1, <1>2, <1>4, <1>6, <2>1 DEF PassOK
  <1>8. Target(1) = From
    BY <1>2, <1>3, FromFacts DEF Target
  <1>9. \A i \in 1..Len(walk) : Seen(i)' => Seen(i) \/ i = 1
    BY <1>1, <1>2, <1>3 DEF Seen
  <1>10. MadeOK'
    <2> SUFFICES ASSUME Well', NEW i \in 1..Len(walk), Seen(i)', walk[i].kind = "BEGIN"
                 PROVE  Target(i) \in DOMAIN dir'
      BY <1>1, <1>4 DEF MadeOK
    <2>1. Well
      BY <1>1 DEF Well
    <2>2. CASE i = 1
      BY <1>5, <1>6, <1>8, <2>1, <2>2 DEF Well
    <2>3. CASE Seen(i)
      BY <1>5, <2>1, <2>3 DEF Extracted, MadeOK
    <2> QED BY <1>9, <2>2, <2>3
  <1>11. OutOK'
    <2> SUFFICES ASSUME Well, errors = 0, NEW i \in 1..Len(walk), Seen(i)'
                 PROVE  /\ walk[i].kind = "OTHER" => Target(i) \in out
                        /\ walk[i].kind = "FILE" =>
                             job[i] \in {"queued", "failed", "error"} \/ Target(i) \in out
      BY <1>1, <1>4 DEF OutOK, Well
    <2>1. CASE i = 1
      BY <1>3, <2>1
    <2>2. CASE Seen(i)
      BY <2>2 DEF Extracted, OutOK
    <2> QED BY <1>9, <2>1, <2>2
  <1>12. DoneOK'
    BY <1>1, <1>3, <1>4 DEF DoneOK
  <1> QED BY <1>5, <1>7, <1>10, <1>11, <1>12 DEF Extracted

LEMMA StepBetween ==
    ASSUME IInv, Extracted,
           SetUp \/ ExtractSingle \/ PassOver \/ Leave \/ ExtractFile \/ Permit
    PROVE  Extracted'
  <1>1. UNCHANGED <<inputs, pass, pos, cwd, files, job, errors, failed, lost>>
    BY DEF SetUp, ExtractSingle, PassOver, Leave, ExtractFile, Permit
  <1>2. /\ walk' = walk /\ pass' = pass /\ pos' = pos /\ cwd' = cwd /\ job' = job /\ failed' = failed
        /\ From' = From /\ (Single' <=> Single) /\ (Idle' <=> Idle)
    BY <1>1, SameTarget DEF inputs, Idle
  <1>3. PassOK
    BY DEF Extracted
  <1>4. PassOK'
    <2>1. CASE SetUp
      BY <1>2, <1>3, <2>1 DEF SetUp, PassOK
    <2>2. CASE ExtractSingle
      BY <1>2, <1>3, <2>2 DEF ExtractSingle, PassOK
    <2>3. CASE PassOver
      BY <1>2, <1>3, <2>3 DEF PassOver, PassOK
    <2>4. CASE Leave
      BY <1>2, <1>3, <2>4 DEF Leave, PassOK
    <2>5. CASE ExtractFile
      BY <1>2, <1>3, <2>5 DEF ExtractFile, More, This, PassOK
    <2>6. CASE Permit
      BY <1>2, <1>3, <2>6 DEF Permit, PassOK
    <2> QED BY <2>1, <2>2, <2>3, <2>4, <2>5, <2>6
  <1> QED BY <1>1, <1>4, StepMoves

\* The second pass begins when every job is done.
LEMMA StepSecondPass ==
    ASSUME IInv, Extracted, SecondPass
    PROVE  Extracted'
  <1>1. /\ walk' = walk /\ target' = target /\ clutter' = clutter /\ dir' = dir /\ out' = out
        /\ main = "wait" /\ Idle /\ pass' = 2 /\ pos' = 0 /\ main' = "enter"
        /\ cwd' = cwd /\ job' = job /\ errors' = errors /\ (Well' <=> Well) /\ failed' = failed
    BY DEF SecondPass, inputs, files, Well
  <1>2. pass = 1 /\ pos = Len(walk) /\ PassOK /\ Len(walk) \in Nat
    BY <1>1, WalkFacts DEF Extracted, PassOK, DirOK
  <1>3. (\A i : Target(i)' = Target(i)) /\ From' = From /\ (Single' <=> Single)
    BY <1>1, SameTarget DEF inputs
  <1>4. \A i \in 1..Len(walk) : Seen(i)
    BY <1>2 DEF Seen
  <1>5. PassOK'
    <2>1. Idle'
      BY <1>1 DEF Idle
    <2> QED BY <1>1, <1>2, <1>3, <2>1 DEF PassOK
  <1>6. DirOK'
    BY <1>1 DEF Extracted, DirOK
  <1>7. MadeOK'
    BY <1>1, <1>3, <1>4 DEF Extracted, MadeOK
  <1>8. OutOK'
    BY <1>1, <1>3, <1>4 DEF Extracted, OutOK
  <1>9. DoneOK'
    BY <1>1 DEF DoneOK
  <1> QED BY <1>5, <1>6, <1>7, <1>8, <1>9 DEF Extracted

LEMMA StepAborts ==
    ASSUME Extracted, Abort, DirOK'
    PROVE  Extracted'
  <1>1. pass' = pass /\ job' = job /\ failed' = TRUE /\ main' = "out"
    BY DEF Abort
  <1>2. PassOK'
    <2>1. Idle' <=> Idle
      BY <1>1 DEF Idle
    <2> QED BY <1>1, <2>1 DEF Extracted, PassOK
  <1>3. ~Well'
    BY <1>1 DEF Well
  <1> QED BY <1>2, <1>3, StepSpoils

LEMMA StepEndsPass ==
    ASSUME IInv, Extracted, Fails \/ CutShort
    PROVE  Extracted'
  <1>1. CASE Fails
    <2>1. Abort /\ dir' = dir /\ errors' = errors /\ UNCHANGED inputs
      BY <1>1 DEF Fails, Abort
    <2>2. DirOK'
      BY <2>1 DEF Extracted, DirOK, inputs
    <2> QED BY <2>1, <2>2, StepAborts
  <1>2. CASE CutShort
    <2>1. /\ walk' = walk /\ main = "walk" /\ main' = main /\ pass' = pass /\ cwd' = cwd /\ job' = job
          /\ failed' = failed /\ lost' = TRUE /\ UNCHANGED inputs
          /\ dir' = dir /\ errors' = errors /\ target' = target /\ clutter' = clutter
      BY <1>2 DEF CutShort, More, inputs, files
    <2>2. From' = From /\ (Single' <=> Single) /\ (Idle' <=> Idle)
      BY <2>1, SameTarget DEF Idle
    <2>3. PassOK'
      BY <2>1, <2>2 DEF Extracted, PassOK
    <2>4. DirOK'
      BY <2>1 DEF Extracted, DirOK
    <2>5. ~Well'
      BY <2>1 DEF Well
    <2> QED BY <2>3, <2>4, <2>5, StepSpoils
  <1> QED BY <1>1, <1>2

\* The place of the visit main is at.
LEMMA ThisPlaced ==
    ASSUME IInv, Extracted, main \in {"walk", "permit", "temp"}, pos < Len(walk), ~failed
    PROVE  PlaceOf(This) = Target(pos + 1)
  <1>1. pos + 1 \in 1..Len(walk)
    BY WalkFacts DEF IInv, PlaceInWalk
  <1> QED BY <1>1, Placed DEF This

LEMMA StepExtractDir ==
    ASSUME IInv, Extracted, ExtractDir
    PROVE  Extracted'
  <1> DEFINE place == PlaceOf(This)
  <1>1. /\ main = "walk" /\ pos < Len(walk) /\ This.kind = "BEGIN" /\ Visited /\ UNCHANGED inputs
        /\ out' = out /\ job' = job /\ errors' = errors /\ DirOK /\ errors' \in Nat
    BY DEF ExtractDir, More, Visited, Extracted, DirOK
  <1>2. pos + 1 \in 1..Len(walk) /\ walk[pos + 1].kind = "BEGIN"
    BY <1>1, WalkFacts DEF IInv, PlaceInWalk, This
  <1>3. DirOK' /\ DOMAIN dir \subseteq DOMAIN dir' /\ (lost => lost') /\ (~lost' => place \in DOMAIN dir')
    <2>1. CASE place \in DOMAIN dir /\ UNCHANGED <<dir, lost>>
      BY <1>1, <2>1 DEF DirOK, inputs
    <2>2. CASE place \in clutter /\ lost' = TRUE /\ UNCHANGED dir
      BY <1>1, <2>2 DEF DirOK, inputs
    <2>3. CASE ~Exists(place) /\ Above(place) \in DOMAIN dir /\ dir' = Made(place) /\ UNCHANGED lost
      <3>1. place \notin clutter
        BY <2>3 DEF Exists
      <3>2. UNCHANGED inputs /\ errors' \in Nat /\ DirOK /\ dir' = Made(place) /\ lost' = lost
        BY <1>1, <2>3
      <3> HIDE DEF place
      <3>3. DirOK' /\ DOMAIN dir' = DOMAIN dir \cup {place}
        BY <3>1, <3>2, DirMade
      <3> QED BY <3>2, <3>3
    <2> QED BY <2>1, <2>2, <2>3 DEF ExtractDir
  <1>4. Well => place = Target(pos + 1)
    BY <1>1, ThisPlaced DEF Well
  <1>5. pass = 2 /\ Well /\ ~lost' => dir' = dir
    <2> SUFFICES ASSUME pass = 2, Well, ~lost' PROVE dir' = dir
      OBVIOUS
    <2>1. Target(pos + 1) \in DOMAIN dir
      BY <1>2 DEF Extracted, MadeOK, Seen
    <2> QED BY <1>4, <2>1 DEF ExtractDir, Exists
  <1> QED BY <1>1, <1>2, <1>3, <1>4, <1>5, StepVisited

LEMMA StepSkip ==
    ASSUME IInv, Extracted, Skip
    PROVE  Extracted'
  <1>1. /\ main = "walk" /\ pos < Len(walk) /\ Visited /\ UNCHANGED inputs
        /\ dir' = dir /\ out' = out /\ job' = job /\ errors' = errors /\ lost' = lost /\ DirOK
    BY DEF Skip, More, Visited, files, Extracted
  <1>2. This.kind # "BEGIN" /\ (pass = 1 => This.kind = "END") /\ (pass = 2 => This.kind # "END")
    BY DEF Skip, Extracted, PassOK
  <1>3. DirOK'
    BY <1>1 DEF DirOK, inputs
  <1> QED BY <1>1, <1>2, <1>3, StepVisited

\* A file is refused: an error is counted, or main fails.
LEMMA StepRefused ==
    ASSUME IInv, Extracted, Refused, main \in {"walk", "permit", "temp"}, pos < Len(walk),
           This.kind # "BEGIN", UNCHANGED dir \/ MayTouch(PlaceOf(This))
    PROVE  Extracted'
  <1>1. DirOK /\ errors \in Nat
    BY DEF Extracted, DirOK
  <1>2. UNCHANGED inputs /\ errors' \in Nat
    BY <1>1 DEF Refused, Abort, Visited
  <1>3. DirOK' /\ DOMAIN dir' = DOMAIN dir
    BY <1>1, <1>2, MayTouchKeeps DEF MayTouch
  <1>4. CASE Single /\ Abort
    BY <1>3, <1>4, StepAborts
  <1>5. CASE errors' = errors + 1 /\ Visited /\ UNCHANGED <<out, job, lost>>
    BY <1>1, <1>3, <1>5, StepVisited
  <1> QED BY <1>4, <1>5 DEF Refused

LEMMA StepUpdateMetadataDir ==
    ASSUME IInv, Extracted, UpdateMetadataDir
    PROVE  Extracted'
  <1> DEFINE place == PlaceOf(This)
  <1>1. /\ main = "walk" /\ pos < Len(walk) /\ This.kind = "END" /\ pass = 2 /\ DirOK
        /\ walk \in Walks /\ pos + 1 \in 1..Len(walk) /\ This = walk[pos + 1]
    BY WalkFacts DEF UpdateMetadataDir, More, IInv, PlaceInWalk, Extracted, DirOK, This
  <1>2. Well => place = Target(pos + 1) /\ place \in DOMAIN dir
    <2> SUFFICES ASSUME Well PROVE place = Target(pos + 1) /\ place \in DOMAIN dir
      OBVIOUS
    <2>1. place = Target(pos + 1)
      BY <1>1, ThisPlaced DEF Well
    <2>2. PICK i \in 1..pos + 1 : walk[i].kind = "BEGIN" /\ walk[i].path = walk[pos + 1].path
      BY <1>1, WalkFacts
    <2>3. i \in 1..Len(walk) /\ Seen(i)
      BY <1>1, <2>2, WalkFacts DEF Seen, IInv, PlaceInWalk
    <2>4. Target(i) \in DOMAIN dir
      BY <2>2, <2>3 DEF Extracted, MadeOK
    <2> QED BY <2>1, <2>2, <2>4 DEF Target
  <1>3. CASE /\ place \in DOMAIN dir /\ dir' = MetadataSet(place)
             /\ Visited /\ UNCHANGED <<out, job, errors, lost>>
    <2>1. UNCHANGED inputs /\ errors' \in Nat
      BY <1>1, <1>3 DEF Visited, DirOK
    <2>2. DirOK' /\ DOMAIN dir' = DOMAIN dir
      BY <1>1, <1>3, <2>1, DirKept DEF MetadataSet
    <2>3. dir'[place] = "done" /\ \A d \in DOMAIN dir : dir[d] = "done" => dir'[d] = "done"
      BY <1>1, <1>3 DEF MetadataSet, DirOK
    <2> QED BY <1>1, <1>2, <1>3, <2>2, <2>3, StepVisited
  <1>4. CASE place \in clutter /\ Visited /\ UNCHANGED <<files, job, errors, lost>>
    <2>1. ~Well
      BY <1>1, <1>2, <1>4 DEF DirOK
    <2>2. DirOK'
      BY <1>1, <1>4 DEF Visited, inputs, files, DirOK
    <2> QED BY <1>1, <1>4, <2>1, <2>2, StepVisited DEF files
  <1>5. CASE Refused /\ UNCHANGED dir
    BY <1>1, <1>5, StepRefused
  <1> QED BY <1>3, <1>4, <1>5 DEF UpdateMetadataDir

LEMMA StepExtractOther ==
    ASSUME IInv, Extracted, ExtractOther
    PROVE  Extracted'
  <1> DEFINE place == PlaceOf(This)
  <1>1. /\ main = "walk" /\ pos < Len(walk) /\ This.kind = "OTHER" /\ pass = 1 /\ DirOK
    BY DEF ExtractOther, More, Extracted
  <1>2. CASE /\ out' = out \cup {place} /\ dir' = Touched(place)
             /\ Visited /\ UNCHANGED <<job, errors, lost>>
    <2>1. UNCHANGED inputs /\ errors' \in Nat
      BY <1>1, <1>2 DEF Visited, DirOK
    <2>2. DirOK' /\ DOMAIN dir' = DOMAIN dir
      BY <1>1, <1>2, <2>1, MayTouchKeeps
    <2>3. Well => Target(pos + 1) \in out'
      BY <1>1, <1>2, ThisPlaced DEF Well
    <2> QED BY <1>1, <1>2, <2>2, <2>3, StepVisited
  <1>3. CASE Refused /\ MayTouch(place)
    BY <1>1, <1>3, StepRefused
  <1> QED BY <1>2, <1>3 DEF ExtractOther

\* main opens a temporary file and hands it to the pool, or fails to.
LEMMA StepExtractFile ==
    ASSUME IInv, Extracted, PermitFails \/ OpenTemp \/ OpenTempFails
    PROVE  Extracted'
  <1>1. /\ main \in {"permit", "temp"} /\ pos < Len(walk) /\ This.kind = "FILE" /\ pass = 1 /\ DirOK
        /\ DOMAIN job = 1..Len(walk) /\ pos + 1 \in 1..Len(walk)
    BY WalkFacts DEF PermitFails, OpenTemp, OpenTempFails, This, IInv, PlaceInWalk, JobsBehind, Extracted,
                     PassOK, DirOK
  <1>2. CASE PermitFails \/ OpenTempFails
    BY <1>1, <1>2, StepRefused DEF PermitFails, OpenTempFails
  <1>3. CASE OpenTemp
    <2>1. /\ dir' = Touched(PlaceOf(This)) /\ job' = [job EXCEPT ![pos + 1] = "queued"]
          /\ Visited /\ UNCHANGED <<out, sem, errors, lost>>
      BY <1>3 DEF OpenTemp
    <2>2. UNCHANGED inputs /\ errors' \in Nat
      BY <1>1, <2>1 DEF Visited, DirOK
    <2>3. DirOK' /\ DOMAIN dir' = DOMAIN dir
      BY <1>1, <2>1, <2>2, MayTouchKeeps
    <2>4. DOMAIN job' = DOMAIN job /\ job'[pos + 1] = "queued"
          /\ \A j \in 1..Len(walk) : j # pos + 1 => job'[j] = job[j]
      BY <1>1, <2>1
    <2> QED BY <1>1, <2>1, <2>3, <2>4, StepVisited
  <1> QED BY <1>2, <1>3

\* A job of the pool ends with its file in place, or with an error that is counted.
LEMMA StepExtracts ==
    ASSUME IInv, Extracted, NEW i \in DOMAIN job, Pool(i)
    PROVE  Extracted'
  <1>1. /\ i \in 1..Len(walk) /\ DOMAIN job = 1..Len(walk) /\ PassOK /\ DirOK
        /\ job[i] \in {"queued", "closed", "failed", "error"}
    BY DEF IInv, JobsBehind, Extracted, Pool, Finish, Post, Count
  <1>2. /\ walk' = walk /\ target' = target /\ clutter' = clutter /\ main' = main /\ pass' = pass
        /\ pos' = pos /\ cwd' = cwd /\ failed' = failed /\ lost' = lost /\ (Well' <=> Well)
    BY DEF Pool, Finish, Post, Count, Running, inputs, Well
  <1>3. (\A j : Target(j)' = Target(j) /\ (Seen(j)' <=> Seen(j))) /\ From' = From /\ (Single' <=> Single)
    BY <1>2, SameTarget DEF inputs, Seen
  <1>4. pass = 1 /\ i <= pos
    <2>1. pass # 2
      BY <1>1 DEF PassOK, Idle
    <2>2. pass = 1
      BY <1>1, <2>1 DEF PassOK
    <2> QED BY <1>1, <2>2, WalkFacts DEF IInv, JobsBehind, PlaceInWalk
  <1>5. Well => PlaceOf(walk[i]) = Target(i)
    <2>1. main \notin {"start", "enter"}
      BY <1>1, <1>4 DEF IInv, PlaceInWalk
    <2> QED BY <1>1, <2>1, Placed DEF Well
  <1>6. PassOK'
    BY <1>1, <1>2, <1>3, <1>4 DEF PassOK
  <1>7. errors' \in Nat /\ (errors' = 0 => errors = 0 /\ ~Count(i))
    BY <1>1 DEF Pool, Finish, Post, Count, DirOK
  <1>8. DirOK' /\ DOMAIN dir' = DOMAIN dir
    <2>1. UNCHANGED dir \/ MayTouch(PlaceOf(walk[i])) \/ dir' = Touched(PlaceOf(walk[i]))
      BY DEF Pool, Finish, Post, Count, files
    <2>2. CASE UNCHANGED dir
      BY <1>1, <1>2, <1>7, <2>2 DEF DirOK
    <2>3. CASE MayTouch(PlaceOf(walk[i])) \/ dir' = Touched(PlaceOf(walk[i]))
      BY <1>1, <1>2, <1>7, <2>3, MayTouchKeeps DEF inputs
    <2> QED BY <2>1, <2>2, <2>3
  <1>9. MadeOK'
    BY <1>2, <1>3, <1>8 DEF Extracted, MadeOK
  <1>10. OutOK'
    <2> SUFFICES ASSUME Well, errors = 0, errors' = 0, NEW j \in 1..Len(walk), Seen(j)
                 PROVE  /\ walk[j].kind = "OTHER" => Target(j) \in out'
                        /\ walk[j].kind = "FILE" =>
                             job'[j] \in {"queued", "failed", "error"} \/ Target(j) \in out'
      BY <1>2, <1>3, <1>7 DEF OutOK
    <2>1. out \subseteq out'
      BY DEF Pool, Finish, Post, Count, files
    <2>2. \/ /\ walk[j].kind = "OTHER" => Target(j) \in out
             /\ walk[j].kind = "FILE" => job[j] \in {"queued", "failed", "error"} \/ Target(j) \in out
      BY DEF Extracted, OutOK
    <2>3. CASE j # i
      <3>1. job'[j] = job[j]
        BY <1>1, <2>3 DEF Pool, Finish, Post, Count
      <3> QED BY <2>1, <2>2, <3>1
    <2>4. CASE j = i
      <3>1. CASE Finish(i)
        BY <1>1, <1>5, <2>1, <2>2, <2>4, <3>1 DEF Finish
      <3>2. CASE Post(i)
        BY <1>1, <2>1, <2>2, <2>4, <3>2 DEF Post
      <3> QED BY <1>7, <3>1, <3>2 DEF Pool
    <2> QED BY <2>3, <2>4
  <1>11. DoneOK'
    BY <1>2, <1>4 DEF DoneOK
  <1> QED BY <1>6, <1>8, <1>9, <1>10, <1>11 DEF Extracted

LEMMA InitExtracted == Init => Extracted
  <1> SUFFICES ASSUME Init PROVE Extracted
    OBVIOUS
  <1>1. /\ walk \in Walks /\ target \in Targets /\ clutter \in Clutters /\ pass = 1 /\ pos = 0
        /\ main = "start" /\ cwd = Home /\ errors = 0 /\ failed = FALSE /\ Len(walk) \in Nat
        /\ dir = [d \in {SubSeq(Home, 1, n) : n \in 0..Len(Home)} |-> "made"]
    BY WalkFacts DEF Init
  <1>2. PassOK
    BY <1>1 DEF PassOK
  <1>3. DirOK
    <2>1. \A n \in 0..Len(Home) : SubSeq(Home, 1, n) \notin clutter
      BY <1>1, UnpackAssumption, Zenon
    <2>2. DOMAIN dir = {SubSeq(Home, 1, n) : n \in 0..Len(Home)}
      BY <1>1
    <2>3. DOMAIN dir \cap clutter = {}
      BY <2>1, <2>2
    <2> QED BY <1>1, <2>3 DEF DirOK
  <1>4. \A i \in 1..Len(walk) : ~Seen(i)
    BY <1>1 DEF Seen
  <1> QED BY <1>1, <1>2, <1>3, <1>4 DEF Extracted, MadeOK, OutOK, DoneOK

LEMMA NextExtracted ==
    ASSUME IInv, Anchored, Extracted, [Next]_vars
    PROVE  Extracted'
  <1>1. CASE UNCHANGED vars
    <2>1. UNCHANGED <<inputs, pass, pos, files, job, errors, failed, lost>>
      BY <1>1 DEF vars, inputs, files
    <2>2. /\ walk' = walk /\ main' = main /\ cwd' = cwd /\ pass' = pass /\ pos' = pos /\ job' = job
          /\ failed' = failed /\ From' = From /\ (Single' <=> Single) /\ (Idle' <=> Idle)
      BY <1>1, <2>1, SameTarget DEF vars, inputs, Idle
    <2>3. PassOK'
      BY <2>2 DEF Extracted, PassOK
    <2> QED BY <2>1, <2>3, StepMoves
  <1>2. CASE Main
    BY <1>2, StepBetween, StepEnters, StepSecondPass, StepEndsPass, StepExtractDir, StepSkip,
       StepUpdateMetadataDir, StepExtractOther, StepExtractFile DEF Main
  <1>3. CASE PermitFails
    BY <1>3, StepExtractFile
  <1>4. CASE \E i \in DOMAIN job : Pool(i)
    BY <1>4, StepExtracts
  <1> QED BY <1>1, <1>2, <1>3, <1>4 DEF Next

\* sqsh-unpack leaves nothing out: when it exits with 0 and no error went uncounted, every file,
\* symlink and device of the archive is in the target directory, and every directory has its
\* metadata back, whatever the archive, what is in the way, the errors, and the order of the jobs;
\* for every target that is absolute or the current directory.  (For another one the second pass
\* enters the target inside the target: see CreatesNoneLate.)
THEOREM NothingLeftOut == Spec => [](Anchored => NothingMissing)
  <1> DEFINE Inv == IInv /\ (Anchored => Extracted)
  <1>1. Init => Inv
    BY InitIInv, InitExtracted
  <1>2. Inv /\ [Next]_vars => Inv'
    <2> SUFFICES ASSUME Inv, [Next]_vars PROVE Inv'
      OBVIOUS
    <2>1. target' = target
      BY DEF Next, Main, Pool, vars, inputs, Abort, SetUp, EnterTarget, ExtractSingle, Fails, CutShort,
             PassOver, SecondPass, Leave, Visited, Refused, ExtractDir, Skip, UpdateMetadataDir,
             ExtractOther, ExtractFile, Permit, PermitFails, OpenTemp, OpenTempFails, Running,
             Finish, Post, Count
    <2>2. Anchored' <=> Anchored
      BY <2>1 DEF Anchored
    <2> QED BY <2>2, NextIInv, NextExtracted
  <1>3. Inv => (Anchored => NothingMissing)
    <2> SUFFICES ASSUME IInv, Extracted, Succeeded, ~lost, NEW i \in 1..Len(walk)
                 PROVE  CASE walk[i].kind = "END" -> Target(i) \in DOMAIN dir /\ dir[Target(i)] = "done"
                          [] walk[i].kind \in {"FILE", "OTHER"} -> Target(i) \in out
                          [] OTHER -> TRUE
      BY DEF NothingMissing, Target, From
    <2>1. Well /\ errors = 0 /\ pass = 2 /\ pos = Len(walk) /\ Idle /\ DOMAIN job = 1..Len(walk)
      BY DEF Succeeded, Well, Extracted, PassOK, IInv, JobsBehind
    <2>2. walk[i].kind = "END" => Target(i) \in DOMAIN dir /\ dir[Target(i)] = "done"
      BY <2>1 DEF Extracted, DoneOK
    <2>3. walk[i].kind \in {"FILE", "OTHER"} => Target(i) \in out
      BY <2>1 DEF Extracted, OutOK, Seen, Idle
    <2>4. walk[i].kind \in {"BEGIN", "END", "FILE", "OTHER"}
      BY WalkFacts DEF Extracted, DirOK
    <2> QED BY <2>2, <2>3, <2>4
  <1> QED BY <1>1, <1>2, <1>3, PTL DEF Spec

\* For such targets the second pass creates no directory, as unpack.c:150 has it: it finds the
\* target and every directory the first pass made.
THEOREM SecondPassCreatesNone == Spec /\ []Anchored => CreatesNoneLate
  <1> DEFINE Inv == IInv /\ (Anchored => Extracted)
  <1>1. Init => Inv
    BY InitIInv, InitExtracted
  <1>2. Inv /\ Anchored /\ [Next]_vars => Inv'
    <2> SUFFICES ASSUME Inv, Anchored, [Next]_vars PROVE Inv'
      OBVIOUS
    <2> QED BY NextIInv, NextExtracted
  <1>3. Inv /\ Anchored /\ [Next]_vars => [pass = 2 /\ ~lost => DOMAIN dir' = DOMAIN dir]_vars
    <2> SUFFICES ASSUME IInv, Anchored, Extracted, Next, pass = 2, ~lost
                 PROVE  DOMAIN dir' = DOMAIN dir
      BY DEF Inv
    <2>1. walk \in Walks /\ target \in Targets /\ DirOK /\ PassOK /\ (failed => main \in {"out", "exited"})
      BY DEF Extracted, DirOK, PassOK
    <2>2. CASE EnterTarget
      <3>1. /\ ~Single /\ Well /\ pos = 0 /\ main = "enter"
        BY <2>1, <2>2 DEF EnterTarget, Well, IInv, PlaceInWalk
      <3>2. cwd = From /\ TargetFrom(cwd) = From
        BY <2>1, <3>1, FromFacts DEF PassOK, Well
      <3>3. 1 \in 1..Len(walk) /\ walk[1].kind = "BEGIN" /\ Target(1) = From
        BY <2>1, <3>1, WalkFacts, FromFacts DEF Target
      <3>4. From \in DOMAIN dir
        BY <3>1, <3>3 DEF Extracted, MadeOK, Seen
      <3> QED BY <2>2, <3>2, <3>4 DEF EnterTarget
    <2>3. CASE ExtractDir
      <3>1. /\ main = "walk" /\ pos < Len(walk) /\ This.kind = "BEGIN" /\ Well
        BY <2>1, <2>3 DEF ExtractDir, More, Well
      <3>2. PlaceOf(This) = Target(pos + 1) /\ pos + 1 \in 1..Len(walk) /\ This = walk[pos + 1]
        BY <2>1, <3>1, ThisPlaced, WalkFacts DEF Well, This, IInv, PlaceInWalk
      <3>3. Target(pos + 1) \in DOMAIN dir
        BY <3>1, <3>2 DEF Extracted, MadeOK, Seen
      <3> QED BY <2>3, <3>2, <3>3 DEF ExtractDir, Exists
    <2>4. CASE UpdateMetadataDir
      BY <2>1, <2>4 DEF UpdateMetadataDir, MetadataSet, files, DirOK
    <2>5. ~ExtractOther /\ ~OpenTemp /\ ~OpenTempFails /\ ~PermitFails
      BY DEF ExtractOther, OpenTemp, OpenTempFails, PermitFails, IInv, PlaceInWalk
    <2>6. ASSUME NEW i \in DOMAIN job, Pool(i) PROVE FALSE
      BY <2>1, <2>6 DEF Pool, Finish, Post, Count, PassOK, Idle
    <2>7. CASE SetUp \/ ExtractSingle \/ Fails \/ CutShort \/ PassOver \/ SecondPass \/ Leave \/ Skip
               \/ ExtractFile \/ Permit
      BY <2>7 DEF SetUp, ExtractSingle, Fails, CutShort, PassOver, SecondPass, Leave, Skip,
                  ExtractFile, Permit, files
    <2> QED BY <2>2, <2>3, <2>4, <2>5, <2>6, <2>7 DEF Next, Main
  <1> QED BY <1>1, <1>2, <1>3, PTL DEF Spec, CreatesNoneLate

-----------------------------------------------------------------------------
(***************************************************************************)
(* FrontEnds.  A function is a script; a script is balanced when what it   *)
(* does not give back always is its result, and what a later step can fail *)
(* after is given back on an error.  Every script is, one by one; and of a *)
(* balanced script what is held is what its steps so far have acquired.    *)
(***************************************************************************)
EasyNames ==
    {"sqsh_easy_file_exists", "sqsh_easy_file_content", "sqsh_easy_file_size2",
     "sqsh_easy_file_size", "sqsh_easy_file_permission", "sqsh_easy_file_mtime2",
     "sqsh_easy_directory_list", "sqsh_easy_directory_list_path", "sqsh_easy_xattr_get",
     "sqsh_easy_xattr_keys", "sqsh_easy_tree_traversal"}
ToolNames == {"sqsh_cat", "sqsh_ls", "sqsh_xattr", "sqsh_stat", "sqsh_stat_image"}
HandlerNames == {"fs_access", "fs_getattr", "fs_readdir", "fs_open", "fs_read", "fs_release",
                 "fs_readlink", "fs_listxattr", "fs_getxattr"}
FnNames == EasyNames \cup ToolNames \cup HandlerNames

Kept == {"archive", "fh"}   \* what stays beyond a call

\* The compression options need not be there; they are always given back.
Uncounted == Kept \cup {"options"}

\* Every step acquires one of Resource, or only succeeds or fails.
StepNames == Resource \cup {"resolve", "size", "lookup", "type", "stream", "advance", "link", "fits"}
Failures == StepNames \cup {"none", "items", "collect"}

\* The n-th step, when it succeeds, acquires something that does not stay beyond the call.
Acquires(s, n) == s.steps[n] \in Resource \ Uncounted

\* What makes a script give back what it acquires: what is not given back always is the result;
\* what a step behind it can fail after is given back on an error.
Balanced(s) ==
    /\ Len(s.steps) \in Nat
    /\ \A n \in 1..Len(s.steps) :
         /\ s.steps[n] \in StepNames
         /\ s.steps[n] = "options" => "options" \in s.released
         /\ Acquires(s, n) => (s.steps[n] \in s.released <=> s.steps[n] # s.result)
         /\ Acquires(s, n) /\ (n < Len(s.steps) \/ s.items # "none") =>
                s.steps[n] \in s.released \cup s.undone
    /\ s.result \in {"none", "fh", "list"} \/ \E n \in 1..Len(s.steps) : Acquires(s, n) /\ s.steps[n] = s.result
    /\ s.result = "list" => s.items # "none"
    /\ "list" \notin s.released
    /\ s.success \in {"ok", "error"}

\* A collector's copy is none of the resources of its function.
CollectorOk(s) ==
    /\ s.result = "list" /\ "value" \notin s.released \cup s.undone
    /\ \A n \in 1..Len(s.steps) : s.steps[n] # "value"

LEMMA Names == DOMAIN Easy = EasyNames /\ DOMAIN Tools = ToolNames /\ DOMAIN Handlers = HandlerNames
  BY DEF Easy, Tools, Handlers, EasyNames, ToolNames, HandlerNames

LEMMA ScriptsAre ==
    /\ DOMAIN Scripts = FnNames
    /\ \A fn \in EasyNames : Scripts[fn] = Easy[fn]
    /\ \A fn \in ToolNames : Scripts[fn] = Tools[fn]
    /\ \A fn \in HandlerNames : Scripts[fn] = Handlers[fn]
  <1>1. \A fn \in ToolNames : fn \notin EasyNames
    BY DEF EasyNames, ToolNames
  <1>2. \A fn \in HandlerNames : fn \notin EasyNames /\ fn \notin ToolNames
    BY DEF EasyNames, ToolNames, HandlerNames
  <1> QED BY <1>1, <1>2, Names DEF Scripts, FnNames

EasyOk(s) == Balanced(s) /\ s.hides = {} /\ s.success = "ok"

LEMMA EasyBalanced ==
    /\ \A fn \in EasyNames : EasyOk(Scripts[fn])
    /\ \A fn \in EasyNames \ {"sqsh_easy_tree_traversal"} : Scripts[fn].skips = FALSE
  <1> USE DEF EasyOk, Balanced, Acquires, Uncounted, StepNames, Resource, Kept, Script
  <1>1. EasyOk(EasyExists) /\ EasyExists.skips = FALSE
    BY DEF EasyExists
  <1>2. EasyOk(EasyContent) /\ EasyContent.skips = FALSE
    BY DEF EasyContent
  <1>3. EasyOk(EasySize2) /\ EasySize2.skips = FALSE
    BY DEF EasySize2
  <1>4. EasyOk(EasySize) /\ EasySize.skips = FALSE
    BY DEF EasySize, EasySize2
  <1>5. EasyOk(EasyPermission) /\ EasyPermission.skips = FALSE
    BY DEF EasyPermission
  <1>6. EasyOk(EasyMtime2) /\ EasyMtime2.skips = FALSE
    BY DEF EasyMtime2
  <1>7. EasyOk(EasyList) /\ EasyList.skips = FALSE
    BY DEF EasyList
  <1>8. EasyOk(EasyListPath) /\ EasyListPath.skips = FALSE
    BY DEF EasyListPath
  <1>9. EasyOk(EasyXattrGet) /\ EasyXattrGet.skips = FALSE
    BY DEF EasyXattrGet
  <1>10. EasyOk(EasyXattrKeys) /\ EasyXattrKeys.skips = FALSE
    BY DEF EasyXattrKeys
  <1>11. EasyOk(EasyTraversal)
    BY DEF EasyTraversal
  <1> HIDE DEF EasyOk, Balanced, Acquires, Uncounted, StepNames, Resource, Kept, Script
  <1> QED BY <1>1, <1>2, <1>3, <1>4, <1>5, <1>6, <1>7, <1>8, <1>9, <1>10, <1>11, ScriptsAre
          DEF EasyNames, Easy

\* What stays with the kernel is no result of the easy API.
LEMMA EasyResults == \A fn \in EasyNames : Scripts[fn].result # "fh"
  <1> USE DEF Script
  <1>1. /\ EasyExists.result # "fh" /\ EasyContent.result # "fh" /\ EasySize2.result # "fh"
        /\ EasySize.result # "fh" /\ EasyPermission.result # "fh" /\ EasyMtime2.result # "fh"
    BY DEF EasyExists, EasyContent, EasySize2, EasySize, EasyPermission, EasyMtime2
  <1>2. /\ EasyList.result # "fh" /\ EasyListPath.result # "fh" /\ EasyXattrGet.result # "fh"
        /\ EasyXattrKeys.result # "fh" /\ EasyTraversal.result # "fh"
    BY DEF EasyList, EasyListPath, EasyXattrGet, EasyXattrKeys, EasyTraversal
  <1> HIDE DEF Script
  <1> QED BY <1>1, <1>2, ScriptsAre DEF EasyNames, Easy

LEMMA CollectorsOk == \A fn \in Collectors : fn \in EasyNames /\ CollectorOk(Scripts[fn])
  <1>1. CollectorOk(EasyXattrKeys)
    BY DEF CollectorOk, EasyXattrKeys, Script
  <1>2. CollectorOk(EasyTraversal)
    BY DEF CollectorOk, EasyTraversal, Script
  <1> QED BY <1>1, <1>2, ScriptsAre DEF Collectors, EasyNames, Easy

ToolOk(s) == Balanced(s) /\ s.result \in {"none", "fh"} /\ s.skips = FALSE

LEMMA ToolsBalanced ==
    /\ \A fn \in ToolNames : ToolOk(Scripts[fn]) /\ Scripts[fn].success = "ok"
    /\ \A fn \in ToolNames \ {"sqsh_ls"} : Scripts[fn].hides = {}
    /\ \A fn \in {"sqsh_stat", "sqsh_stat_image"} : Scripts[fn].soft = {}
  <1> USE DEF ToolOk, Balanced, Acquires, Uncounted, StepNames, Resource, Kept, Script
  <1>1. ToolOk(CatPath) /\ CatPath.success = "ok" /\ CatPath.hides = {}
    BY DEF CatPath
  <1>2. ToolOk(LsPath) /\ LsPath.success = "ok"
    BY DEF LsPath
  <1>3. ToolOk(FattrPath) /\ FattrPath.success = "ok" /\ FattrPath.hides = {}
    BY DEF FattrPath
  <1>4. ToolOk(StatFile) /\ StatFile.success = "ok" /\ StatFile.hides = {} /\ StatFile.soft = {}
    BY DEF StatFile
  <1>5. ToolOk(StatImage) /\ StatImage.success = "ok" /\ StatImage.hides = {} /\ StatImage.soft = {}
    BY DEF StatImage
  <1> HIDE DEF ToolOk, Balanced, Acquires, Uncounted, StepNames, Resource, Kept, Script
  <1> QED BY <1>1, <1>2, <1>3, <1>4, <1>5, ScriptsAre DEF ToolNames, Tools

LEMMA HandlersBalanced ==
    /\ \A fn \in HandlerNames : ToolOk(Scripts[fn])
    /\ \A fn \in HandlerNames \ {"fs_readdir"} : Scripts[fn].hides = {}
    /\ Scripts["fs_open"] = FsOpen
  <1> USE DEF ToolOk, Balanced, Acquires, Uncounted, StepNames, Resource, Kept, Script
  <1>1. ToolOk(FsAccess) /\ FsAccess.hides = {}
    BY DEF FsAccess
  <1>2. ToolOk(FsGetattr) /\ FsGetattr.hides = {}
    BY DEF FsGetattr
  <1>3. ToolOk(FsReaddir)
    BY DEF FsReaddir
  <1>4. ToolOk(FsOpen) /\ FsOpen.hides = {}
    BY DEF FsOpen
  <1>5. ToolOk(FsRead) /\ FsRead.hides = {}
    BY DEF FsRead
  <1>6. ToolOk(FsRelease) /\ FsRelease.hides = {}
    BY DEF FsRelease
  <1>7. ToolOk(FsReadlink) /\ FsReadlink.hides = {}
    BY DEF FsReadlink
  <1>8. ToolOk(FsListxattr) /\ FsListxattr.hides = {}
    BY DEF FsListxattr
  <1>9. ToolOk(FsGetxattr) /\ FsGetxattr.hides = {}
    BY DEF FsGetxattr
  <1> HIDE DEF ToolOk, Balanced, Acquires, Uncounted, StepNames, Resource, Kept, Script
  <1> QED BY <1>1, <1>2, <1>3, <1>4, <1>5, <1>6, <1>7, <1>8, <1>9, ScriptsAre DEF HandlerNames, Handlers

-----------------------------------------------------------------------------
Told3 == {"ok", "failure", "error"}
ToolType == [name : ToolNames \cup {"none", "sqshfs2"}, left : Nat, rv : Told3,
             failed : BOOLEAN, last : BOOLEAN]
CallType == [fn : FnNames, at : Nat, got : Nat, total : Nat, failed : Failures, lost : BOOLEAN]
AnswerType == [fn : FnNames \cup {"none"}, told : Told3, complete : BOOLEAN, failed : Failures,
               result : Resource \cup {"none", "list"}]

FrontTypeOK ==
    /\ tool \in ToolType /\ exit \in ToolType
    /\ call = NoCall \/ call \in CallType
    /\ answer \in AnswerType

\* How far a function can have come, and where it can have failed.
FunctionOK == call # NoCall =>
    /\ call.at \in 0..Len(Body.steps) /\ call.got \in 0..call.total
    /\ call.total > 0 => Body.items # "none"
    /\ call.at < Len(Body.steps) => call.got = 0
    /\ call.failed \notin {"none", "items", "collect"} => call.at < Len(Body.steps)
    /\ call.failed = "items" => call.total > 0
    /\ call.failed = "collect" => Body.result = "list" /\ call.got > 0
    /\ call.lost => Body.skips

\* What a function holds follows from how far it has come.
Copied == call.fn \in Collectors /\ call.got > 0 /\ call.failed # "items"
Acquired == {Body.steps[n] : n \in {m \in 1..call.at : Acquires(Body, m)}}
HeldOK == call # NoCall =>
    /\ held \ Uncounted = Acquired \cup (IF Copied THEN {"value"} ELSE {})
    /\ "options" \in held => "options" \in Body.released
    /\ call.fn = "fs_open" /\ call.at > 0 => "fh" \in held

\* Between two calls a program holds nothing.
AtRest == call = NoCall /\ tool.name # "none" => held \subseteq Kept

\* Whose function it is.
CallerOK == call # NoCall =>
    /\ tool.name = "none" => call.fn \in EasyNames
    /\ tool.name \in ToolNames => call.fn = tool.name
    /\ tool.name = "sqshfs2" => call.fn \in HandlerNames

\* What rv says of the paths so far.
Stats == {"sqsh_stat", "sqsh_stat_image"}
RvOK ==
    /\ tool.rv # "ok" => tool.failed
    /\ tool.name \in Stats =>
         /\ tool.left \in 0..1
         /\ tool.left = 1 \/ call # NoCall => tool.rv = "ok" /\ ~tool.failed
         /\ tool.left = 1 => call = NoCall
         /\ call = NoCall => (tool.rv = "ok" <=> ~tool.failed)
    /\ tool.name \in {"sqsh_cat", "sqsh_xattr"} /\ call = NoCall => (tool.rv = "ok" <=> ~tool.last)

FrontInv ==
    FrontTypeOK /\ FunctionOK /\ HeldOK /\ AtRest /\ CallerOK /\ RvOK /\ KeepsOnlyResult /\ TellsFailure

-----------------------------------------------------------------------------
LEMMA BalancedAll == \A fn \in FnNames : Balanced(Scripts[fn])
  BY EasyBalanced, ToolsBalanced, HandlersBalanced DEF FnNames, ToolOk, EasyOk

LEMMA NoCallIsNone == NoCall \notin CallType
  BY DEF NoCall, CallType, Failures, FnNames, EasyNames, ToolNames, HandlerNames

LEMMA CallIs ==
    ASSUME FrontInv, call # NoCall
    PROVE  call \in CallType /\ call.fn \in FnNames /\ Balanced(Body)
  BY BalancedAll DEF FrontInv, FrontTypeOK, CallType, Body

LEMMA FrontInitHolds == FrontInit => FrontInv
  <1> SUFFICES ASSUME FrontInit PROVE FrontInv
    OBVIOUS
  <1> USE DEF FrontInit
  <1>1. FrontTypeOK
    BY DEF FrontTypeOK, ToolType, AnswerType, NoTool, NoAnswer, Told3, Failures
  <1>2. FunctionOK /\ HeldOK /\ CallerOK
    BY DEF FunctionOK, HeldOK, CallerOK
  <1>3. AtRest /\ KeepsOnlyResult
    BY Names DEF AtRest, KeepsOnlyResult, NoAnswer, NoTool, EasyNames
  <1>4. RvOK /\ TellsFailure
    BY DEF RvOK, Stats, NoTool, NoAnswer, TellsFailure
  <1> QED BY <1>1, <1>2, <1>3, <1>4 DEF FrontInv

\* A function begins with nothing in its hands.
LEMMA FunctionBegins ==
    ASSUME FrontInv, NEW fn \in FnNames, NEW n \in 0..MaxItems, Begin(fn, n), held \subseteq Kept,
           UNCHANGED <<held, answer, exit>>, tool' \in ToolType, CallerOK', RvOK'
    PROVE  FrontInv'
  <1>1. /\ call' = [NoCall EXCEPT !.fn = fn, !.total = IF Scripts[fn].items = "none" THEN 0 ELSE n]
        /\ call'.fn = fn /\ call'.at = 0 /\ call'.got = 0 /\ call'.failed = "none"
        /\ call'.lost = FALSE
        /\ call'.total = (IF Scripts[fn].items = "none" THEN 0 ELSE n)
        /\ call'.total \in Nat
    BY MaxItemsAssumption DEF Begin, NoCall
  <1>2. call' \in CallType /\ call' # NoCall
    BY <1>1, MaxItemsAssumption, NoCallIsNone DEF NoCall, CallType, Failures
  <1>3. FrontTypeOK'
    BY <1>2 DEF FrontInv, FrontTypeOK
  <1>4. FunctionOK'
    BY <1>1, BalancedAll DEF FunctionOK, Body, Balanced
  <1>5. Acquired' = {} /\ ~Copied'
    BY <1>1 DEF Acquired, Copied
  <1>6. HeldOK' /\ AtRest'
    BY <1>1, <1>2, <1>5 DEF HeldOK, AtRest, Kept, Uncounted
  <1> QED BY <1>2, <1>3, <1>4, <1>6 DEF FrontInv, KeepsOnlyResult, TellsFailure

\* A step inside a function: only the call and what is held change.
LEMMA FunctionGoesOn ==
    ASSUME FrontInv, call # NoCall, call' \in CallType, call'.fn = call.fn,
           UNCHANGED <<tool, answer, exit>>, FunctionOK', HeldOK'
    PROVE  FrontInv'
  <1>1. call' # NoCall
    BY NoCallIsNone
  <1>2. FrontTypeOK' /\ AtRest'
    BY <1>1 DEF FrontInv, FrontTypeOK, AtRest
  <1>3. CallerOK' /\ RvOK' /\ KeepsOnlyResult' /\ TellsFailure'
    BY <1>1 DEF FrontInv, CallerOK, RvOK, KeepsOnlyResult, TellsFailure
  <1> QED BY <1>2, <1>3 DEF FrontInv

LEMMA CallFacts ==
    ASSUME FrontInv, call # NoCall
    PROVE  /\ call \in CallType /\ Balanced(Body) /\ Len(Body.steps) \in Nat
           /\ call.at \in 0..Len(Body.steps) /\ call.got \in 0..call.total /\ call.total \in Nat
           /\ call.failed \in Failures
  BY CallIs DEF FrontInv, FunctionOK, Balanced, CallType

LEMMA StepStep ==
    ASSUME FrontInv, Step
    PROVE  FrontInv'
  <1> DEFINE n == call.at + 1
  <1>1. call # NoCall /\ call.failed = "none" /\ n \in 1..Len(Body.steps)
    BY CallFacts DEF Step, InCall
  <1>2. /\ call' = [call EXCEPT !.at = n] /\ UNCHANGED <<tool, answer, exit>>
        /\ held' = held \cup ({Body.steps[n]} \cap Resource)
    BY DEF Step
  <1>3. /\ call' \in CallType /\ call'.fn = call.fn /\ call'.at = n /\ call'.got = call.got
        /\ call'.total = call.total /\ call'.lost = call.lost /\ call'.failed = "none" /\ Body' = Body
    BY <1>1, <1>2, CallFacts DEF CallType, Body
  <1>4. FunctionOK'
    BY <1>1, <1>3, CallFacts DEF FunctionOK, FrontInv
  <1>5. call.got = 0 /\ ~Copied /\ ~Copied'
    BY <1>1, <1>3 DEF FrontInv, FunctionOK, Copied
  <1>6. Acquired' = Acquired \cup (IF Acquires(Body, n) THEN {Body.steps[n]} ELSE {})
    <2>1. \A m \in 1..n : m \in 1..call.at \/ m = n
      BY <1>1, CallFacts
    <2>2. 1..call.at \subseteq 1..n
      BY <1>1, CallFacts
    <2> QED BY <1>1, <1>3, <2>1, <2>2 DEF Acquired, Acquires
  <1>7. HeldOK'
    <2>1. held \ Uncounted = Acquired /\ ("options" \in held => "options" \in Body.released)
      BY <1>1, <1>5 DEF FrontInv, HeldOK
    <2>2. Body.steps[n] \in Resource \ Uncounted <=> Acquires(Body, n)
      BY DEF Acquires
    <2>3. held' \ Uncounted = Acquired'
      BY <1>2, <1>6, <2>1, <2>2
    <2>4. "options" \in held' => "options" \in Body.released
      BY <1>1, <1>2, <2>1, CallFacts DEF Balanced
    <2>5. call.fn = "fs_open" => "fh" \in held'
      <3>1. call.fn = "fs_open" => Body = FsOpen
        BY HandlersBalanced DEF Body
      <3>2. Len(FsOpen.steps) = 1 /\ FsOpen.steps[1] = "fh"
        BY DEF FsOpen, Script
      <3>3. ASSUME call.fn = "fs_open" PROVE n = 1
        <4>1. Len(Body.steps) = 1
          BY <3>1, <3>2, <3>3
        <4> QED BY <1>1, <4>1
      <3> QED BY <1>2, <3>1, <3>2, <3>3 DEF Resource
    <2> QED BY <1>3, <1>5, <2>3, <2>4, <2>5 DEF HeldOK
  <1> QED BY <1>1, <1>2, <1>3, <1>4, <1>7, FunctionGoesOn

\* What a step that fails, or finds that a file is absent, leaves alone.
LEMMA StepStepFails ==
    ASSUME FrontInv, StepFails
    PROVE  FrontInv'
  <1> DEFINE n == call.at + 1
  <1>1. call # NoCall /\ call.failed = "none" /\ n \in 1..Len(Body.steps)
    BY CallFacts DEF StepFails, InCall
  <1>2. Body.steps[n] \in StepNames /\ Body.steps[n] \notin {"none", "items", "collect"}
    BY <1>1, CallFacts DEF Balanced, StepNames, Resource
  <1>3. /\ call' \in CallType /\ call'.fn = call.fn /\ call'.at = call.at /\ call'.got = call.got
        /\ call'.total = call.total /\ call'.lost = call.lost /\ call'.failed = Body.steps[n] /\ Body' = Body
    BY <1>1, <1>2, CallFacts DEF StepFails, CallType, Body, Failures
  <1>4. FunctionOK'
    BY <1>1, <1>2, <1>3, CallFacts DEF FunctionOK, FrontInv
  <1>5. call.got = 0 /\ ~Copied /\ ~Copied'
    BY <1>1, <1>3, CallFacts DEF FrontInv, FunctionOK, Copied
  <1>6. HeldOK'
    BY <1>1, <1>3, <1>5 DEF FrontInv, HeldOK, Acquired, StepFails
  <1> QED BY <1>1, <1>3, <1>4, <1>6, FunctionGoesOn DEF StepFails

LEMMA StepStepAbsent ==
    ASSUME FrontInv, StepAbsent
    PROVE  FrontInv'
  <1> DEFINE n == call.at + 1
  <1>1. call # NoCall /\ call.failed = "none" /\ n \in 1..Len(Body.steps) /\ Body.steps[n] \in Absent
    BY CallFacts DEF StepAbsent, InCall
  <1>3. /\ call' \in CallType /\ call'.fn = call.fn /\ call'.at = n /\ call'.got = call.got
        /\ call'.total = call.total /\ call'.lost = call.lost /\ call'.failed = "none" /\ Body' = Body
    BY <1>1, CallFacts DEF StepAbsent, CallType, Body
  <1>4. FunctionOK'
    BY <1>1, <1>3, CallFacts DEF FunctionOK, FrontInv
  <1>5. call.got = 0 /\ ~Copied /\ ~Copied'
    BY <1>1, <1>3, CallFacts DEF FrontInv, FunctionOK, Copied
  <1>6. Acquired' = Acquired
    <2>1. \A m \in 1..n : m \in 1..call.at \/ m = n
      BY <1>1, CallFacts
    <2>2. 1..call.at \subseteq 1..n
      BY <1>1, CallFacts
    <2>3. ~Acquires(Body, n)
      BY <1>1 DEF Acquires, Absent, Resource, Uncounted
    <2> QED BY <1>1, <1>3, <2>1, <2>2, <2>3 DEF Acquired, Acquires
  <1>7. call.fn # "fs_open"
    <2>1. call.fn = "fs_open" => Body = FsOpen
      BY HandlersBalanced DEF Body
    <2>2. Len(FsOpen.steps) = 1 /\ FsOpen.steps[1] = "fh"
      BY DEF FsOpen, Script
    <2> QED BY <1>1, <2>1, <2>2, CallFacts DEF Absent
  <1>8. HeldOK'
    BY <1>1, <1>3, <1>5, <1>6, <1>7 DEF FrontInv, HeldOK, StepAbsent
  <1> QED BY <1>1, <1>3, <1>4, <1>8, FunctionGoesOn DEF StepAbsent

LEMMA ItemFacts ==
    ASSUME FrontInv, AtItems
    PROVE  /\ call # NoCall /\ call.failed = "none" /\ call.at = Len(Body.steps) /\ call.got < call.total
           /\ call \in CallType /\ call.got \in Nat /\ call.total \in Nat /\ Body.items # "none"
           /\ held \ Uncounted = Acquired \cup (IF Copied THEN {"value"} ELSE {})
           /\ "options" \in held => "options" \in Body.released
           /\ call.fn = "fs_open" /\ call.at > 0 => "fh" \in held
           /\ call.fn \in Collectors => "value" \notin Acquired
  <1>1. call # NoCall /\ call.failed = "none" /\ call.at = Len(Body.steps) /\ call.got < call.total
    BY DEF AtItems, InCall
  <1>2. call \in CallType /\ call.got \in Nat /\ call.total \in Nat /\ Body.items # "none"
    BY <1>1, CallFacts DEF FrontInv, FunctionOK
  <1>3. call.fn \in Collectors => "value" \notin Acquired
    BY <1>1, CollectorsOk DEF CollectorOk, Acquired, Body
  <1> QED BY <1>1, <1>2, <1>3 DEF FrontInv, HeldOK

LEMMA StepItem ==
    ASSUME FrontInv, Item
    PROVE  FrontInv'
  <1>1. AtItems
    BY DEF Item
  <1>2. /\ call' \in CallType /\ call'.fn = call.fn /\ call'.at = call.at /\ call'.got = call.got + 1
        /\ call'.total = call.total /\ call'.lost = call.lost /\ call'.failed = "none" /\ Body' = Body
    BY <1>1, ItemFacts DEF Item, CallType, Body
  <1>3. FunctionOK'
    BY <1>1, <1>2, ItemFacts, CallFacts DEF FunctionOK, FrontInv
  <1>4. Acquired' = Acquired /\ (Copied' <=> call.fn \in Collectors)
    BY <1>1, <1>2, ItemFacts DEF Acquired, Copied
  <1>5. HeldOK'
    <2>1. "value" \notin Uncounted
      BY DEF Kept, Uncounted
    <2> QED BY <1>1, <1>2, <1>4, <2>1, ItemFacts DEF Item, HeldOK, Copied
  <1> QED BY <1>1, <1>2, <1>3, <1>5, ItemFacts, FunctionGoesOn DEF Item

LEMMA StepItemFails ==
    ASSUME FrontInv, ItemFails
    PROVE  FrontInv'
  <1>1. AtItems
    BY DEF ItemFails
  <1>2. /\ call' \in CallType /\ call'.fn = call.fn /\ call'.at = call.at /\ call'.got = call.got
        /\ call'.total = call.total /\ call'.lost = call.lost /\ call'.failed = "items" /\ Body' = Body
    BY <1>1, ItemFacts DEF ItemFails, CallType, Body, Failures
  <1>3. FunctionOK'
    BY <1>1, <1>2, ItemFacts, CallFacts DEF FunctionOK, FrontInv
  <1>4. Acquired' = Acquired /\ ~Copied'
    BY <1>1, <1>2, ItemFacts DEF Acquired, Copied
  <1>5. HeldOK'
    <2>1. "fs_open" \notin Collectors
      BY DEF Collectors
    <2> QED BY <1>1, <1>2, <1>4, <2>1, ItemFacts DEF ItemFails, HeldOK, Copied
  <1> QED BY <1>1, <1>2, <1>3, <1>5, ItemFacts, FunctionGoesOn DEF ItemFails

LEMMA StepCollectFails ==
    ASSUME FrontInv, CollectFails
    PROVE  FrontInv'
  <1>1. call # NoCall /\ call.failed = "none" /\ Body.result = "list" /\ call.got > 0
    BY DEF CollectFails, InCall
  <1>2. /\ call' \in CallType /\ call'.fn = call.fn /\ call'.at = call.at /\ call'.got = call.got
        /\ call'.total = call.total /\ call'.lost = call.lost /\ call'.failed = "collect" /\ Body' = Body
    BY <1>1, CallFacts DEF CollectFails, CallType, Body, Failures
  <1>3. FunctionOK'
    BY <1>1, <1>2, CallFacts DEF FunctionOK, FrontInv
  <1>4. Acquired' = Acquired /\ (Copied' <=> Copied)
    BY <1>1, <1>2 DEF Acquired, Copied
  <1>5. HeldOK'
    BY <1>1, <1>2, <1>4 DEF CollectFails, HeldOK, FrontInv
  <1> QED BY <1>1, <1>2, <1>3, <1>5, FunctionGoesOn DEF CollectFails

LEMMA StepListingLost ==
    ASSUME FrontInv, ListingLost
    PROVE  FrontInv'
  <1>1. call # NoCall /\ call.failed = "none" /\ Body.skips
    BY DEF ListingLost, InCall
  <1>2. /\ call' \in CallType /\ call'.fn = call.fn /\ call'.at = call.at /\ call'.got = call.got
        /\ call'.total = call.total /\ call'.failed = call.failed /\ Body' = Body
    BY <1>1, CallFacts DEF ListingLost, CallType, Body
  <1>3. FunctionOK'
    BY <1>1, <1>2, CallFacts DEF FunctionOK, FrontInv
  <1>4. Acquired' = Acquired /\ (Copied' <=> Copied)
    BY <1>1, <1>2 DEF Acquired, Copied
  <1>5. HeldOK'
    BY <1>1, <1>2, <1>4 DEF ListingLost, HeldOK, FrontInv
  <1> QED BY <1>1, <1>2, <1>3, <1>5, FunctionGoesOn DEF ListingLost

\* A function that succeeded keeps its result, and nothing else.
LEMMA SuccessKeeps ==
    ASSUME FrontInv, Return, call.failed = "none"
    PROVE  held' \ Kept = {Body.result} \ {"none", "fh"}
  <1> DEFINE collected == IF Body.result = "list" THEN {"list"} ELSE {}
             freed == (IF call.fn \in Collectors THEN {"value"} ELSE {}) \cup Body.released
  <1>1. call # NoCall /\ call.at = Len(Body.steps)
    BY DEF Return, AtOut
  <1>2. held' = (held \cup collected) \ freed
    BY DEF Return
  <1>3. Balanced(Body) /\ call.fn \in FnNames /\ Len(Body.steps) \in Nat
    BY <1>1, CallIs DEF Balanced
  <1>4. /\ held \ Uncounted = Acquired \cup (IF Copied THEN {"value"} ELSE {})
        /\ "options" \in held => "options" \in Body.released
    BY <1>1 DEF FrontInv, HeldOK
  <1>9. held' \ Kept = held' \ Uncounted
    BY <1>2, <1>4 DEF Kept, Uncounted
  <1>5. Acquired \ Body.released = {Body.result} \ {"none", "fh", "list"}
    <2>1. ASSUME NEW x \in Acquired \ Body.released
          PROVE  x = Body.result /\ x \notin {"none", "fh", "list"}
      <3>1. PICK n \in 1..Len(Body.steps) : Acquires(Body, n) /\ x = Body.steps[n]
        BY <1>1 DEF Acquired
      <3> QED BY <1>3, <2>1, <3>1 DEF Balanced, Acquires, Resource, Kept, Uncounted
    <2>2. ASSUME Body.result \notin {"none", "fh", "list"}
          PROVE  Body.result \in Acquired \ Body.released
      <3>1. PICK n \in 1..Len(Body.steps) : Acquires(Body, n) /\ Body.steps[n] = Body.result
        BY <1>3, <2>2 DEF Balanced
      <3> QED BY <1>1, <1>3, <3>1 DEF Balanced, Acquired
    <2> QED BY <2>1, <2>2
  <1>6. CASE call.fn \in Collectors
    <2>1. Body.result = "list" /\ "value" \notin Acquired
      BY <1>1, <1>6, CollectorsOk DEF CollectorOk, Acquired, Body
    <2>2. Acquired \ Body.released = {}
      BY <1>5, <2>1
    <2>3. "list" \notin freed /\ "list" \notin Uncounted
      BY <1>3, <1>6 DEF Balanced, Kept, Uncounted
    <2> QED BY <1>2, <1>4, <1>9, <1>6, <2>1, <2>2, <2>3
  <1>7. CASE call.fn \notin Collectors
    <2>1. ~Copied /\ freed = Body.released
      BY <1>7 DEF Copied
    <2>2. "list" \notin freed /\ "list" \notin Uncounted
      BY <1>3, <1>7 DEF Balanced, Kept, Uncounted
    <2> QED BY <1>2, <1>4, <1>9, <1>5, <2>1, <2>2
  <1> QED BY <1>6, <1>7

\* A function that failed keeps nothing, but for the copy that a collector could not hand on.
LEMMA FailureKeeps ==
    ASSUME FrontInv, Return, call.failed # "none"
    PROVE  held' \ Kept =
               IF call.failed = "collect" /\ call.fn \in Collectors THEN {"value"} ELSE {}
  <1> DEFINE freed == Body.released \cup Body.undone
  <1>1. call # NoCall
    BY DEF Return
  <1>2. held' = held \ freed
    BY DEF Return
  <1>3. Balanced(Body) /\ call.fn \in FnNames /\ Len(Body.steps) \in Nat
    BY <1>1, CallIs DEF Balanced
  <1>4. /\ held \ Uncounted = Acquired \cup (IF Copied THEN {"value"} ELSE {})
        /\ "options" \in held => "options" \in Body.released
    BY <1>1 DEF FrontInv, HeldOK
  <1>9. held' \ Kept = held' \ Uncounted
    BY <1>2, <1>4 DEF Kept, Uncounted
  <1>5. call.at < Len(Body.steps) \/ Body.items # "none"
    BY <1>1, <1>3 DEF FrontInv, FunctionOK, Balanced
  <1>6. Acquired \subseteq freed
    <2> SUFFICES ASSUME NEW n \in 1..call.at, Acquires(Body, n) PROVE Body.steps[n] \in freed
      BY DEF Acquired
    <2>1. n \in 1..Len(Body.steps) /\ (n < Len(Body.steps) \/ Body.items # "none")
      BY <1>1, <1>3, <1>5, CallFacts
    <2> QED BY <1>3, <2>1 DEF Balanced
  <1>7. Copied <=> call.failed = "collect" /\ call.fn \in Collectors
    BY <1>1, CallFacts DEF FrontInv, FunctionOK, Copied
  <1>8. call.fn \in Collectors => "value" \notin freed
    BY CollectorsOk DEF CollectorOk, Body
  <1> QED BY <1>2, <1>4, <1>9, <1>6, <1>7, <1>8 DEF Copied

\* What is told, and of whom it says that nothing failed.
LEMMA ToldFacts ==
    ASSUME FrontInv, call # NoCall
    PROVE  /\ Told \in Told3
           /\ call.fn \notin {"sqsh_ls", "fs_readdir"} /\ Told = "ok" => call.failed = "none"
           /\ call.fn \in ToolNames \cup EasyNames \cup {"fs_open"} /\ call.failed = "none" => Told = "ok"
           /\ call.fn \in Stats => Told \in {"ok", "error"}
           /\ call.lost => call.fn = "sqsh_easy_tree_traversal"
  <1>1. Balanced(Body) /\ call.fn \in FnNames
    BY CallIs
  <1>2. Told \in Told3
    BY <1>1 DEF Told, Told3, Balanced
  <1>3. call.fn \notin {"sqsh_ls", "fs_readdir"} => Body.hides = {}
    BY <1>1, EasyBalanced, ToolsBalanced, HandlersBalanced DEF FnNames, Body, EasyOk
  <1>4. call.fn \in ToolNames \cup EasyNames \cup {"fs_open"} => Body.success = "ok"
    BY EasyBalanced, ToolsBalanced, HandlersBalanced DEF Body, EasyOk, FsOpen, Script
  <1>5. call.fn \in Stats => Body.soft = {} /\ Body.hides = {}
    BY ToolsBalanced DEF Body, Stats, ToolNames
  <1>6. call.failed # "none" => (Told = "ok" => call.failed \in Body.hides)
    BY DEF Told
  <1>7. call.fn \in Stats => Told \in {"ok", "error"}
    BY <1>1, <1>5 DEF Told, Balanced
  <1>8. call.lost => call.fn = "sqsh_easy_tree_traversal"
    <2>1. call.lost => Body.skips
      BY DEF FrontInv, FunctionOK
    <2>2. call.fn # "sqsh_easy_tree_traversal" => Body.skips = FALSE
      BY <1>1, EasyBalanced, ToolsBalanced, HandlersBalanced DEF FnNames, Body, ToolOk
    <2> QED BY <2>1, <2>2
  <1> QED BY <1>2, <1>3, <1>4, <1>6, <1>7, <1>8 DEF Told

\* The result is in the caller's hands when nothing failed, and only then.
LEMMA ResultHandedOut ==
    ASSUME FrontInv, Return
    PROVE  /\ call.failed = "none" /\ call.fn \in EasyNames \cup {"fs_open"} =>
                Body.result \in held' \cup {"none"}
           /\ call.failed # "none" /\ call.fn \in EasyNames \cup {"fs_open"} =>
                Body.result \notin held' \/ Body.result = "none"
  <1>1. call # NoCall /\ Balanced(Body)
    BY CallIs DEF Return
  <1>2. CASE call.fn = "fs_open"
    <2>1. Body = FsOpen
      BY <1>2, HandlersBalanced DEF Body
    <2>2. /\ Len(FsOpen.steps) = 1 /\ FsOpen.result = "fh" /\ FsOpen.released = {}
          /\ FsOpen.undone = {"fh"}
      BY DEF FsOpen, Script
    <2>3. "fs_open" \notin Collectors
      BY DEF Collectors
    <2>4. call.failed = "none" => "fh" \in held
      BY <1>1, <1>2, <2>1, <2>2 DEF FrontInv, HeldOK, Return, AtOut
    <2> QED BY <1>2, <2>1, <2>2, <2>3, <2>4 DEF Return
  <1>3. CASE call.fn \in EasyNames
    <2>1. Body.result # "fh"
      BY <1>3, EasyResults DEF Body
    <2>2. call.failed = "none" => held' \ Kept = {Body.result} \ {"none", "fh"}
      BY SuccessKeeps
    <2>3. call.failed # "none" => held' \ Kept \subseteq {"value"}
      BY FailureKeeps
    <2>4. call.failed # "none" /\ call.fn \notin Collectors => held' \ Kept = {}
      BY FailureKeeps
    <2>5. call.fn \in Collectors => Body.result = "list"
      BY CollectorsOk DEF CollectorOk, Body
    <2>6. Body.result \notin Kept
      BY <1>1, <2>1 DEF Balanced, Acquires, Uncounted, Kept
    <2> QED BY <2>1, <2>2, <2>3, <2>4, <2>5, <2>6
  <1> QED BY <1>2, <1>3

LEMMA StepReturn ==
    ASSUME FrontInv, Return
    PROVE  FrontInv'
  <1>1. call # NoCall /\ call' = NoCall /\ exit' = exit
    BY DEF Return
  <1>2. /\ answer' = [fn |-> call.fn, told |-> Told, complete |-> (call.failed = "none" /\ ~call.lost),
                      failed |-> call.failed,
                      result |-> IF Body.result \in held' THEN Body.result ELSE "none"]
        /\ tool' = IF tool.name \in ToolNames
                   THEN [tool EXCEPT !.rv = Told, !.failed = @ \/ call.failed # "none",
                                     !.last = (call.failed # "none")] ELSE tool
    BY Names DEF Return
  <1>3. Body.result \in Resource \cup {"none", "list"}
    <2>1. Balanced(Body)
      BY <1>1, CallIs
    <2>2. ASSUME NEW n \in 1..Len(Body.steps), Acquires(Body, n), Body.steps[n] = Body.result
          PROVE  Body.result \in Resource
      BY <2>2 DEF Acquires
    <2>3. Body.result \in {"none", "fh", "list"} => Body.result \in Resource \cup {"none", "list"}
      BY DEF Resource
    <2> QED BY <2>1, <2>2, <2>3 DEF Balanced
  <1>4. FrontTypeOK'
    <2>1. call \in CallType /\ tool \in ToolType /\ Told \in Told3
      BY <1>1, CallIs, ToldFacts DEF FrontInv, FrontTypeOK
    <2>2. tool' \in ToolType
      BY <1>2, <2>1 DEF ToolType
    <2>3. answer' \in AnswerType
      BY <1>2, <1>3, <2>1 DEF AnswerType, CallType
    <2> QED BY <1>1, <2>2, <2>3 DEF FrontInv, FrontTypeOK
  <1>5. FunctionOK' /\ HeldOK' /\ CallerOK'
    BY <1>1 DEF FunctionOK, HeldOK, CallerOK
  <1>6. KeepsOnlyResult'
    <2>2. /\ answer'.fn = call.fn /\ answer'.failed = call.failed /\ answer'.told = Told
          /\ answer'.result = IF Body.result \in held' THEN Body.result ELSE "none"
      BY <1>2
    <2>3. held' \ Kept = ({answer'.result} \ {"none", "fh"})
              \cup (IF call.failed = "collect" /\ call.fn \in Collectors THEN {"value"} ELSE {})
      <3>1. CASE call.failed = "none"
        <4>1. held' \ Kept = {Body.result} \ {"none", "fh"}
          BY <3>1, SuccessKeeps
        <4> QED BY <2>2, <3>1, <4>1
      <3>2. CASE call.failed # "none"
        <4>1. held' \ Kept = IF call.failed = "collect" /\ call.fn \in Collectors THEN {"value"} ELSE {}
          BY <3>2, FailureKeeps
        <4>2. call.fn \in Collectors => Body.result # "value"
          BY CollectorsOk DEF CollectorOk, Body
        <4>3. answer'.result \in {"none", "fh"} \/ answer'.result \in held' \ Kept
          BY <1>3, <2>2 DEF Kept, Resource
        <4> QED BY <2>2, <4>1, <4>2, <4>3
      <3> QED BY <3>1, <3>2
    <2>4. call.fn \in EasyNames \cup {"fs_open"} =>
            answer'.result = IF Told = "ok" THEN Body.result ELSE "none"
      <3>1. call.fn \in EasyNames \cup {"fs_open"} => call.fn \notin {"sqsh_ls", "fs_readdir"}
        BY DEF EasyNames
      <3> QED BY <1>1, <2>2, <3>1, ToldFacts, ResultHandedOut
    <2> QED BY <1>1, <2>2, <2>3, <2>4, Names DEF KeepsOnlyResult, Kept, Body
  <1>7. tool'.name # "none" => held' \subseteq Kept
    <2> SUFFICES ASSUME tool'.name # "none" PROVE held' \subseteq Kept
      OBVIOUS
    <2>1. tool \in ToolType /\ tool.name # "none"
      BY <1>2 DEF FrontInv, FrontTypeOK, ToolType
    <2>2. call.fn \in ToolNames \cup HandlerNames
      BY <1>1, <2>1 DEF FrontInv, CallerOK, ToolType
    <2>3. call.fn \notin Collectors /\ Body.result \in {"none", "fh"}
      BY <2>2, ToolsBalanced, HandlersBalanced
         DEF ToolOk, Body, Collectors, ToolNames, HandlerNames
    <2> QED BY <2>3, SuccessKeeps, FailureKeeps
  <1>8. RvOK'
    <2>1. tool \in ToolType /\ (tool.name \in ToolNames => call.fn = tool.name)
      BY <1>1 DEF FrontInv, FrontTypeOK, CallerOK
    <2>2. CASE tool.name \in ToolNames
      <3>1. /\ tool'.name = tool.name /\ tool'.left = tool.left /\ tool'.rv = Told
            /\ tool'.failed = (tool.failed \/ call.failed # "none")
            /\ tool'.last = (call.failed # "none")
        BY <1>2, <2>1, <2>2 DEF ToolType
      <3>2. Told # "ok" => call.failed # "none"
        BY <1>1, <2>1, <2>2, ToldFacts
      <3>3. tool.name \in Stats \cup {"sqsh_cat", "sqsh_xattr"} => (Told = "ok" <=> call.failed = "none")
        BY <1>1, <2>1, <2>2, ToldFacts DEF Stats
      <3> QED BY <1>1, <3>1, <3>2, <3>3 DEF FrontInv, RvOK
    <2>3. CASE tool.name \notin ToolNames
      BY <1>1, <1>2, <2>3 DEF FrontInv, RvOK, ToolNames, Stats
    <2> QED BY <2>2, <2>3
  <1>10. TellsFailure'
    BY <1>1, <1>2, ToldFacts DEF FrontInv, TellsFailure
  <1> QED BY <1>1, <1>4, <1>5, <1>6, <1>7, <1>8, <1>10 DEF FrontInv, AtRest

-----------------------------------------------------------------------------
\* A step after which there is no call.
LEMMA NoCallStep ==
    ASSUME FrontInv, call' = NoCall, tool' \in ToolType, exit' \in ToolType,
           answer' \in {answer, NoAnswer}, KeepsOnlyResult', tool'.name # "none" => held' \subseteq Kept,
           RvOK', exit'.name \in Stats => (exit'.rv = "ok" <=> ~exit'.failed),
           exit'.name \in {"sqsh_cat", "sqsh_xattr"} => (exit'.rv = "ok" <=> ~exit'.last),
           exit'.rv # "ok" => exit'.failed
    PROVE  FrontInv'
  <1>1. FrontTypeOK'
    <2>1. answer \in AnswerType /\ NoAnswer \in AnswerType
      BY DEF FrontInv, FrontTypeOK, AnswerType, NoAnswer, Told3, Failures
    <2> QED BY <2>1 DEF FrontTypeOK
  <1>2. FunctionOK' /\ HeldOK' /\ CallerOK' /\ AtRest'
    BY DEF FunctionOK, HeldOK, CallerOK, AtRest
  <1>3. TellsFailure'
    BY DEF FrontInv, TellsFailure, NoAnswer, Stats
  <1> QED BY <1>1, <1>2, <1>3 DEF FrontInv

LEMMA ExitFacts ==
    ASSUME FrontInv
    PROVE  /\ exit \in ToolType /\ tool \in ToolType
           /\ exit.name \in Stats => (exit.rv = "ok" <=> ~exit.failed)
           /\ exit.name \in {"sqsh_cat", "sqsh_xattr"} => (exit.rv = "ok" <=> ~exit.last)
           /\ exit.rv # "ok" => exit.failed
  BY DEF FrontInv, FrontTypeOK, TellsFailure, Stats

LEMMA NoToolFacts == NoTool \in ToolType /\ NoTool.name = "none" /\ NoTool.rv = "ok" /\ ~NoTool.failed
  BY DEF NoTool, ToolType, Told3

LEMMA StepFree ==
    ASSUME FrontInv, Free
    PROVE  FrontInv'
  <1>1. KeepsOnlyResult'
    BY Names DEF Free, KeepsOnlyResult, NoAnswer, EasyNames
  <1>2. tool' = NoTool /\ RvOK'
    BY NoToolFacts DEF Free, RvOK, NoTool, Stats
  <1> QED BY <1>1, <1>2, ExitFacts, NoToolFacts, NoCallStep DEF Free

LEMMA StepKeyCopyFails ==
    ASSUME FrontInv, KeyCopyFails
    PROVE  FrontInv'
  <1>1. /\ call # NoCall /\ call.fn = "sqsh_easy_xattr_keys"
        /\ call' = NoCall /\ held' = {} /\ answer' = NoAnswer /\ UNCHANGED <<tool, exit>>
    BY DEF KeyCopyFails, AtItems, InCall
  <1>2. KeepsOnlyResult'
    BY <1>1, Names DEF KeepsOnlyResult, NoAnswer, EasyNames
  <1>3. tool.name = "none"
    BY <1>1, ExitFacts DEF FrontInv, CallerOK, ToolType, ToolNames, HandlerNames
  <1>4. RvOK'
    BY <1>1, <1>3 DEF FrontInv, RvOK, Stats
  <1> QED BY <1>1, <1>2, <1>3, <1>4, ExitFacts, NoCallStep

LEMMA StepOpensArchive ==
    ASSUME FrontInv, NEW name \in ToolNames \cup {"sqshfs2"}, NEW paths \in Nat,
           OpenArchive(name, paths), name \in Stats => paths = 1
    PROVE  FrontInv'
  <1>1. call' = NoCall /\ answer' = NoAnswer /\ tool = NoTool /\ held = {}
    BY DEF OpenArchive
  <1>2. CASE /\ tool' = [NoTool EXCEPT !.name = name, !.left = paths]
             /\ held' = {"archive"} /\ UNCHANGED exit
    <2>1. /\ tool' \in ToolType /\ tool'.name = name /\ tool'.left = paths /\ tool'.rv = "ok"
          /\ tool'.failed = FALSE /\ tool'.last = FALSE
      BY <1>2 DEF NoTool, ToolType, Told3
    <2>2. RvOK'
      BY <1>1, <2>1 DEF RvOK
    <2>3. KeepsOnlyResult' /\ held' \subseteq Kept
      BY <1>1, <1>2, Names DEF KeepsOnlyResult, NoAnswer, Kept, EasyNames
    <2> QED BY <1>1, <1>2, <2>1, <2>2, <2>3, ExitFacts, NoCallStep
  <1>3. CASE /\ exit' = [NoTool EXCEPT !.name = name, !.rv = "failure", !.failed = TRUE, !.last = TRUE]
             /\ UNCHANGED <<tool, held>>
    <2>1. /\ exit' \in ToolType /\ exit'.rv = "failure" /\ exit'.failed = TRUE /\ exit'.last = TRUE
      BY <1>3 DEF NoTool, ToolType, Told3
    <2>2. RvOK'
      BY <1>1, <1>3, NoToolFacts DEF RvOK, NoTool, Stats
    <2>3. KeepsOnlyResult'
      BY <1>1, <1>3, Names DEF KeepsOnlyResult, NoAnswer, EasyNames
    <2> QED BY <1>1, <1>3, <2>1, <2>2, <2>3, NoToolFacts, NoCallStep
  <1> QED BY <1>2, <1>3 DEF OpenArchive

LEMMA StepEndOfMain ==
    ASSUME FrontInv, EndOfMain \/ Unmount
    PROVE  FrontInv'
  <1>1. /\ call = NoCall /\ call' = NoCall /\ exit' = tool /\ held' = held \ {"archive"}
        /\ tool' = NoTool /\ answer' = NoAnswer /\ tool.name # "none"
        /\ tool.name \in ToolNames => (tool.left = 0 \/ tool.rv = "error")
    BY Names DEF EndOfMain, Unmount, ToolNames
  <1>2. held \subseteq Kept
    BY <1>1 DEF FrontInv, AtRest
  <1>3. KeepsOnlyResult'
    BY <1>1, <1>2, Names DEF KeepsOnlyResult, NoAnswer, Kept, EasyNames
  <1>4. RvOK'
    BY <1>1, NoToolFacts DEF RvOK, NoTool, Stats
  <1>5. /\ tool.name \in Stats => (tool.rv = "ok" <=> ~tool.failed)
        /\ tool.name \in {"sqsh_cat", "sqsh_xattr"} => (tool.rv = "ok" <=> ~tool.last)
        /\ tool.rv # "ok" => tool.failed
    BY <1>1 DEF FrontInv, RvOK
  <1> QED BY <1>1, <1>3, <1>4, <1>5, ExitFacts, NoToolFacts, NoCallStep

LEMMA StepCalls ==
    ASSUME FrontInv, NEW fn \in FnNames, NEW n \in 0..MaxItems,
           \/ fn \in EasyNames /\ CallEasy(fn, n)
           \/ NextPath(n)
           \/ fn \in HandlerNames /\ Request(fn, n)
    PROVE  FrontInv'
  <1>1. CASE fn \in EasyNames /\ CallEasy(fn, n)
    <2>1. /\ tool = NoTool /\ held = {} /\ Begin(fn, n) /\ call = NoCall /\ call'.fn = fn
          /\ UNCHANGED <<tool, held, answer, exit>>
      BY <1>1 DEF CallEasy, Begin, NoCall
    <2>2. CallerOK' /\ RvOK'
      BY <1>1, <2>1, NoToolFacts DEF CallerOK, RvOK, Stats, NoTool, ToolNames
    <2> QED BY <2>1, <2>2, NoToolFacts, FunctionBegins
  <1>2. CASE NextPath(n)
    <2>1. /\ tool.name \in ToolNames /\ tool.left > 0 /\ tool.rv # "error" /\ Begin(tool.name, n)
          /\ tool' = [tool EXCEPT !.left = @ - 1] /\ call = NoCall /\ call'.fn = tool.name
          /\ UNCHANGED <<held, answer, exit>>
      BY <1>2, Names DEF NextPath, Begin, NoCall
    <2>2. /\ tool \in ToolType /\ tool' \in ToolType /\ tool'.name = tool.name
          /\ tool'.left = tool.left - 1 /\ tool'.rv = tool.rv /\ tool'.failed = tool.failed
      BY <2>1, ExitFacts DEF ToolType
    <2>3. held \subseteq Kept
      BY <2>1 DEF FrontInv, AtRest, ToolNames
    <2>4. call' # NoCall
      BY <2>1 DEF NoCall, ToolNames
    <2>5. CallerOK'
      BY <2>1, <2>2 DEF CallerOK, ToolNames
    <2>6. RvOK'
      <3>1. tool.name \in Stats => tool.left = 1 /\ tool'.left = 0
        BY <2>1, <2>2 DEF FrontInv, RvOK
      <3> QED BY <2>1, <2>2, <2>4, <3>1 DEF FrontInv, RvOK
    <2> QED BY <2>1, <2>2, <2>3, <2>5, <2>6, FunctionBegins DEF FnNames
  <1>3. CASE fn \in HandlerNames /\ Request(fn, n)
    <2>1. /\ tool.name = "sqshfs2" /\ Begin(fn, n) /\ call = NoCall /\ call'.fn = fn
          /\ UNCHANGED <<tool, held, answer, exit>>
      BY <1>3 DEF Request, Begin, NoCall
    <2>2. held \subseteq Kept
      BY <2>1 DEF FrontInv, AtRest
    <2>3. CallerOK'
      BY <1>3, <2>1 DEF CallerOK, ToolNames
    <2>4. RvOK'
      BY <2>1 DEF FrontInv, RvOK, Stats
    <2> QED BY <2>1, <2>2, <2>3, <2>4, ExitFacts, FunctionBegins
  <1> QED BY <1>1, <1>2, <1>3

LEMMA FrontNextHolds == FrontInv /\ [FrontNext]_frontVars => FrontInv'
  <1> SUFFICES ASSUME FrontInv, [FrontNext]_frontVars PROVE FrontInv'
    OBVIOUS
  <1>1. CASE UNCHANGED frontVars
    BY <1>1 DEF frontVars, FrontInv, FrontTypeOK, FunctionOK, HeldOK, Acquired, Copied, Body, AtRest,
                KeepsOnlyResult, CallerOK, RvOK, TellsFailure
  <1>2. ASSUME NEW fn \in DOMAIN Easy, NEW n \in 0..MaxItems, CallEasy(fn, n) PROVE FrontInv'
    BY <1>2, Names, StepCalls DEF FnNames
  <1>3. ASSUME NEW n \in 0..MaxItems, NextPath(n) PROVE FrontInv'
    <2>1. "sqsh_cat" \in FnNames
      BY DEF FnNames, ToolNames
    <2> QED BY <1>3, <2>1, StepCalls
  <1>4. ASSUME NEW fn \in DOMAIN Handlers, NEW n \in 0..MaxItems, Request(fn, n) PROVE FrontInv'
    BY <1>4, Names, StepCalls DEF FnNames
  <1>5. ASSUME NEW name \in DOMAIN Tools, NEW paths \in 1..MaxPaths, Start(name, paths) PROVE FrontInv'
    <2>1. paths \in Nat /\ name \in ToolNames
      BY Names, MaxPathsAssumption
    <2> QED BY <1>5, <2>1, StepOpensArchive DEF Start, Stats
  <1>6. CASE Mount
    <2>1. "sqshfs2" \notin Stats
      BY DEF Stats
    <2> QED BY <1>6, <2>1, StepOpensArchive DEF Mount
  <1>7. CASE Step \/ StepFails \/ StepAbsent \/ Item \/ ItemFails \/ ListingLost \/ CollectFails
    BY <1>7, StepStep, StepStepFails, StepStepAbsent, StepItem, StepItemFails, StepListingLost,
       StepCollectFails
  <1>8. CASE Return \/ Free \/ KeyCopyFails \/ EndOfMain \/ Unmount
    BY <1>8, StepReturn, StepFree, StepKeyCopyFails, StepEndOfMain
  <1> QED BY <1>1, <1>2, <1>3, <1>4, <1>5, <1>6, <1>7, <1>8 DEF FrontNext

LEMMA FrontInductive == FrontSpec => []FrontInv
  <1> QED BY FrontInitHolds, FrontNextHolds, PTL DEF FrontSpec

\* Every function of the easy API, of the programs and of the FUSE 2 file system gives back all it
\* acquired but its result, at whichever point it fails, for any number of entries; and the
\* functions of the easy API, and fs_open, hand their result out with a success and never with an
\* error.
THEOREM NothingElseKept == FrontSpec => []KeepsOnlyResult
  <1>1. FrontInv => KeepsOnlyResult
    BY DEF FrontInv
  <1> QED BY <1>1, FrontInductive, PTL

\* Nobody is told that all went well who has not got everything, but by the listings of sqsh-ls
\* and fs_readdir, and by sqsh_easy_tree_traversal where the listing of a directory below its
\* start failed; and exit statuses say of failures what they should.
THEOREM FailuresTold == FrontSpec => []TellsFailure
  <1>1. FrontInv => TellsFailure
    BY DEF FrontInv
  <1> QED BY <1>1, FrontInductive, PTL
=============================================================================
